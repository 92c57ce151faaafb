------------------------- MODULE ShellStreamProofs -------------------------
(***************************************************************************)
(* Proofs about ShellStream for every value of its constants: any number   *)
(* of clients, any ring, broadcast and queue capacity, any bound.          *)
(***************************************************************************)
EXTENDS ShellStream, SequenceTheorems, TLAPS

----------------------------------------------------------------------------
(* The scrollback ring. *)

RingTypes ==
  /\ sb \in [Epoch -> [total : Nat, lo : Nat, hi : Nat]]
  /\ chunks \in [Epoch -> Seq(Frame)]

RingInv == RingTypes /\ RingIsTail

\* Appending to the broadcast ring, with or without dropping its oldest
\* chunk, leaves the chunk just sent at its end.
LEMMA BroadcastEnd ==
  ASSUME RingTypes, NEW e \in Epoch, NEW lo \in Nat, NEW hi \in Nat
  PROVE  /\ Broadcast(e, lo, hi) \in Seq(Frame)
         /\ Broadcast(e, lo, hi) # <<>>
         /\ Broadcast(e, lo, hi)[Len(Broadcast(e, lo, hi))].hi = hi
         /\ Len(Broadcast(e, lo, hi)) <= Len(chunks[e]) + 1
<1> DEFINE x == Data(e, lo, hi)
           b == Append(chunks[e], x)
<1>1. x \in Frame /\ x.hi = hi
  BY DEF Data, Frame, FrameType, Epoch
<1>2. chunks[e] \in Seq(Frame) /\ Len(chunks[e]) \in Nat
  BY DEF RingTypes
<1> HIDE DEF x
<1>3. /\ b \in Seq(Frame)
      /\ Len(b) = Len(chunks[e]) + 1
      /\ b[Len(b)] = x
  BY <1>1, <1>2, AppendProperties
<1>4. Broadcast(e, lo, hi) = IF Len(b) > BCap THEN Tail(b) ELSE b
  BY DEF Broadcast, x
<1> HIDE DEF b
<1>5. CASE Len(b) > BCap
  <2>1. Len(b) \in Nat /\ Len(b) > 1 /\ b # <<>>
    BY <1>2, <1>3, <1>5, StreamAssumption
  <2>2. /\ Tail(b) \in Seq(Frame)
        /\ Len(Tail(b)) = Len(b) - 1
        /\ Tail(b)[Len(b) - 1] = b[Len(b)]
    BY <1>3, <2>1, HeadTailProperties
  <2>3. QED
    BY <1>1, <1>2, <1>3, <1>4, <1>5, <2>1, <2>2
<1>6. CASE ~(Len(b) > BCap)
  BY <1>1, <1>2, <1>3, <1>4, <1>6
<1>7. QED
  BY <1>5, <1>6

\* One push keeps a ring that was the stream's tail its tail.
LEMMA PushKeepsTail ==
  ASSUME NEW s \in [total : Nat, lo : Nat, hi : Nat], NEW n \in Nat,
         s.hi = s.total,
         s.hi - s.lo = IF s.total < Cap THEN s.total ELSE Cap
  PROVE  /\ Push(s, n) \in [total : Nat, lo : Nat, hi : Nat]
         /\ Push(s, n).hi = s.hi + n
         /\ Push(s, n).hi = Push(s, n).total
         /\ Push(s, n).hi - Push(s, n).lo
              = IF Push(s, n).total < Cap THEN Push(s, n).total ELSE Cap
<1>1. /\ s.total \in Nat /\ s.lo \in Nat /\ s.hi \in Nat /\ Cap \in Nat \ {0}
      /\ s.lo = IF s.total < Cap THEN 0 ELSE s.total - Cap
  BY StreamAssumption
<1>2. RingStart(s.lo, s.hi + n) = IF s.total + n < Cap THEN 0 ELSE s.total + n - Cap
  BY <1>1 DEF RingStart
<1>3. /\ Push(s, n).total = s.total + n
      /\ Push(s, n).hi = s.hi + n
      /\ Push(s, n).lo = IF s.total + n < Cap THEN 0 ELSE s.total + n - Cap
      /\ Push(s, n) = [total |-> s.total + n, lo |-> RingStart(s.lo, s.hi + n), hi |-> s.hi + n]
  BY <1>2 DEF Push
<1>4. Push(s, n) \in [total : Nat, lo : Nat, hi : Nat]
  BY <1>1, <1>2, <1>3
<1>5. QED
  BY <1>1, <1>3, <1>4

\* The ring is empty at the start, and so is what was output.
LEMMA RingInit == Init => RingInv
BY StreamAssumption DEF Init, RingInv, RingTypes, RingIsTail

\* Only a read of the pty changes the ring, and it changes the output with it.
LEMMA RingStep == RingInv /\ [Next]_vars => RingInv'
<1> SUFFICES ASSUME RingInv, [Next]_vars PROVE RingInv'
  OBVIOUS
<1>1. CASE \E e \in Epoch, n \in 1..MaxChunk : ReadChunk(e, n)
  <2>1. PICK e \in Epoch, n \in 1..MaxChunk : ReadChunk(e, n)
    BY <1>1
  <2>2. n \in Nat /\ sb[e] \in [total : Nat, lo : Nat, hi : Nat] /\ sb[e].hi \in Nat
    BY StreamAssumption DEF RingInv, RingTypes
  <2>3. /\ sb' = [sb EXCEPT ![e] = Push(sb[e], n)]
        /\ chunks' = [chunks EXCEPT ![e] = Broadcast(e, sb[e].hi, sb[e].hi + n)]
    BY <2>1 DEF ReadChunk
  <2> DEFINE p == Push(sb[e], n)
             b == Broadcast(e, sb[e].hi, sb[e].hi + n)
  <2>4. /\ p \in [total : Nat, lo : Nat, hi : Nat]
        /\ p.hi = sb[e].hi + n /\ p.hi = p.total
        /\ p.hi - p.lo = IF p.total < Cap THEN p.total ELSE Cap
    BY <2>2, PushKeepsTail DEF RingInv, RingIsTail
  <2>5. b \in Seq(Frame) /\ b # <<>> /\ b[Len(b)].hi = sb[e].hi + n
    BY <2>2, BroadcastEnd DEF RingInv
  <2> HIDE DEF p, b
  <2>6. RingTypes'
    BY <2>3, <2>4, <2>5 DEF p, b, RingInv, RingTypes
  <2>7. RingIsTail'
    <3> SUFFICES ASSUME NEW d \in Epoch
                 PROVE  /\ sb'[d].hi = sb'[d].total
                        /\ sb'[d].hi - sb'[d].lo = IF sb'[d].total < Cap THEN sb'[d].total ELSE Cap
                        /\ chunks'[d] # <<>> => chunks'[d][Len(chunks'[d])].hi = sb'[d].total
      BY DEF RingIsTail
    <3>1. CASE d = e
      <4>1. sb'[d] = p /\ chunks'[d] = b
        BY <2>3, <3>1 DEF p, b, RingInv, RingTypes
      <4>2. QED
        BY <2>4, <2>5, <4>1
    <3>2. CASE d # e
      <4>1. sb'[d] = sb[d] /\ chunks'[d] = chunks[d]
        BY <2>3, <3>2 DEF RingInv, RingTypes
      <4>2. QED
        BY <4>1 DEF RingInv, RingIsTail
    <3>3. QED
      BY <3>1, <3>2
  <2>8. QED
    BY <2>6, <2>7 DEF RingInv
<1>2. CASE UNCHANGED <<sb, chunks>>
  BY <1>2 DEF RingInv, RingTypes, RingIsTail
<1>3. QED
  <2>1. CASE ShellNext
    BY <1>1, <1>2, <2>1 DEF ShellNext, ReaderEof, ReaderShutdown, ResetStop, ResetTake
  <2>2. ASSUME NEW c \in Client, MainLoop(c) PROVE UNCHANGED <<sb, chunks>>
    BY <2>2 DEF MainLoop, HandleOpen, JoinOld, HandleClose, AttachLive, AttachDead, AttachSpawn,
       AttachFail, AttachCut, AttachWatch, SendHello, SendReplay, SendFailed, shellVars
  <2>3. ASSUME NEW c \in Client, Forward(c) \/ Aborted(c) PROVE UNCHANGED <<sb, chunks>>
    BY <2>3 DEF Forward, Aborted, ForwardSend, ForwardArm, AbortedSend, AbortedGone, AbortedArm, shellVars
  <2>4. ASSUME NEW c \in Client, ClientNext(c) PROVE UNCHANGED <<sb, chunks>>
    BY <2>4 DEF ClientNext, Connect, Drop, SendClose, SendOpen, Receive, ReceiveHello, ReceiveData,
       ReceiveRedraw, ReceiveClosed, shellVars
  <2>5. CASE UNCHANGED vars
    BY <1>2, <2>5 DEF vars, shellVars
  <2>6. QED
    BY <1>2, <2>1, <2>2, <2>3, <2>4, <2>5 DEF Next

\* Scrollback::push and cut: at every moment, for every cap, the ring holds
\* exactly the last min(total, cap) bytes of the shell's output and ends where
\* the last broadcast chunk ends.
THEOREM RingIsTailHolds == Spec => []RingIsTail
<1>1. RingInv => RingIsTail
  BY DEF RingInv
<1>2. QED
  BY <1>1, RingInit, RingStep, PTL DEF Spec

----------------------------------------------------------------------------
(* The inductive invariant for typing, the slot lock and the watch. *)

HoldsSlot(c) == pc[c] \in {"spawn", "cut", "watch"}

\* One attach() at a time is between its look at the slot and its return, and
\* what it found there is still there.
LockInv ==
  /\ \A c, d \in Client : HoldsSlot(c) /\ HoldsSlot(d) => c = d
  /\ \A c \in Client :
       /\ pc[c] = "spawn" => slot = NoEpoch
       /\ pc[c] = "cut" => slot \in Epoch
       /\ pc[c] = "watch" => slot \in Epoch /\ att[c].e = slot

\* A broadcast receiver stands somewhere in its shell's stream of chunks.
TaskOK(t) == t.st # "none" => t.e \in Epoch /\ t.rx \in 1..(sent[t.e] + 1)

TaskInv ==
  \A c \in Client :
    /\ TaskOK(fwd[c]) /\ TaskOK(old[c])
    /\ pc[c] \in {"watch", "hello", "replay"} =>
         /\ att[c].t # "none" /\ att[c].e \in Epoch
         /\ att[c].rx \in 1..(sent[att[c].e] + 1)

\* Whoever holds a watch receiver without senders has been told.
SpinInv ==
  /\ NoSpin
  /\ \A c \in Client :
       pc[c] \in {"hello", "replay"} /\ ~HasSender(att[c].e) => shut[att[c].e].val

IInv == TypeOK /\ RingInv /\ LockInv /\ TaskInv /\ SpinInv

\* A chunk that has not been overwritten is a frame.
LEMMA ChunkFrame ==
  ASSUME TypeOK, NEW t \in Task, t.st # "none", TaskOK(t), Unread(t), ~Lagged(t)
  PROVE  ChunkAt(t.e, t.rx) \in Frame
<1>1. /\ t.e \in Epoch /\ t.rx \in Nat /\ sent[t.e] \in Nat
      /\ chunks[t.e] \in Seq(Frame) /\ Len(chunks[t.e]) \in Nat
  BY DEF TypeOK, ShellType, TaskOK, Task
<1>2. t.rx - Oldest(t.e) + 1 \in 1..Len(chunks[t.e])
  BY <1>1 DEF Unread, Lagged, Oldest
<1>3. QED
  BY <1>1, <1>2, ElementOfSeq DEF ChunkAt

\* So is everything a redraw drains, and it is a sequence even when nothing
\* is pending.
LEMMA PendingFrames ==
  ASSUME TypeOK, NEW t \in Task, t.st # "none", TaskOK(t), ~(Unread(t) /\ Lagged(t))
  PROVE  Pending(t) \in Seq(Frame)
<1> DEFINE k == t.rx - Oldest(t.e) + 1
           n == Len(chunks[t.e])
<1>1. /\ t.e \in Epoch /\ t.rx \in 1..(sent[t.e] + 1) /\ sent[t.e] \in Nat
      /\ chunks[t.e] \in Seq(Frame) /\ n \in Nat
  BY DEF TypeOK, ShellType, TaskOK, Task
<1>2. t.rx >= Oldest(t.e) /\ Oldest(t.e) \in Int
  BY <1>1 DEF Unread, Lagged, Oldest
<1>3. k \in Int /\ k >= 1
  BY <1>1, <1>2
<1> HIDE DEF k
<1>4. \A i \in k..n : chunks[t.e][i] \in Frame
  BY <1>1, <1>3, ElementOfSeq
<1>5. SubSeq(chunks[t.e], k, n) \in Seq(Frame)
  BY <1>1, <1>3, <1>4, SubSeqProperties
<1>6. QED
  BY <1>5 DEF Pending, k

\* Every arm of the select! leaves a task in good order.
LEMMA TakeTask ==
  ASSUME TypeOK, NEW t \in Task, TaskOK(t), NEW a \in Arm, Ready(t, a)
  PROVE  /\ Take(t, a) \in Task /\ TaskOK(Take(t, a))
         /\ Take(t, a).st # "none" => Take(t, a).e = t.e
<1>1. /\ t.st = "run" /\ t.e \in Epoch /\ t.rx \in 1..(sent[t.e] + 1) /\ t.e \in 0..MaxEpoch
      /\ sent[t.e] \in Nat /\ sb[t.e].total \in Nat /\ shut[t.e].ver \in Nat
  BY DEF TypeOK, ShellType, TaskOK, Ready, Epoch, Task
<1>2. <<Closed("error", t.e)>> \in Seq(Frame) /\ <<Closed("exit", t.e)>> \in Seq(Frame)
  BY <1>1 DEF Closed, Frame, FrameType
<1>3. NoTask \in Task /\ TaskOK(NoTask) /\ NoTask.st = "none"
  BY StreamAssumption DEF NoTask, Task, TaskOK, NoEpoch
<1>4. TakeOutput(t) \in Task /\ TaskOK(TakeOutput(t)) /\ (TakeOutput(t).st # "none" => TakeOutput(t).e = t.e)
  <2>1. CASE ~Unread(t)
    BY <1>3, <2>1 DEF TakeOutput
  <2>2. CASE Unread(t) /\ Lagged(t)
    <3>1. TakeOutput(t) = [t EXCEPT !.st = "end", !.hand = <<Closed("error", t.e)>>]
      BY <2>2 DEF TakeOutput
    <3>2. QED
      BY <1>1, <1>2, <3>1 DEF Task, TaskOK
  <2>3. CASE Unread(t) /\ ~Lagged(t)
    <3>1. ChunkAt(t.e, t.rx) \in Frame
      BY <1>1, <2>3, ChunkFrame
    <3>2. t.rx + 1 \in 1..(sent[t.e] + 1)
      BY <1>1, <2>3 DEF Unread
    <3>3. /\ TakeOutput(t) = [t EXCEPT !.rx = t.rx + 1, !.hand = <<ChunkAt(t.e, t.rx)>>]
          /\ <<ChunkAt(t.e, t.rx)>> \in Seq(Frame) /\ t.rx + 1 \in Nat
      BY <2>3, <3>1, <3>2 DEF TakeOutput
    <3>4. TakeOutput(t) \in Task /\ TakeOutput(t).e = t.e /\ TakeOutput(t).rx = t.rx + 1
      BY <3>3 DEF Task
    <3>5. QED
      BY <1>1, <3>2, <3>4 DEF TaskOK
  <2>4. QED
    BY <2>1, <2>2, <2>3
<1>5. TakeShutdown(t) \in Task /\ TaskOK(TakeShutdown(t)) /\ TakeShutdown(t).e = t.e
  <2>1. \/ TakeShutdown(t) = [t EXCEPT !.st = "end", !.hand = <<Closed("exit", t.e)>>]
        \/ TakeShutdown(t) = [t EXCEPT !.seen = shut[t.e].ver]
    BY DEF TakeShutdown
  <2>2. QED
    BY <1>1, <1>2, <2>1 DEF Task, TaskOK
<1>6. TakeRedraw(t) \in Task /\ TaskOK(TakeRedraw(t)) /\ TakeRedraw(t).e = t.e
  <2>1. CASE Unread(t) /\ Lagged(t)
    <3>1. TakeRedraw(t) = [t EXCEPT !.st = "end", !.hand = <<Closed("error", t.e)>>]
      BY <2>1 DEF TakeRedraw
    <3>2. QED
      BY <1>1, <1>2, <3>1 DEF Task, TaskOK
  <2>2. CASE ~(Unread(t) /\ Lagged(t))
    <3>1. Pending(t) \in Seq(Frame)
      BY <1>1, <2>2, PendingFrames
    <3>2. Redraw(t.e, sb[t.e].total) \in Frame
      BY <1>1 DEF Redraw, Frame, FrameType
    <3>3. SnapshotLast(t) \in Seq(Frame)
      BY <3>1, <3>2, AppendProperties DEF SnapshotLast
    <3>4. sent[t.e] + 1 \in 1..(sent[t.e] + 1) /\ sent[t.e] + 1 \in Nat
      BY <1>1
    <3>5. TakeRedraw(t) = [t EXCEPT !.rx = sent[t.e] + 1, !.hand = SnapshotLast(t)]
      BY <2>2 DEF TakeRedraw
    <3>6. TakeRedraw(t) \in Task /\ TakeRedraw(t).e = t.e /\ TakeRedraw(t).rx = sent[t.e] + 1
      BY <3>3, <3>4, <3>5 DEF Task
    <3>7. QED
      BY <1>1, <3>4, <3>6 DEF TaskOK
  <2>3. QED
    BY <2>1, <2>2
<1>7. QED
  BY <1>4, <1>5, <1>6 DEF Arm, Take

\* Sending what is in hand leaves one too.
LEMMA AfterSendTask ==
  ASSUME StreamAssumption, NEW t \in Task, TaskOK(t), t.hand # <<>>
  PROVE  /\ AfterSend(t) \in Task /\ TaskOK(AfterSend(t)) /\ Head(t.hand) \in Frame
         /\ AfterSend(t).st # "none" => AfterSend(t).e = t.e /\ AfterSend(t).st = t.st
<1>1. t.hand \in Seq(Frame) /\ Tail(t.hand) \in Seq(Frame) /\ Head(t.hand) \in Frame
  BY HeadTailProperties DEF Task
<1>2. NoTask \in Task /\ TaskOK(NoTask) /\ NoTask.st = "none"
  BY DEF NoTask, Task, TaskOK, NoEpoch, StreamAssumption
<1>3. [t EXCEPT !.hand = Tail(t.hand)] \in Task /\ TaskOK([t EXCEPT !.hand = Tail(t.hand)])
  BY <1>1 DEF Task, TaskOK
<1>4. QED
  BY <1>1, <1>2, <1>3 DEF AfterSend, Task

\* The cut point lies in the ring, whatever offset a client asks for.
LEMMA CutInRing ==
  ASSUME NEW s \in [total : Nat, lo : Nat, hi : Nat], NEW off \in Int,
         s.hi = s.total, s.lo <= s.hi
  PROVE  LET k == Cut(s, off)
         IN  /\ k.t \in {"resume", "replay"} /\ k.base \in Nat /\ k.lo \in Nat /\ k.hi \in Nat
             /\ s.lo <= k.lo /\ k.lo <= k.hi /\ k.hi = s.hi /\ k.base = k.lo
             /\ k.t = "resume" => k.base = off
BY DEF Cut, ReplayBase

\* Painting keeps a screen a sequence of runs.
LEMMA PaintType ==
  ASSUME NEW s \in Seq(Run), NEW f \in Frame
  PROVE  Paint(s, f) \in Seq(Run)
<1>1. f.e \in 0..MaxEpoch /\ f.lo \in Nat /\ f.hi \in Nat
  BY DEF Frame
<1>2. CASE s # <<>> /\ s[Len(s)].e = f.e /\ s[Len(s)].hi = f.lo
  <2>1. Len(s) \in 1..Len(s) /\ s[Len(s)] \in Run
    BY <1>2, ElementOfSeq, EmptySeq
  <2>2. [s[Len(s)] EXCEPT !.hi = f.hi] \in Run
    BY <1>1, <2>1 DEF Run
  <2>3. [s EXCEPT ![Len(s)] = [s[Len(s)] EXCEPT !.hi = f.hi]] \in Seq(Run)
    BY <2>1, <2>2, ExceptSeq
  <2>4. QED
    BY <1>2, <2>3 DEF Paint
<1>3. CASE ~(s # <<>> /\ s[Len(s)].e = f.e /\ s[Len(s)].hi = f.lo)
  <2>1. [e |-> f.e, lo |-> f.lo, hi |-> f.hi] \in Run
    BY <1>1 DEF Run
  <2>2. QED
    BY <1>3, <2>1, AppendProperties DEF Paint
<1>4. QED
  BY <1>2, <1>3

\* A shutdown leaves the shell's watches in their types.
LEMMA ShutdownType ==
  ASSUME TypeOK, NEW e \in Epoch, SendShutdown(e)
  PROVE  /\ shut' \in [Epoch -> [ver : Nat, val : BOOLEAN]]
         /\ Receivers(e) # {} => shut'[e].val
         /\ \A d \in Epoch : shut[d].val => shut'[d].val
<1>1. shut \in [Epoch -> [ver : Nat, val : BOOLEAN]]
  BY DEF TypeOK, ShellType
<1>2. CASE Receivers(e) = {}
  BY <1>1, <1>2 DEF SendShutdown
<1>3. CASE Receivers(e) # {}
  <2>1. shut' = [shut EXCEPT ![e] = [ver |-> shut[e].ver + 1, val |-> TRUE]]
    BY <1>3 DEF SendShutdown
  <2>2. [ver |-> shut[e].ver + 1, val |-> TRUE] \in [ver : Nat, val : BOOLEAN]
    BY <1>1
  <2>3. QED
    BY <1>1, <2>1, <2>2
<1>4. QED
  BY <1>2, <1>3

\* The shells' state keeps its types.
LEMMA ShellTypeStep ==
  ASSUME IInv, [Next]_vars PROVE ShellType'
<1>1. TypeOK /\ ShellType /\ RingInv /\ LockInv
  BY DEF IInv, TypeOK
<1>2. RingTypes'
  BY RingStep DEF IInv, RingInv
<1>3. ASSUME NEW e \in Epoch, NEW n \in 1..MaxChunk, ReadChunk(e, n) PROVE ShellType'
  <2>1. sent' \in [Epoch -> Nat]
    BY <1>1, <1>3 DEF ShellType, ReadChunk
  <2>2. UNCHANGED <<slot, spawned, stopping, reader, shut>>
    BY <1>3 DEF ReadChunk
  <2>3. QED
    BY <1>1, <1>2, <2>1, <2>2 DEF ShellType, RingTypes
<1>4. ASSUME NEW e \in Epoch, ReaderEof(e) \/ ReaderShutdown(e) \/ ResetStop(e) PROVE ShellType'
  BY <1>1, <1>4, ShutdownType DEF ShellType, ReaderEof, ReaderShutdown, ResetStop
<1>5. CASE ResetTake
  <2>1. slot \in Epoch /\ slot' \in 0..MaxEpoch
    BY <1>1, <1>5, StreamAssumption DEF ShellType, ResetTake, NoEpoch, Epoch
  <2>2. QED
    BY <1>1, <1>5, <2>1 DEF ShellType, ResetTake
<1>6. ASSUME NEW c \in Client, AttachDead(c) PROVE ShellType'
  <2>1. slot # NoEpoch => slot \in Epoch
    BY <1>1 DEF ShellType, NoEpoch, Epoch
  <2>2. 0 \in 0..MaxEpoch
    BY StreamAssumption
  <2>3. QED
    BY <1>1, <1>6, <2>1, <2>2, ShutdownType DEF ShellType, AttachDead, NoEpoch
<1>7. ASSUME NEW c \in Client, AttachSpawn(c) PROVE ShellType'
  <2>1. spawned + 1 \in Epoch /\ spawned + 1 \in 0..MaxEpoch
    BY <1>1, <1>7, StreamAssumption DEF ShellType, AttachSpawn, Epoch
  <2>2. QED
    BY <1>1, <1>7, <2>1 DEF ShellType, AttachSpawn
<1>8. CASE UNCHANGED shellVars
  BY <1>1, <1>8 DEF ShellType, shellVars
<1>9. ASSUME NEW c \in Client, MainLoop(c) PROVE ShellType'
  BY <1>6, <1>7, <1>8, <1>9 DEF MainLoop, HandleOpen, JoinOld, HandleClose, AttachLive, AttachFail,
     AttachCut, AttachWatch, SendHello, SendReplay, SendFailed
<1>10. ASSUME NEW c \in Client, Forward(c) \/ Aborted(c) PROVE ShellType'
  BY <1>8, <1>10 DEF Forward, Aborted, ForwardSend, ForwardArm, AbortedSend, AbortedGone, AbortedArm
<1>11. ASSUME NEW c \in Client, ClientNext(c) PROVE ShellType'
  BY <1>8, <1>11 DEF ClientNext, Connect, Drop, SendClose, SendOpen, Receive, ReceiveHello, ReceiveData,
     ReceiveRedraw, ReceiveClosed
<1>12. QED
  BY <1>3, <1>4, <1>5, <1>8, <1>9, <1>10, <1>11 DEF Next, ShellNext, vars

\* The connections' server-side state keeps its types.
LEMMA ServerTypeStep ==
  ASSUME IInv, [Next]_vars PROVE ServerType'
<1>1. TypeOK /\ ShellType /\ ServerType /\ ClientType
  BY DEF IInv, TypeOK
<1>2. NoTask \in Task /\ NoAttach \in Attach /\ NoResume \in Resume
  BY StreamAssumption DEF NoTask, NoAttach, NoResume, Task, Attach, Resume, NoEpoch, NoOffset
<1>3. ASSUME NEW c \in Client, HandleOpen(c) PROVE ServerType'
  <2>1. Head(up[c]).resume \in Resume
    <3>1. up[c] \in Seq([t : {"open", "close"}, resume : Resume]) /\ up[c] # <<>>
      BY <1>1, <1>3 DEF ClientType, HandleOpen
    <3>2. Head(up[c]) \in [t : {"open", "close"}, resume : Resume]
      BY <3>1, HeadTailProperties
    <3>3. QED
      BY <3>2
  <2>2. AfterAbort(c) \in {"join", "attach"}
    BY DEF AfterAbort
  <2>3. QED
    BY <1>1, <1>2, <1>3, <2>1, <2>2 DEF ServerType, HandleOpen, RemoveChannel
<1>4. ASSUME NEW c \in Client, HandleClose(c) PROVE ServerType'
  BY <1>1, <1>2, <1>4 DEF ServerType, HandleClose, RemoveChannel
<1>5. ASSUME NEW c \in Client, JoinOld(c) \/ AttachLive(c) \/ AttachDead(c) \/ AttachSpawn(c) \/ AttachFail(c)
      PROVE ServerType'
  BY <1>1, <1>2, <1>5 DEF ServerType, JoinOld, AttachLive, AttachDead, AttachSpawn, AttachFail
<1>6. ASSUME NEW c \in Client, AttachCut(c) PROVE ServerType'
  <2> DEFINE o == IF req[c].e = slot THEN req[c].off ELSE NoOffset
             k == Cut(sb[slot], o)
  <2>1. slot \in Epoch /\ slot \in 0..MaxEpoch
    BY <1>6 DEF AttachCut, IInv, LockInv, Epoch
  <2>2. o \in Int
    BY <1>1, <1>6 DEF ServerType, Resume, NoOffset
  <2>3. /\ sb[slot] \in [total : Nat, lo : Nat, hi : Nat]
        /\ sb[slot].hi = sb[slot].total /\ sb[slot].lo <= sb[slot].hi
    BY <1>1, <2>1, StreamAssumption DEF ShellType, IInv, RingInv, RingIsTail
  <2>4. k.t \in {"resume", "replay"} /\ k.base \in Nat /\ k.lo \in Nat /\ k.hi \in Nat
    BY <2>2, <2>3, CutInRing
  <2>5. Subscribe(slot) \in Nat
    BY <1>1, <2>1 DEF Subscribe, ShellType
  <2>6. att' = [att EXCEPT ![c] = [t |-> k.t, e |-> slot, base |-> k.base, lo |-> k.lo,
                                   hi |-> k.hi, rx |-> Subscribe(slot), seen |-> 0]]
    BY <1>6 DEF AttachCut
  <2> HIDE DEF k
  <2>7. att' \in [Client -> Attach]
    BY <1>1, <2>1, <2>4, <2>5, <2>6 DEF ServerType, Attach
  <2>8. QED
    BY <1>1, <1>2, <1>6, <2>7 DEF ServerType, AttachCut
<1>7. ASSUME NEW c \in Client, AttachWatch(c) PROVE ServerType'
  <2>1. shut[att[c].e].ver \in Nat
    BY <1>1, <1>7 DEF ShellType, AttachWatch, IInv, TaskInv
  <2>2. att' = [att EXCEPT ![c] = [att[c] EXCEPT !.seen = shut[att[c].e].ver]]
    BY <1>7 DEF AttachWatch
  <2>3. att' \in [Client -> Attach]
    BY <1>1, <2>1, <2>2 DEF ServerType, Attach
  <2>4. QED
    BY <1>1, <1>7, <2>3 DEF ServerType, AttachWatch
<1>8. ASSUME NEW c \in Client, NEW f \in Frame, out' = [out EXCEPT ![c] = Append(out[c], f)]
      PROVE  out' \in [Client -> Seq(Frame)]
  BY <1>1, <1>8, AppendProperties DEF ServerType
<1>9. ASSUME NEW c \in Client, pc[c] \in {"hello", "replay"}
      PROVE  /\ Hello(att[c].t, att[c].e, att[c].base) \in Frame
             /\ Data(att[c].e, att[c].lo, att[c].hi) \in Frame
  BY <1>1, <1>9 DEF ServerType, Attach, Hello, Data, Frame, FrameType, IInv, TaskInv
<1>10. ASSUME NEW c \in Client, SendHello(c) PROVE ServerType'
  <2>1. out' \in [Client -> Seq(Frame)]
    BY <1>8, <1>9, <1>10 DEF SendHello
  <2>2. QED
    BY <1>1, <1>10, <2>1 DEF ServerType, SendHello
<1>11. ASSUME NEW c \in Client, SendReplay(c) PROVE ServerType'
  <2>1. out' \in [Client -> Seq(Frame)]
    BY <1>8, <1>9, <1>11 DEF SendReplay
  <2>2. [st |-> "run", e |-> att[c].e, rx |-> att[c].rx, seen |-> att[c].seen, hand |-> <<>>] \in Task
    BY <1>1 DEF ServerType, Attach, Task
  <2>3. QED
    BY <1>1, <1>2, <1>11, <2>1, <2>2 DEF ServerType, SendReplay
<1>12. ASSUME NEW c \in Client, SendFailed(c) PROVE ServerType'
  <2>1. Closed("error", NoEpoch) \in Frame
    BY StreamAssumption DEF Closed, Frame, FrameType, NoEpoch
  <2>2. out' \in [Client -> Seq(Frame)]
    BY <1>8, <1>12, <2>1 DEF SendFailed
  <2>3. QED
    BY <1>1, <1>12, <2>2 DEF ServerType, SendFailed
<1>13. ASSUME NEW c \in Client, NEW a \in Arm, ForwardArm(c, a) \/ AbortedArm(c, a) PROVE ServerType'
  <2>1. fwd[c] \in Task /\ TaskOK(fwd[c]) /\ old[c] \in Task /\ TaskOK(old[c])
    BY <1>1 DEF ServerType, IInv, TaskInv
  <2>2. /\ Ready(fwd[c], a) => Take(fwd[c], a) \in Task
        /\ Ready(old[c], a) => Take(old[c], a) \in Task
    BY <1>1, <2>1, TakeTask
  <2>3. QED
    BY <1>1, <1>13, <2>2 DEF ServerType, ForwardArm, AbortedArm
<1>14. ASSUME NEW c \in Client, ForwardSend(c) \/ AbortedSend(c) PROVE ServerType'
  <2>1. fwd[c] \in Task /\ TaskOK(fwd[c]) /\ old[c] \in Task /\ TaskOK(old[c])
    BY <1>1 DEF ServerType, IInv, TaskInv
  <2>2. /\ fwd[c].hand # <<>> => AfterSend(fwd[c]) \in Task /\ Head(fwd[c].hand) \in Frame
        /\ old[c].hand # <<>> => AfterSend(old[c]) \in Task /\ Head(old[c].hand) \in Frame
    BY <2>1, StreamAssumption, AfterSendTask
  <2>3. out' \in [Client -> Seq(Frame)]
    BY <1>8, <1>14, <2>2 DEF ForwardSend, AbortedSend
  <2>4. QED
    BY <1>1, <1>14, <2>2, <2>3 DEF ServerType, ForwardSend, AbortedSend
<1>15. ASSUME NEW c \in Client, AbortedGone(c) \/ Drop(c) PROVE ServerType'
  <2>1. <<>> \in Seq(Frame)
    OBVIOUS
  <2>2. CASE AbortedGone(c)
    BY <1>1, <1>2, <2>2 DEF ServerType, AbortedGone
  <2>3. CASE Drop(c)
    BY <1>1, <1>2, <2>1, <2>3 DEF ServerType, Drop
  <2>4. QED
    BY <1>15, <2>2, <2>3
<1>16. ASSUME NEW c \in Client, Receive(c) PROVE ServerType'
  <2>1. out' \in [Client -> Seq(Frame)]
    <3>1. out[c] \in Seq(Frame) /\ out[c] # <<>> /\ out' = [out EXCEPT ![c] = Tail(out[c])]
      BY <1>1, <1>16
         DEF ServerType, Receive, ReceiveHello, ReceiveData, ReceiveRedraw, ReceiveClosed, Deliver
    <3>2. Tail(out[c]) \in Seq(Frame)
      BY <3>1, HeadTailProperties
    <3>3. QED
      BY <1>1, <3>1, <3>2 DEF ServerType
  <2>2. UNCHANGED <<pc, req, att, chan, fwd, old>>
    BY <1>16 DEF Receive, ReceiveHello, ReceiveData, ReceiveRedraw, ReceiveClosed
  <2>3. QED
    BY <1>1, <2>1, <2>2 DEF ServerType
<1>17. CASE UNCHANGED serverVars
  BY <1>1, <1>17 DEF ServerType, serverVars
<1>18. CASE ShellNext
  BY <1>17, <1>18 DEF ShellNext, ReadChunk, ReaderEof, ReaderShutdown, ResetStop, ResetTake
<1>19. ASSUME NEW c \in Client, Connect(c) \/ SendClose(c) \/ \E r \in Resumes(c) : SendOpen(c, r)
       PROVE  ServerType'
  BY <1>17, <1>19 DEF Connect, SendClose, SendOpen
<1>20. QED
  BY <1>3, <1>4, <1>5, <1>6, <1>7, <1>10, <1>11, <1>12, <1>13, <1>14, <1>15, <1>16, <1>17, <1>18, <1>19
     DEF Next, MainLoop, Forward, Aborted, ClientNext, vars

\* The clients' state keeps its types.
LEMMA ClientTypeStep ==
  ASSUME IInv, [Next]_vars PROVE ClientType'
<1> DEFINE Up == [t : {"open", "close"}, resume : Resume]
<1>1. TypeOK /\ ShellType /\ ServerType /\ ClientType
  BY DEF IInv, TypeOK
<1>2. ASSUME NEW c \in Client, out[c] # <<>> PROVE Head(out[c]) \in Frame
  BY <1>1, <1>2, HeadTailProperties DEF ServerType
<1>3. ASSUME NEW c \in Client, HandleOpen(c) \/ HandleClose(c) PROVE ClientType'
  <2>1. up[c] \in Seq(Up) /\ up[c] # <<>> /\ up' = [up EXCEPT ![c] = Tail(up[c])]
    BY <1>1, <1>3 DEF ClientType, HandleOpen, HandleClose
  <2>2. Tail(up[c]) \in Seq(Up)
    BY <2>1, HeadTailProperties
  <2>3. UNCHANGED <<conn, phase, dead, me, scr, opens>>
    BY <1>3 DEF HandleOpen, HandleClose, clientVars
  <2>4. QED
    BY <1>1, <2>1, <2>2, <2>3 DEF ClientType
<1>4. ASSUME NEW c \in Client, Connect(c) PROVE ClientType'
  BY <1>1, <1>4 DEF ClientType, Connect, clientVars
<1>5. ASSUME NEW c \in Client, Drop(c) PROVE ClientType'
  <2>1. <<>> \in Seq(Up)
    OBVIOUS
  <2>2. QED
    BY <1>1, <1>5, <2>1 DEF ClientType, Drop, clientVars
<1>6. ASSUME NEW c \in Client, SendClose(c) PROVE ClientType'
  <2>1. [t |-> "close", resume |-> NoResume] \in Up
    BY StreamAssumption DEF NoResume, Resume, NoEpoch, NoOffset
  <2>2. Append(up[c], [t |-> "close", resume |-> NoResume]) \in Seq(Up)
    BY <1>1, <2>1, AppendProperties DEF ClientType
  <2>3. QED
    BY <1>1, <1>6, <2>2 DEF ClientType, SendClose
<1>7. ASSUME NEW c \in Client, NEW r \in Resumes(c), SendOpen(c, r) PROVE ClientType'
  <2>1. r \in Resume
    <3>1. NoResume \in Resume /\ me[c] \in Resume
      BY <1>1, StreamAssumption DEF NoResume, Resume, NoEpoch, NoOffset, ClientType
    <3>2. [e |-> me[c].e, off |-> MaxTotal + 1] \in Resume
      BY <3>1, StreamAssumption DEF Resume
    <3>3. r = NoResume \/ r = me[c] \/ r = [e |-> me[c].e, off |-> MaxTotal + 1]
      BY DEF Resumes
    <3>4. QED
      BY <3>1, <3>2, <3>3
  <2>2. [t |-> "open", resume |-> r] \in Up
    BY <2>1
  <2>3. Append(up[c], [t |-> "open", resume |-> r]) \in Seq(Up)
    BY <1>1, <2>2, AppendProperties DEF ClientType
  <2>4. up' \in [Client -> Seq(Up)]
    BY <1>1, <1>7, <2>3 DEF ClientType, SendOpen
  <2>5. /\ phase' \in [Client -> {"await", "first", "live"}]
        /\ dead' \in [Client -> BOOLEAN] /\ opens' \in [Client -> Nat]
    BY <1>1, <1>7 DEF ClientType, SendOpen
  <2>6. QED
    BY <1>1, <1>7, <2>4, <2>5 DEF ClientType, SendOpen
<1>8. ASSUME NEW c \in Client, ReceiveHello(c) PROVE ClientType'
  <2> DEFINE f == Head(out[c])
             s == IF f.t = "replay" THEN <<>> ELSE scr[c]
  <2>1. f \in Frame /\ s \in Seq(Run)
    BY <1>1, <1>2, <1>8 DEF ReceiveHello, ClientType
  <2>2. Paint(s, f) \in Seq(Run)
    BY <2>1, PaintType
  <2>3. [e |-> f.e, off |-> f.lo] \in Resume
    BY <2>1 DEF Frame, Resume
  <2>4. /\ scr' = [scr EXCEPT ![c] = Paint(s, f)] /\ me' = [me EXCEPT ![c] = [e |-> f.e, off |-> f.lo]]
        /\ phase' = [phase EXCEPT ![c] = "first"] /\ UNCHANGED <<conn, up, dead, opens>>
    BY <1>8 DEF ReceiveHello
  <2> HIDE DEF f, s
  <2>5. QED
    BY <1>1, <2>2, <2>3, <2>4 DEF ClientType
<1>9. ASSUME NEW c \in Client, ReceiveData(c) PROVE ClientType'
  <2> DEFINE f == Head(out[c])
  <2>1. f \in Frame /\ scr[c] \in Seq(Run) /\ me[c] \in Resume
    BY <1>1, <1>2, <1>9 DEF ReceiveData, ClientType
  <2>2. Paint(scr[c], f) \in Seq(Run)
    BY <2>1, PaintType
  <2>3. [me[c] EXCEPT !.off = me[c].off + (f.hi - f.lo)] \in Resume
    BY <2>1 DEF Frame, Resume
  <2>4. UNCHANGED <<conn, up, dead, opens>>
    BY <1>9 DEF ReceiveData
  <2>5. CASE phase[c] = "await"
    BY <1>1, <1>9, <2>4, <2>5 DEF ClientType, ReceiveData
  <2>6. CASE phase[c] # "await"
    <3>1. /\ scr' = [scr EXCEPT ![c] = Paint(scr[c], f)] /\ phase' = [phase EXCEPT ![c] = "live"]
          /\ me' = [me EXCEPT ![c] = [me[c] EXCEPT !.off = me[c].off + (f.hi - f.lo)]]
      BY <1>9, <2>6 DEF ReceiveData
    <3> HIDE DEF f
    <3>2. QED
      BY <1>1, <2>2, <2>3, <2>4, <3>1 DEF ClientType
  <2>7. QED
    BY <2>5, <2>6
<1>10. ASSUME NEW c \in Client, ReceiveRedraw(c) PROVE ClientType'
  <2>1. Head(out[c]) \in Frame /\ scr[c] \in Seq(Run)
    BY <1>1, <1>2, <1>10 DEF ReceiveRedraw, ClientType
  <2>2. Paint(scr[c], Head(out[c])) \in Seq(Run)
    BY <2>1, PaintType
  <2>3. UNCHANGED <<conn, up, dead, opens, phase, me>>
    BY <1>10 DEF ReceiveRedraw
  <2>4. UNCHANGED scr \/ scr' = [scr EXCEPT ![c] = Paint(scr[c], Head(out[c]))]
    BY <1>10 DEF ReceiveRedraw
  <2>5. QED
    BY <1>1, <2>2, <2>3, <2>4 DEF ClientType
<1>11. ASSUME NEW c \in Client, ReceiveClosed(c) PROVE ClientType'
  BY <1>1, <1>11 DEF ClientType, ReceiveClosed
<1>12. CASE UNCHANGED <<clientVars, conn, up>>
  BY <1>1, <1>12 DEF ClientType, clientVars
<1>13. CASE ShellNext
  BY <1>12, <1>13 DEF ShellNext, ReadChunk, ReaderEof, ReaderShutdown, ResetStop, ResetTake
<1>14. ASSUME NEW c \in Client, MainLoop(c) PROVE ClientType'
  BY <1>3, <1>12, <1>14 DEF MainLoop, JoinOld, AttachLive, AttachDead, AttachSpawn, AttachFail,
     AttachCut, AttachWatch, SendHello, SendReplay, SendFailed
<1>15. ASSUME NEW c \in Client, Forward(c) \/ Aborted(c) PROVE ClientType'
  BY <1>12, <1>15 DEF Forward, Aborted, ForwardSend, ForwardArm, AbortedSend, AbortedGone, AbortedArm
<1>16. QED
  BY <1>4, <1>5, <1>6, <1>7, <1>8, <1>9, <1>10, <1>11, <1>12, <1>13, <1>14, <1>15
     DEF Next, ClientNext, Receive, vars

\* attach() holds the slot lock until it has its receivers; only the holder
\* and reset(), which takes the lock, change the slot.
LEMMA LockStep ==
  ASSUME IInv, [Next]_vars PROVE LockInv'
<1>1. TypeOK /\ ShellType /\ ServerType /\ LockInv
  BY DEF IInv, TypeOK
<1>2. ASSUME NEW c \in Client, HandleOpen(c) \/ JoinOld(c) \/ AttachFail(c) \/ AttachWatch(c)
                               \/ SendHello(c) \/ SendReplay(c) \/ SendFailed(c) \/ Drop(c)
      PROVE LockInv'
  <2>1. ~HoldsSlot(c)' /\ \A d \in Client \ {c} : pc'[d] = pc[d] /\ att'[d] = att[d]
    BY <1>1, <1>2 DEF HoldsSlot, ServerType, HandleOpen, AfterAbort, JoinOld, AttachFail, AttachWatch,
       SendHello, SendReplay, SendFailed, Drop
  <2>2. slot' = slot
    BY <1>2 DEF HandleOpen, JoinOld, AttachFail, AttachWatch, SendHello, SendReplay, SendFailed, Drop, shellVars
  <2>3. QED
    BY <1>1, <2>1, <2>2 DEF LockInv, HoldsSlot
<1>3. ASSUME NEW c \in Client, AttachLive(c) \/ AttachDead(c) PROVE LockInv'
  <2>1. \A d \in Client : ~HoldsSlot(d)
    BY <1>3 DEF AttachLive, AttachDead, SlotLocked, HoldsSlot
  <2>2. \A d \in Client \ {c} : pc'[d] = pc[d]
    BY <1>1, <1>3 DEF ServerType, AttachLive, AttachDead
  <2>3. \/ pc'[c] = "cut" /\ slot' \in Epoch
        \/ pc'[c] = "spawn" /\ slot' = NoEpoch
    BY <1>1, <1>3 DEF ServerType, ShellType, AttachLive, AttachDead, SlotAlive, shellVars, NoEpoch, Epoch
  <2>4. QED
    BY <2>1, <2>2, <2>3 DEF LockInv, HoldsSlot
<1>4. ASSUME NEW c \in Client, AttachSpawn(c) \/ AttachCut(c) PROVE LockInv'
  <2>1. HoldsSlot(c) /\ \A d \in Client \ {c} : ~HoldsSlot(d)
    BY <1>1, <1>4 DEF LockInv, HoldsSlot, AttachSpawn, AttachCut
  <2>2. \A d \in Client \ {c} : pc'[d] = pc[d]
    BY <1>1, <1>4 DEF ServerType, AttachSpawn, AttachCut
  <2>3. \/ pc'[c] = "cut" /\ slot' \in Epoch
        \/ pc'[c] = "watch" /\ slot' \in Epoch /\ att'[c].e = slot'
    <3>1. CASE AttachSpawn(c)
      BY <1>1, <3>1, StreamAssumption DEF ServerType, ShellType, AttachSpawn, Epoch
    <3>2. CASE AttachCut(c)
      BY <1>1, <3>2 DEF ServerType, LockInv, AttachCut, shellVars
    <3>3. QED
      BY <1>4, <3>1, <3>2
  <2>4. QED
    BY <2>1, <2>2, <2>3 DEF LockInv, HoldsSlot
<1>5. CASE ResetTake
  <2>1. \A d \in Client : ~HoldsSlot(d)
    BY <1>5 DEF ResetTake, SlotLocked, HoldsSlot
  <2>2. UNCHANGED pc
    BY <1>5 DEF ResetTake, serverVars
  <2>3. QED
    BY <2>1, <2>2 DEF LockInv, HoldsSlot
<1>6. CASE UNCHANGED <<slot, pc, att>>
  BY <1>1, <1>6 DEF LockInv, HoldsSlot
<1>7. CASE ShellNext
  BY <1>5, <1>6, <1>7 DEF ShellNext, ReadChunk, ReaderEof, ReaderShutdown, ResetStop, serverVars
<1>8. ASSUME NEW c \in Client, MainLoop(c) PROVE LockInv'
  BY <1>2, <1>3, <1>4, <1>6, <1>8 DEF MainLoop, HandleClose, shellVars
<1>9. ASSUME NEW c \in Client, Forward(c) \/ Aborted(c) PROVE LockInv'
  BY <1>6, <1>9 DEF Forward, Aborted, ForwardSend, ForwardArm, AbortedSend, AbortedGone, AbortedArm, shellVars
<1>10. ASSUME NEW c \in Client, ClientNext(c) PROVE LockInv'
  BY <1>2, <1>6, <1>10 DEF ClientNext, Connect, SendClose, SendOpen, Receive, ReceiveHello, ReceiveData,
     ReceiveRedraw, ReceiveClosed, shellVars, serverVars
<1>11. CASE UNCHANGED vars
  BY <1>6, <1>11 DEF vars, shellVars, serverVars
<1>12. QED
  BY <1>7, <1>8, <1>9, <1>10, <1>11 DEF Next

\* Receivers only move forward, and never past what was sent.
LEMMA TaskStep ==
  ASSUME IInv, [Next]_vars PROVE TaskInv'
<1> DEFINE AttOK(c) == pc[c] \in {"watch", "hello", "replay"} =>
                         /\ att[c].t # "none" /\ att[c].e \in Epoch
                         /\ att[c].rx \in 1..(sent[att[c].e] + 1)
<1>1. TypeOK /\ ShellType /\ ServerType /\ TaskInv /\ LockInv /\ RingInv
  BY DEF IInv, TypeOK
<1>2. ~(NoTask.st # "none")
  BY DEF NoTask
<1>3. ASSUME NEW e \in Epoch, NEW n \in 1..MaxChunk, ReadChunk(e, n) PROVE TaskInv'
  <2>1. \A d \in Epoch : sent[d] \in Nat /\ sent'[d] \in Nat /\ sent'[d] >= sent[d]
    <3>1. sent \in [Epoch -> Nat] /\ sent' = [sent EXCEPT ![e] = sent[e] + 1]
      BY <1>1, <1>3 DEF ShellType, ReadChunk
    <3>2. QED
      BY <3>1
  <2>2. \A d \in Epoch : \A x \in 1..(sent[d] + 1) : x \in 1..(sent'[d] + 1)
    BY <2>1
  <2>3. UNCHANGED <<fwd, old, att, pc>>
    BY <1>3 DEF ReadChunk, serverVars
  <2>4. QED
    BY <1>1, <2>2, <2>3 DEF TaskInv, TaskOK
<1>4. ASSUME NEW c \in Client, HandleOpen(c) \/ HandleClose(c) PROVE TaskInv'
  <2>1. UNCHANGED <<sent, att>> /\ RemoveChannel(c)
    BY <1>4 DEF HandleOpen, HandleClose, shellVars
  <2>2. \A d \in Client : /\ fwd'[d] = fwd[d] \/ fwd'[d] = NoTask
                          /\ old'[d] = old[d] \/ old'[d] = fwd[d]
    BY <1>1, <2>1 DEF RemoveChannel, ServerType
  <2>3. \A d \in Client : pc'[d] = pc[d] \/ pc'[d] \in {"join", "attach"}
    BY <1>1, <1>4 DEF HandleOpen, HandleClose, AfterAbort, ServerType
  <2>4. QED
    BY <1>1, <1>2, <2>1, <2>2, <2>3 DEF TaskInv, TaskOK
<1>5. ASSUME NEW c \in Client, JoinOld(c) \/ AttachLive(c) \/ AttachDead(c) \/ AttachSpawn(c) \/ AttachFail(c)
                                \/ SendHello(c) \/ SendFailed(c)
      PROVE TaskInv'
  <2>1. UNCHANGED <<sent, att, fwd, old>>
    BY <1>5 DEF JoinOld, AttachLive, AttachDead, AttachSpawn, AttachFail, SendHello, SendFailed, shellVars
  <2>2. \A d \in Client : pc'[d] \in {"watch", "hello", "replay"} => pc[d] \in {"watch", "hello", "replay"}
    BY <1>1, <1>5 DEF ServerType, JoinOld, AttachLive, AttachDead, AttachSpawn, AttachFail, SendHello, SendFailed
  <2>3. QED
    BY <1>1, <2>1, <2>2 DEF TaskInv, TaskOK
<1>6. ASSUME NEW c \in Client, AttachCut(c) PROVE TaskInv'
  <2> DEFINE o == IF req[c].e = slot THEN req[c].off ELSE NoOffset
             k == Cut(sb[slot], o)
  <2>1. slot \in Epoch /\ sent[slot] \in Nat
    BY <1>1, <1>6 DEF AttachCut, LockInv, ShellType
  <2>2. k.t # "none"
    BY DEF Cut
  <2>3. att' = [att EXCEPT ![c] = [t |-> k.t, e |-> slot, base |-> k.base, lo |-> k.lo,
                                   hi |-> k.hi, rx |-> Subscribe(slot), seen |-> 0]]
    BY <1>6 DEF AttachCut
  <2> HIDE DEF k
  <2>4. /\ att'[c].t # "none" /\ att'[c].e \in Epoch
        /\ att'[c].rx \in 1..(sent[att'[c].e] + 1)
    BY <1>1, <2>1, <2>2, <2>3 DEF ServerType, Subscribe
  <2>5. \A d \in Client \ {c} : att'[d] = att[d] /\ pc'[d] = pc[d]
    BY <1>1, <1>6, <2>3 DEF ServerType, AttachCut
  <2>6. UNCHANGED <<sent, fwd, old>>
    BY <1>6 DEF AttachCut, shellVars
  <2>7. QED
    BY <1>1, <2>4, <2>5, <2>6 DEF TaskInv, TaskOK
<1>7. ASSUME NEW c \in Client, AttachWatch(c) PROVE TaskInv'
  <2>1. \A d \in Client : att'[d].t = att[d].t /\ att'[d].e = att[d].e /\ att'[d].rx = att[d].rx
    BY <1>1, <1>7 DEF ServerType, Attach, AttachWatch
  <2>2. \A d \in Client : pc'[d] \in {"watch", "hello", "replay"} => pc[d] \in {"watch", "hello", "replay"}
    BY <1>1, <1>7 DEF ServerType, AttachWatch
  <2>3. UNCHANGED <<sent, fwd, old>>
    BY <1>7 DEF AttachWatch, shellVars
  <2>4. QED
    BY <1>1, <2>1, <2>2, <2>3 DEF TaskInv, TaskOK
<1>8. ASSUME NEW c \in Client, SendReplay(c) PROVE TaskInv'
  <2>1. fwd'[c].e = att[c].e /\ fwd'[c].rx = att[c].rx /\ pc[c] = "replay" /\ pc'[c] = "idle"
    BY <1>1, <1>8 DEF ServerType, SendReplay
  <2>2. \A d \in Client \ {c} : att'[d] = att[d] /\ pc'[d] = pc[d] /\ fwd'[d] = fwd[d]
    BY <1>1, <1>8 DEF ServerType, SendReplay
  <2>3. UNCHANGED <<sent, old>>
    BY <1>8 DEF SendReplay, shellVars
  <2>4. QED
    BY <1>1, <2>1, <2>2, <2>3 DEF TaskInv, TaskOK
<1>9. ASSUME NEW c \in Client, fwd[c] \in Task, old[c] \in Task, UNCHANGED <<sent, att, pc>>,
             \/ TaskOK(fwd'[c]) /\ UNCHANGED old
             \/ TaskOK(old'[c]) /\ UNCHANGED fwd,
             \A d \in Client \ {c} : fwd'[d] = fwd[d] /\ old'[d] = old[d]
      PROVE  TaskInv'
  BY <1>1, <1>9 DEF TaskInv, TaskOK
<1>10. ASSUME NEW c \in Client, NEW a \in Arm, ForwardArm(c, a) \/ AbortedArm(c, a) PROVE TaskInv'
  <2>1. fwd[c] \in Task /\ TaskOK(fwd[c]) /\ old[c] \in Task /\ TaskOK(old[c])
    BY <1>1 DEF ServerType, TaskInv
  <2>2. /\ Ready(fwd[c], a) => TaskOK(Take(fwd[c], a))
        /\ Ready(old[c], a) => TaskOK(Take(old[c], a))
    BY <1>1, <2>1, TakeTask
  <2>3. QED
    BY <1>1, <1>9, <1>10, <2>1, <2>2 DEF ServerType, ForwardArm, AbortedArm, shellVars
<1>11. ASSUME NEW c \in Client, ForwardSend(c) \/ AbortedSend(c) PROVE TaskInv'
  <2>1. fwd[c] \in Task /\ TaskOK(fwd[c]) /\ old[c] \in Task /\ TaskOK(old[c])
    BY <1>1 DEF ServerType, TaskInv
  <2>2. /\ fwd[c].hand # <<>> => TaskOK(AfterSend(fwd[c]))
        /\ old[c].hand # <<>> => TaskOK(AfterSend(old[c]))
    BY <2>1, StreamAssumption, AfterSendTask
  <2>3. CASE ForwardSend(c)
    <3>1. fwd' = [fwd EXCEPT ![c] = AfterSend(fwd[c])] /\ fwd[c].hand # <<>> /\ UNCHANGED <<sent, att, pc, old>>
      BY <2>3 DEF ForwardSend, shellVars
    <3>2. fwd'[c] = AfterSend(fwd[c]) /\ \A d \in Client \ {c} : fwd'[d] = fwd[d] /\ old'[d] = old[d]
      BY <1>1, <3>1 DEF ServerType
    <3>3. QED
      BY <1>9, <2>1, <2>2, <3>1, <3>2
  <2>4. CASE AbortedSend(c)
    <3>1. old' = [old EXCEPT ![c] = AfterSend(old[c])] /\ old[c].hand # <<>> /\ UNCHANGED <<sent, att, pc, fwd>>
      BY <2>4 DEF AbortedSend, shellVars
    <3>2. old'[c] = AfterSend(old[c]) /\ \A d \in Client \ {c} : fwd'[d] = fwd[d] /\ old'[d] = old[d]
      BY <1>1, <3>1 DEF ServerType
    <3>3. QED
      BY <1>9, <2>1, <2>2, <3>1, <3>2
  <2>5. QED
    BY <1>11, <2>3, <2>4
<1>12. ASSUME NEW c \in Client, AbortedGone(c) \/ Drop(c) PROVE TaskInv'
  <2>1. \A d \in Client : /\ fwd'[d] = fwd[d] \/ fwd'[d] = NoTask
                          /\ old'[d] = old[d] \/ old'[d] = NoTask
                          /\ pc'[d] = "idle" \/ (pc'[d] = pc[d] /\ att'[d] = att[d])
    BY <1>1, <1>12 DEF ServerType, AbortedGone, Drop
  <2>2. UNCHANGED sent
    BY <1>12 DEF AbortedGone, Drop, shellVars
  <2>3. QED
    BY <1>1, <1>2, <2>1, <2>2 DEF TaskInv, TaskOK
<1>13. CASE UNCHANGED <<sent, att, pc, fwd, old>>
  BY <1>1, <1>13 DEF TaskInv, TaskOK
<1>14. CASE ShellNext
  BY <1>3, <1>13, <1>14 DEF ShellNext, ReaderEof, ReaderShutdown, ResetStop, ResetTake, serverVars
<1>15. ASSUME NEW c \in Client, MainLoop(c) PROVE TaskInv'
  BY <1>4, <1>5, <1>6, <1>7, <1>8, <1>15 DEF MainLoop
<1>16. ASSUME NEW c \in Client, Forward(c) \/ Aborted(c) PROVE TaskInv'
  BY <1>10, <1>11, <1>12, <1>16 DEF Forward, Aborted
<1>17. ASSUME NEW c \in Client, ClientNext(c) PROVE TaskInv'
  BY <1>12, <1>13, <1>17 DEF ClientNext, Connect, SendClose, SendOpen, Receive, ReceiveHello, ReceiveData,
     ReceiveRedraw, ReceiveClosed, shellVars, serverVars
<1>18. CASE UNCHANGED vars
  BY <1>13, <1>18 DEF vars, shellVars, serverVars
<1>19. QED
  BY <1>14, <1>15, <1>16, <1>17, <1>18 DEF Next

\* A task that survives an arm or a send keeps its shell, and still runs only
\* if it did.
LEMMA TaskKeepsShell ==
  ASSUME IInv, NEW c \in Client, Forward(c)
  PROVE  fwd'[c].st = "run" => fwd[c].st = "run" /\ fwd'[c].e = fwd[c].e
<1>1. TypeOK /\ fwd \in [Client -> Task] /\ fwd[c] \in Task /\ TaskOK(fwd[c])
  BY DEF IInv, TypeOK, ServerType, TaskInv
<1>2. CASE ForwardSend(c)
  <2>1. fwd'[c] = AfterSend(fwd[c]) /\ fwd[c].hand # <<>>
    BY <1>1, <1>2 DEF ForwardSend
  <2>2. QED
    BY <1>1, <2>1, StreamAssumption, AfterSendTask
<1>3. ASSUME NEW a \in Arm, ForwardArm(c, a)
      PROVE  fwd'[c].st = "run" => fwd[c].st = "run" /\ fwd'[c].e = fwd[c].e
  <2>1. fwd'[c] = Take(fwd[c], a) /\ Ready(fwd[c], a) /\ fwd[c].st = "run"
    BY <1>1, <1>3 DEF ForwardArm, Ready
  <2>2. QED
    BY <1>1, <2>1, TakeTask
<1>4. QED
  BY <1>2, <1>3 DEF Forward

\* The last sender of a shell's watch goes away only after shutdown was sent
\* to every receiver there was, and no receiver is created without a sender.
LEMMA SpinStep ==
  ASSUME IInv, [Next]_vars PROVE SpinInv'
<1> DEFINE Told(e) == ~HasSender(e) => shut[e].val
           Waits(c) == pc[c] \in {"hello", "replay"}
<1>1. TypeOK /\ ShellType /\ ServerType /\ LockInv /\ TaskInv /\ SpinInv
  BY DEF IInv, TypeOK
<1>2. /\ \A c \in Client : fwd[c].st = "run" => fwd[c].e \in Epoch /\ Told(fwd[c].e)
      /\ \A c \in Client : Waits(c) => att[c].e \in Epoch /\ Told(att[c].e)
  BY <1>1 DEF SpinInv, NoSpin, TaskInv, TaskOK
<1>3. ASSUME NEW e \in Epoch, SendShutdown(e), UNCHANGED <<fwd, att>>,
             \A c \in Client : Waits(c)' => Waits(c),
             \A d \in Epoch \ {e} : HasSender(d) => HasSender(d)'
      PROVE  SpinInv'
  <2>1. /\ \A c \in Client : fwd[c].st = "run" /\ fwd[c].e = e => Receivers(e) # {}
        /\ \A c \in Client : Waits(c) /\ att[c].e = e => Receivers(e) # {}
    BY DEF Receivers
  <2>2. (Receivers(e) # {} => shut'[e].val) /\ \A d \in Epoch : shut[d].val => shut'[d].val
    BY <1>1, <1>3, ShutdownType
  <2>3. \A d \in Epoch : Told(d) /\ (d = e => Receivers(e) # {}) => Told(d)'
    BY <1>3, <2>2
  <2>4. /\ \A c \in Client : fwd[c].st = "run" => Told(fwd[c].e)'
        /\ \A c \in Client : Waits(c) => Told(att[c].e)'
    BY <1>2, <1>3, <2>1, <2>3
  <2>5. QED
    BY <1>3, <2>4 DEF SpinInv, NoSpin
<1>4. ASSUME NEW e \in Epoch, ReaderShutdown(e) \/ ResetStop(e) PROVE SpinInv'
  <2>1. \A d \in Epoch \ {e} : HasSender(d) => HasSender(d)'
    BY <1>1, <1>4 DEF ShellType, HasSender, ReaderShutdown, ResetStop
  <2>2. SendShutdown(e) /\ UNCHANGED <<fwd, att, pc>>
    BY <1>4 DEF ReaderShutdown, ResetStop, serverVars
  <2>3. QED
    BY <1>3, <2>1, <2>2
<1>5. ASSUME \A d \in Epoch : (HasSender(d) => HasSender(d)') /\ shut'[d] = shut[d],
             \A c \in Client : fwd'[c].st = "run" =>
                \/ fwd[c].st = "run" /\ fwd'[c].e = fwd[c].e
                \/ Waits(c) /\ fwd'[c].e = att[c].e,
             \A c \in Client : Waits(c)' =>
                \/ Waits(c) /\ att'[c].e = att[c].e
                \/ att'[c].e = slot' /\ slot' \in Epoch
      PROVE  SpinInv'
  <2>1. \A d \in Epoch : Told(d) => Told(d)'
    BY <1>5
  <2>2. \A c \in Client : fwd'[c].st = "run" => \E d \in Epoch : fwd'[c].e = d /\ Told(d)'
    BY <1>2, <1>5, <2>1
  <2>3. \A d \in Epoch : slot' = d => Told(d)'
    BY DEF HasSender
  <2>4. \A c \in Client : Waits(c)' => \E d \in Epoch : att'[c].e = d /\ Told(d)'
    BY <1>2, <1>5, <2>1, <2>3
  <2>5. QED
    BY <2>2, <2>4 DEF SpinInv, NoSpin, HasSender
<1>6. ASSUME NEW c \in Client, AttachDead(c) PROVE SpinInv'
  <2>1. CASE slot = NoEpoch
    BY <1>1, <1>2, <1>5, <1>6, <2>1 DEF AttachDead, HasSender, ServerType, Epoch, NoEpoch
  <2>2. CASE slot # NoEpoch
    <3>1. slot \in Epoch /\ SendShutdown(slot) /\ UNCHANGED <<fwd, att>>
      BY <1>1, <1>6, <2>2 DEF AttachDead, ShellType, Epoch, NoEpoch
    <3>2. \A d \in Client : Waits(d)' => Waits(d)
      BY <1>1, <1>6 DEF AttachDead, ServerType
    <3>3. \A d \in Epoch \ {slot} : HasSender(d) => HasSender(d)'
      BY <1>6 DEF AttachDead, HasSender
    <3>4. QED
      BY <1>3, <3>1, <3>2, <3>3
  <2>3. QED
    BY <2>1, <2>2
<1>7. ASSUME UNCHANGED <<slot, stopping, reader, shut>>,
             \A c \in Client : fwd'[c].st = "run" =>
                \/ fwd[c].st = "run" /\ fwd'[c].e = fwd[c].e
                \/ Waits(c) /\ fwd'[c].e = att[c].e,
             \A c \in Client : Waits(c)' =>
                \/ Waits(c) /\ att'[c].e = att[c].e
                \/ att'[c].e = slot' /\ slot' \in Epoch
      PROVE  SpinInv'
  BY <1>5, <1>7 DEF HasSender
<1>8. ASSUME UNCHANGED <<fwd, att, pc, shut>>,
             \A d \in Epoch : HasSender(d) => HasSender(d)'
      PROVE  SpinInv'
  BY <1>5, <1>8
<1>9. ASSUME NEW c \in Client, AttachSpawn(c) PROVE SpinInv'
  <2>1. \A d \in Epoch : HasSender(d) => HasSender(d)'
    BY <1>1, <1>9 DEF AttachSpawn, HasSender, LockInv, ShellType, Epoch, NoEpoch
  <2>2. UNCHANGED <<fwd, att, shut>> /\ \A d \in Client : Waits(d)' => Waits(d)
    BY <1>1, <1>9 DEF AttachSpawn, ServerType
  <2>3. QED
    BY <1>5, <2>1, <2>2
<1>10. ASSUME NEW c \in Client, HandleOpen(c) \/ HandleClose(c) \/ AbortedGone(c) \/ Drop(c) PROVE SpinInv'
  <2>1. \A d \in Client : fwd'[d] = fwd[d] \/ fwd'[d].st = "none"
    BY <1>1, <1>10 DEF ServerType, HandleOpen, HandleClose, RemoveChannel, AbortedGone, Drop, NoTask
  <2>2. \A d \in Client : Waits(d)' => Waits(d) /\ att'[d] = att[d]
    BY <1>1, <1>10 DEF ServerType, HandleOpen, AfterAbort, HandleClose, AbortedGone, Drop
  <2>3. UNCHANGED <<slot, stopping, reader, shut>>
    BY <1>10 DEF HandleOpen, HandleClose, AbortedGone, Drop, shellVars
  <2>4. QED
    BY <1>7, <2>1, <2>2, <2>3
<1>11. ASSUME NEW c \in Client, JoinOld(c) \/ AttachLive(c) \/ AttachFail(c) \/ SendHello(c) \/ SendFailed(c)
       PROVE  SpinInv'
  <2>1. UNCHANGED <<slot, stopping, reader, shut, fwd, att>>
    BY <1>11 DEF JoinOld, AttachLive, AttachFail, SendHello, SendFailed, shellVars
  <2>2. \A d \in Client : Waits(d)' => Waits(d)
    BY <1>1, <1>11 DEF ServerType, JoinOld, AttachLive, AttachFail, SendHello, SendFailed
  <2>3. QED
    BY <1>7, <2>1, <2>2
<1>12. ASSUME NEW c \in Client, AttachCut(c) \/ AttachWatch(c) PROVE SpinInv'
  <2>1. UNCHANGED <<slot, stopping, reader, shut, fwd>>
    BY <1>12 DEF AttachCut, AttachWatch, shellVars
  <2>2. \A d \in Client \ {c} : pc'[d] = pc[d] /\ att'[d] = att[d]
    BY <1>1, <1>12 DEF ServerType, AttachCut, AttachWatch
  <2>3. Waits(c)' => att'[c].e = slot' /\ slot' \in Epoch
    <3>1. CASE AttachCut(c)
      BY <1>1, <3>1 DEF ServerType, AttachCut
    <3>2. CASE AttachWatch(c)
      <4>1. att'[c].e = att[c].e
        BY <1>1, <3>2 DEF ServerType, Attach, AttachWatch
      <4>2. QED
        BY <1>1, <2>1, <3>2, <4>1 DEF AttachWatch, LockInv
    <3>3. QED
      BY <1>12, <3>1, <3>2
  <2>4. QED
    BY <1>7, <2>1, <2>2, <2>3
<1>13. ASSUME NEW c \in Client, SendReplay(c) PROVE SpinInv'
  <2>1. UNCHANGED <<slot, stopping, reader, shut>> /\ Waits(c)
    BY <1>13 DEF SendReplay, shellVars
  <2>2. fwd'[c].e = att[c].e /\ ~Waits(c)'
    BY <1>1, <1>13 DEF ServerType, SendReplay
  <2>3. \A d \in Client \ {c} : pc'[d] = pc[d] /\ att'[d] = att[d] /\ fwd'[d] = fwd[d]
    BY <1>1, <1>13 DEF ServerType, SendReplay
  <2>4. QED
    BY <1>7, <2>1, <2>2, <2>3
<1>14. ASSUME NEW c \in Client, Forward(c) PROVE SpinInv'
  <2>1. fwd'[c].st = "run" => fwd[c].st = "run" /\ fwd'[c].e = fwd[c].e
    BY <1>14, TaskKeepsShell
  <2>2. \A d \in Client \ {c} : fwd'[d] = fwd[d]
    BY <1>1, <1>14 DEF ServerType, Forward, ForwardSend, ForwardArm
  <2>3. UNCHANGED <<slot, stopping, reader, shut, pc, att>>
    BY <1>14 DEF Forward, ForwardSend, ForwardArm, shellVars
  <2>4. QED
    BY <1>7, <2>1, <2>2, <2>3
<1>15. ASSUME UNCHANGED <<slot, stopping, reader, shut, fwd, att, pc>> PROVE SpinInv'
  BY <1>7, <1>15
<1>16. CASE ShellNext
  <2>1. ASSUME NEW e \in Epoch, NEW n \in 1..MaxChunk, ReadChunk(e, n) PROVE SpinInv'
    BY <1>15, <2>1 DEF ReadChunk, serverVars
  <2>2. ASSUME NEW e \in Epoch, ReaderEof(e) PROVE SpinInv'
    <3>1. \A d \in Epoch : HasSender(d) => HasSender(d)'
      BY <1>1, <2>2 DEF ShellType, ReaderEof, HasSender
    <3>2. QED
      BY <1>8, <2>2, <3>1 DEF ReaderEof, serverVars
  <2>3. CASE ResetTake
    <3>1. \A d \in Epoch : HasSender(d) => HasSender(d)'
      BY <1>1, <2>3 DEF ShellType, ResetTake, HasSender
    <3>2. QED
      BY <1>8, <2>3, <3>1 DEF ResetTake, serverVars
  <2>4. QED
    BY <1>4, <1>16, <2>1, <2>2, <2>3 DEF ShellNext
<1>17. ASSUME NEW c \in Client, Aborted(c) PROVE SpinInv'
  BY <1>15, <1>17 DEF Aborted, AbortedSend, AbortedGone, AbortedArm, shellVars
<1>18. ASSUME NEW c \in Client, ClientNext(c) PROVE SpinInv'
  BY <1>10, <1>15, <1>18 DEF ClientNext, Connect, SendClose, SendOpen, Receive, ReceiveHello, ReceiveData,
     ReceiveRedraw, ReceiveClosed, shellVars, serverVars
<1>19. ASSUME NEW c \in Client, MainLoop(c) PROVE SpinInv'
  BY <1>6, <1>9, <1>10, <1>11, <1>12, <1>13, <1>19 DEF MainLoop
<1>20. CASE UNCHANGED vars
  BY <1>15, <1>20 DEF vars, shellVars, serverVars
<1>21. QED
  BY <1>14, <1>16, <1>17, <1>18, <1>19, <1>20 DEF Next

\* The inductive invariant holds of an idle server.
LEMMA IInvInit == Init => IInv
<1> SUFFICES ASSUME Init PROVE IInv
  OBVIOUS
<1>1. ShellType
  BY StreamAssumption DEF Init, ShellType, Epoch, NoEpoch
<1>2. ServerType
  BY StreamAssumption DEF Init, ServerType, NoTask, NoAttach, NoResume, Task, Attach, Resume, NoEpoch, NoOffset
<1>3. ClientType
  BY StreamAssumption DEF Init, ClientType, Resume, NoEpoch
<1>4. RingInv
  BY RingInit
<1>5. LockInv /\ TaskInv /\ SpinInv
  BY DEF Init, LockInv, HoldsSlot, TaskInv, TaskOK, NoTask, SpinInv, NoSpin
<1>6. QED
  BY <1>1, <1>2, <1>3, <1>4, <1>5 DEF IInv, TypeOK

\* Every step of the shells, the tasks and the clients keeps the inductive invariant.
LEMMA IInvStep == IInv /\ [Next]_vars => IInv'
<1> SUFFICES ASSUME IInv, [Next]_vars PROVE IInv'
  OBVIOUS
<1>1. RingInv'
  BY RingStep DEF IInv
<1>2. TypeOK'
  BY ShellTypeStep, ServerTypeStep, ClientTypeStep DEF TypeOK
<1>3. LockInv' /\ TaskInv' /\ SpinInv'
  BY LockStep, TaskStep, SpinStep
<1>4. QED
  BY <1>1, <1>2, <1>3 DEF IInv

\* The inductive invariant holds throughout.
LEMMA Inductive == Spec => []IInv
BY IInvInit, IInvStep, PTL DEF Spec

\* Every variable keeps its type; in particular no receiver ever indexes the
\* broadcast ring outside what it retains, and no offset a client sends makes
\* Scrollback::cut compute a position outside the ring.
THEOREM TypeCorrect == Spec => []TypeOK
<1>1. IInv => TypeOK
  BY DEF IInv
<1>2. QED
  BY <1>1, Inductive, PTL

\* A live shell leaves its slot only through reset(), whatever the clients of
\* the slot do (Terminals::attach and reset, under the slot mutex).
THEOREM ShellKeptHolds == Spec => ShellKept
<1>1. IInv /\ [Next]_vars =>
        [slot # NoEpoch /\ slot' # slot => reader[slot] # "run" \/ slot \in stopping']_vars
  <2> SUFFICES ASSUME IInv, [Next]_vars, slot # NoEpoch, slot' # slot
               PROVE  reader[slot] # "run" \/ slot \in stopping'
    OBVIOUS
  <2>1. CASE ShellNext
    BY <2>1 DEF ShellNext, ReadChunk, ReaderEof, ReaderShutdown, ResetStop, ResetTake
  <2>2. ASSUME NEW c \in Client, AttachDead(c) PROVE reader[slot] # "run"
    BY <2>2 DEF AttachDead, SlotAlive
  <2>3. ASSUME NEW c \in Client, AttachSpawn(c) PROVE FALSE
    BY <2>3 DEF AttachSpawn, IInv, LockInv
  <2>4. ASSUME NEW c \in Client, MainLoop(c) PROVE reader[slot] # "run"
    BY <2>2, <2>3, <2>4 DEF MainLoop, HandleOpen, JoinOld, HandleClose, AttachLive, AttachFail,
       AttachCut, AttachWatch, SendHello, SendReplay, SendFailed, shellVars
  <2>5. ASSUME NEW c \in Client, Forward(c) \/ Aborted(c) \/ ClientNext(c) PROVE FALSE
    BY <2>5 DEF Forward, Aborted, ForwardSend, ForwardArm, AbortedSend, AbortedGone, AbortedArm,
       ClientNext, Connect, Drop, SendClose, SendOpen, Receive, ReceiveHello, ReceiveData,
       ReceiveRedraw, ReceiveClosed, shellVars
  <2>6. CASE UNCHANGED vars
    BY <2>6 DEF vars, shellVars
  <2>7. QED
    BY <2>1, <2>4, <2>5, <2>6 DEF Next
<1>2. QED
  BY <1>1, Inductive, PTL DEF Spec, ShellKept

\* No forward task spins on a watch whose senders are gone: whoever drops the
\* last sender (reset(), a respawning attach(), the reader thread) sent the
\* shutdown value while the task's receiver was registered.
THEOREM NoSpinHolds == Spec => []NoSpin
<1>1. IInv => NoSpin
  BY DEF IInv, SpinInv
<1>2. QED
  BY <1>1, Inductive, PTL
============================================================================
