--------------------------- MODULE ShellViewProofs ---------------------------
(***************************************************************************)
(* Proofs that ShellStream keeps the promise of TerminalView, for every    *)
(* number of clients and every capacity and bound, where clients do not    *)
(* send the mux "close" frame (no bundled page does): a screen is one      *)
(* unbroken run, its offset is honest, and every step of the machinery is  *)
(* a step of the abstract view or none.                                    *)
(*                                                                         *)
(* The argument follows the bytes.  What a client has on its screen, what  *)
(* is queued for it, what its task has in hand and where the task's        *)
(* receiver stands in the broadcast form one chain, in which each frame    *)
(* begins where the one before it ended.                                   *)
(***************************************************************************)
EXTENDS ShellStreamProofs

\* Frames with bytes, or at a position, of the stream they continue.
Continues(f) == f.t \in {"data", "redraw"}

\* f may come right after g.  A client that awaits a hello drops what comes
\* before it, so there anything may.
Anything == [t |-> "any", e |-> NoEpoch, lo |-> 0, hi |-> 0]
Link(g, f) ==
  Continues(f) => \/ g.t = "any"
                  \/ g.t \in {"resume", "replay", "data", "redraw"} /\ g.e = f.e /\ g.hi = f.lo

\* The frame before which a frame would follow s, when x came before s.
LastOf(x, s) == IF s = <<>> THEN x ELSE s[Len(s)]
Chain(x, s) == \A i \in 1..Len(s) : Link(IF i = 1 THEN x ELSE s[i - 1], s[i])

\* Whatever may follow x may follow y.
Covers(x, y) == \A f \in Frame : Link(x, f) => Link(y, f)

\* The screen, as the last frame painted on it.
Eye(c) ==
  IF phase[c] = "await" THEN Anything
  ELSE IF Len(scr[c]) = 1 THEN Data(scr[c][1].e, scr[c][1].lo, scr[c][1].hi)
  ELSE Closed("error", NoEpoch)
Tip(c) == LastOf(Eye(c), out[c])

\* Where in the output of shell e the k-th chunk begins; past the last, its end.
Start(e, k) == IF k > sent[e] THEN sb[e].total ELSE ChunkAt(e, k).lo
Mark(e, p) == Data(e, p, p)

\* A frame's bytes were written by its shell.
Written(f) ==
  ~IsClosed(f) => /\ f.e \in Epoch /\ f.lo <= f.hi /\ f.hi <= sb[f.e].total
                  /\ f.t # "data" => f.lo = f.hi

----------------------------------------------------------------------------
(* The inductive invariant. *)

\* The broadcast ring holds adjacent stretches of its shell's output.
ChunkInv ==
  \A e \in Epoch :
    /\ Len(chunks[e]) <= sent[e] /\ sb[e].total <= MaxTotal
    /\ \A i \in 1..Len(chunks[e]) :
         /\ chunks[e][i].t = "data" /\ chunks[e][i].e = e
         /\ Written(chunks[e][i])
         /\ i < Len(chunks[e]) => chunks[e][i].hi = chunks[e][i + 1].lo

\* A task goes on where x, the last frame before it, ends; a receiver that
\* lags does not go on at all.
TaskView(x, t) ==
  /\ Chain(x, t.hand)
  /\ \A i \in 1..Len(t.hand) : ~IsHello(t.hand[i]) /\ Written(t.hand[i])
  /\ t.st = "none" => t.hand = <<>>
  /\ t.st = "end" => Len(t.hand) = 1 /\ IsClosed(t.hand[1])
  /\ t.st = "run" /\ t.rx >= Oldest(t.e) => Link(LastOf(x, t.hand), Mark(t.e, Start(t.e, t.rx)))

\* What is under way to a client continues what it shows.
StreamInv(c) ==
  /\ old[c].st # "none" => pc[c] = "join"
  /\ fwd[c].st # "none" => pc[c] = "idle"
  /\ Chain(Eye(c), out[c])
  /\ \A i \in 1..Len(out[c]) : Written(out[c][i])
  /\ TaskView(Tip(c), fwd[c]) /\ TaskView(Tip(c), old[c])

\* So will what attach() has cut.
AttachInv(c) ==
  /\ pc[c] \in {"watch", "hello", "replay"} =>
       /\ att[c].base = att[c].lo
       /\ Written(Data(att[c].e, att[c].lo, att[c].hi))
       /\ att[c].rx >= Oldest(att[c].e) => Start(att[c].e, att[c].rx) = att[c].hi
  /\ pc[c] = "replay" => Link(Tip(c), Mark(att[c].e, att[c].lo))

Shows(c, e, p) == Len(scr[c]) = 1 /\ scr[c][1].e = e /\ scr[c][1].hi = p
NoHello(c) == \A i \in 1..Len(out[c]) : ~IsHello(out[c][i])

\* An offset no shell reaches resumes nothing.
Honest(c, r) == r.off <= MaxTotal => Shows(c, r.e, r.off)

\* While a client waits for an answer to a resume, no other answer is under
\* way, and the screen stands where the resume said.
Frozen(c) == phase[c] = "await" /\ NoHello(c)

ResumeInv(c) ==
  /\ \A i \in 1..Len(up[c]) :
       /\ up[c][i].t = "open"
       /\ up[c][i].resume # NoResume => i = 1 /\ pc[c] = "idle" /\ Frozen(c) /\ Honest(c, up[c][i].resume)
  /\ req[c] # NoResume => pc[c] \in {"join", "attach", "spawn", "cut"} /\ Frozen(c) /\ Honest(c, req[c])
  /\ pc[c] \in {"watch", "hello"} /\ att[c].t = "resume" => Frozen(c) /\ Shows(c, att[c].e, att[c].base)
  /\ \A i \in 1..Len(out[c]) : out[c][i].t = "resume" =>
       /\ phase[c] = "await" /\ Shows(c, out[c][i].e, out[c][i].lo)
       /\ \A j \in 1..(i - 1) : ~IsHello(out[c][j])

\* The screen is one run of bytes that were written, and the offset is its end.
ScreenInv(c) ==
  /\ Len(scr[c]) <= 1
  /\ Len(scr[c]) = 1 => /\ Written(Data(scr[c][1].e, scr[c][1].lo, scr[c][1].hi))
                        /\ me[c].e = scr[c][1].e /\ me[c].off = scr[c][1].hi
  /\ me[c].e # NoEpoch => Len(scr[c]) = 1

ClientView(c) == StreamInv(c) /\ AttachInv(c) /\ ResumeInv(c) /\ ScreenInv(c)
ViewInv == IInv /\ ChunkInv /\ \A c \in Client : ClientView(c)

----------------------------------------------------------------------------
(* Chains. *)

\* A frame that may follow the last one may be queued.
LEMMA ChainAppend ==
  ASSUME NEW s \in Seq(Frame), NEW f \in Frame, NEW x, Chain(x, s), Link(LastOf(x, s), f)
  PROVE  Chain(x, Append(s, f)) /\ LastOf(x, Append(s, f)) = f
<1>1. /\ Append(s, f) \in Seq(Frame) /\ Append(s, f) # <<>>
      /\ Len(Append(s, f)) = Len(s) + 1 /\ Len(s) \in Nat
      /\ \A i \in 1..Len(s) : Append(s, f)[i] = s[i]
      /\ Append(s, f)[Len(s) + 1] = f
  BY AppendProperties
<1> DEFINE b == Append(s, f)
<1> HIDE DEF b
<1>2. ASSUME NEW i \in 1..Len(b) PROVE Link(IF i = 1 THEN x ELSE b[i - 1], b[i])
  <2>1. CASE i <= Len(s)
    <3>1. i \in 1..Len(s) /\ (i # 1 => i - 1 \in 1..Len(s))
      BY <1>1, <2>1 DEF b
    <3>2. b[i] = s[i] /\ (i # 1 => b[i - 1] = s[i - 1])
      BY <1>1, <3>1 DEF b
    <3>3. QED
      BY <3>1, <3>2 DEF Chain
  <2>2. CASE i = Len(s) + 1 /\ Len(s) = 0
    <3>1. s = <<>>
      BY <2>2, EmptySeq
    <3>2. QED
      BY <1>1, <2>2, <3>1 DEF LastOf, b
  <2>3. CASE i = Len(s) + 1 /\ Len(s) > 0
    <3>1. s # <<>> /\ i # 1 /\ b[i - 1] = s[Len(s)] /\ b[i] = f
      BY <1>1, <2>3, EmptySeq DEF b
    <3>2. QED
      BY <3>1 DEF LastOf
  <2>4. QED
    BY <1>1, <2>1, <2>2, <2>3 DEF b
<1>3. QED
  BY <1>1, <1>2 DEF Chain, LastOf, b

\* What a chain begins after may be replaced by what allows at least as much.
LEMMA ChainCovers ==
  ASSUME NEW s \in Seq(Frame), NEW x, NEW y, Covers(x, y), Chain(x, s)
  PROVE  Chain(y, s) /\ Covers(LastOf(x, s), LastOf(y, s))
<1>1. ASSUME NEW i \in 1..Len(s) PROVE Link(IF i = 1 THEN y ELSE s[i - 1], s[i])
  BY ElementOfSeq DEF Chain, Covers
<1>2. QED
  BY <1>1 DEF Chain, LastOf, Covers

\* The first frame may be taken off, if what comes next may follow y too.
LEMMA ChainTail ==
  ASSUME NEW s \in Seq(Frame), s # <<>>, NEW x, NEW y, Covers(s[1], y), Chain(x, s)
  PROVE  Chain(y, Tail(s)) /\ Covers(LastOf(x, s), LastOf(y, Tail(s)))
<1>1. /\ Tail(s) \in Seq(Frame) /\ Len(Tail(s)) = Len(s) - 1 /\ Len(s) \in Nat \ {0}
      /\ \A i \in 1..Len(Tail(s)) : Tail(s)[i] = s[i + 1]
  BY HeadTailProperties, EmptySeq
<1> DEFINE b == Tail(s)
<1> HIDE DEF b
<1>2. ASSUME NEW i \in 1..Len(b) PROVE Link(IF i = 1 THEN y ELSE b[i - 1], b[i])
  <2>1. i + 1 \in 1..Len(s) /\ b[i] = s[i + 1] /\ i + 1 # 1 /\ (i + 1) - 1 = i
    BY <1>1 DEF b
  <2>2. Link(s[i], b[i]) /\ b[i] \in Frame
    BY <2>1, ElementOfSeq DEF Chain
  <2>3. i # 1 => b[i - 1] = s[i]
    BY <1>1 DEF b
  <2>4. QED
    BY <2>2, <2>3 DEF Covers
<1>3. b \in Seq(Frame) /\ (b = <<>> <=> Len(b) = 0) /\ Len(b) = Len(s) - 1
  BY <1>1, EmptySeq DEF b
<1>4. ASSUME Len(s) = 1 PROVE Covers(LastOf(x, s), LastOf(y, b))
  <2>1. b = <<>>
    BY <1>3, <1>4
  <2>2. LastOf(x, s) = s[1] /\ LastOf(y, b) = y
    BY <1>4, <2>1 DEF LastOf
  <2>3. QED
    BY <2>2
<1>5. ASSUME Len(s) > 1 PROVE Covers(LastOf(x, s), LastOf(y, b))
  <2>1. b # <<>> /\ Len(b) \in 1..Len(b)
    BY <1>1, <1>3, <1>5
  <2>2. b[Len(b)] = s[Len(s)]
    BY <1>1, <1>3, <2>1 DEF b
  <2>3. LastOf(x, s) = LastOf(y, b)
    BY <2>1, <2>2 DEF LastOf
  <2>4. QED
    BY <2>3 DEF Covers
<1>6. Chain(y, b)
  BY <1>2 DEF Chain
<1>7. QED
  BY <1>1, <1>4, <1>5, <1>6 DEF b

\* A chain may be empty, and what does not continue anything may start one.
LEMMA ChainBasics ==
  ASSUME NEW x, NEW f \in Frame
  PROVE  /\ Chain(x, <<>>) /\ LastOf(x, <<>>) = x
         /\ Link(x, f) => Chain(x, <<f>>) /\ LastOf(x, <<f>>) = f
         /\ Covers(x, x) /\ Covers(x, Anything)
BY DEF Chain, LastOf, Covers, Link, Anything

----------------------------------------------------------------------------
(* Chunks and tasks. *)

\* A retained chunk lies where Start says, up to where the next one starts.
LEMMA ChunkEnds ==
  ASSUME IInv, ChunkInv, NEW e \in Epoch, NEW k \in Nat, Oldest(e) <= k, k <= sent[e]
  PROVE  /\ ChunkAt(e, k) \in Frame /\ Written(ChunkAt(e, k))
         /\ ChunkAt(e, k) = Data(e, Start(e, k), Start(e, k + 1))
<1> DEFINE n == Len(chunks[e])
           i == k - Oldest(e) + 1
<1>1. chunks[e] \in Seq(Frame) /\ n \in Nat /\ sent[e] \in Nat /\ Oldest(e) = sent[e] - n + 1
  BY DEF IInv, TypeOK, ShellType, Oldest
<1>2. i \in 1..n /\ i = k - sent[e] + n /\ ChunkAt(e, k) = chunks[e][i]
  BY <1>1 DEF ChunkAt
<1> HIDE DEF i
<1>3. /\ chunks[e][i] \in Frame /\ Written(chunks[e][i])
      /\ chunks[e][i].t = "data" /\ chunks[e][i].e = e
      /\ i < n => chunks[e][i].hi = chunks[e][i + 1].lo
  BY <1>1, <1>2, ElementOfSeq DEF ChunkInv
<1>4. Start(e, k) = chunks[e][i].lo
  BY <1>1, <1>2 DEF Start
<1>5. Start(e, k + 1) = chunks[e][i].hi
  <2>1. CASE k < sent[e]
    <3>1. i < n /\ ~(k + 1 > sent[e]) /\ (k + 1) - Oldest(e) + 1 = i + 1
      BY <1>1, <1>2, <2>1
    <3>2. QED
      BY <1>3, <3>1 DEF Start, ChunkAt
  <2>2. CASE k = sent[e]
    <3>1. i = n /\ k + 1 > sent[e] /\ chunks[e] # <<>>
      BY <1>1, <1>2, <2>2, EmptySeq
    <3>2. chunks[e][n].hi = sb[e].total
      BY <3>1 DEF IInv, RingInv, RingIsTail
    <3>3. QED
      BY <3>1, <3>2 DEF Start
  <2>3. QED
    BY <1>1, <2>1, <2>2
<1>6. chunks[e][i] = [t |-> chunks[e][i].t, e |-> chunks[e][i].e, lo |-> chunks[e][i].lo, hi |-> chunks[e][i].hi]
  BY <1>3 DEF Frame
<1>7. QED
  BY <1>2, <1>3, <1>4, <1>5, <1>6 DEF Data

\* A task that lost its predecessor's frame goes on after one that allows as much.
LEMMA TaskCovers ==
  ASSUME NEW x, NEW y, Covers(x, y), NEW t \in Task, TaskView(x, t),
         t.st = "run" /\ t.rx >= Oldest(t.e) => Mark(t.e, Start(t.e, t.rx)) \in Frame
  PROVE  TaskView(y, t)
<1>1. t.hand \in Seq(Frame)
  BY DEF Task
<1>2. Chain(y, t.hand) /\ Covers(LastOf(x, t.hand), LastOf(y, t.hand))
  BY <1>1, ChainCovers DEF TaskView
<1>3. QED
  BY <1>2 DEF TaskView, Covers

\* A channel without a task has no task that could go wrong.
LEMMA IdleTask ==
  ASSUME NEW x, NEW t \in Task, t.st = "none", t.hand = <<>>
  PROVE  TaskView(x, t)
BY DEF TaskView, Chain

\* Where a receiver stands is a position of the stream.
LEMMA MarkFrame ==
  ASSUME IInv, ChunkInv, NEW t \in Task, TaskOK(t), t.st = "run", t.rx >= Oldest(t.e)
  PROVE  Mark(t.e, Start(t.e, t.rx)) \in Frame
<1>1. t.e \in Epoch /\ t.rx \in 1..(sent[t.e] + 1) /\ t.rx \in Nat /\ sent[t.e] \in Nat /\ sb[t.e].total \in Nat
  BY DEF TaskOK, Task, IInv, TypeOK, ShellType
<1>2. Start(t.e, t.rx) \in Nat
  <2>1. CASE t.rx > sent[t.e]
    BY <1>1, <2>1 DEF Start
  <2>2. CASE t.rx <= sent[t.e]
    <3>1. ChunkAt(t.e, t.rx) \in Frame
      BY <1>1, <2>2, ChunkEnds
    <3>2. QED
      BY <1>1, <2>2, <3>1 DEF Start, Frame
  <2>3. QED
    BY <1>1, <2>1, <2>2
<1>3. QED
  BY <1>1, <1>2 DEF Mark, Data, Frame, FrameType, Epoch

\* The chunks a redraw drains lead to where the snapshot stands.
LEMMA PendingChain ==
  ASSUME IInv, ChunkInv, NEW t \in Task, t.st # "none", TaskOK(t), t.rx >= Oldest(t.e),
         NEW x, Link(x, Mark(t.e, Start(t.e, t.rx)))
  PROVE  /\ Pending(t) \in Seq(Frame) /\ Chain(x, Pending(t))
         /\ \A i \in 1..Len(Pending(t)) : Pending(t)[i].t = "data" /\ Written(Pending(t)[i])
         /\ Link(LastOf(x, Pending(t)), Mark(t.e, sb[t.e].total))
<1> DEFINE p == Pending(t)
<1>1. PICK e \in Epoch, r \in Nat, n \in Nat, s \in Nat, o \in Int :
        /\ e = t.e /\ r = t.rx /\ n = Len(chunks[e]) /\ s = sent[e] /\ o = Oldest(e)
        /\ r <= s + 1 /\ o = s - n + 1 /\ r >= o
  BY DEF TaskOK, Task, IInv, TypeOK, ShellType, Oldest
<1>2. r <= s + 1 /\ o = s - n + 1 /\ r >= o
  BY <1>1
<1>3. p \in Seq(Frame)
  <2>1. TypeOK /\ ~(r < o)
    BY <1>2 DEF IInv
  <2>2. ~Lagged(t)
    BY <1>1, <2>1 DEF Lagged
  <2>3. QED
    BY <2>1, <2>2, PendingFrames
<1> HIDE DEF p
<1>4. Len(p) = s - r + 1 /\ \A i \in 1..Len(p) : p[i] = ChunkAt(e, r + i - 1)
  <2> DEFINE k == r - o + 1
  <2>1. k \in Int /\ k >= 1 /\ k <= n + 1 /\ n - k + 1 = s - r + 1
    BY <1>2
  <2>2. \A i \in Int : k + i - 1 = (r + i - 1) - o + 1
    OBVIOUS
  <2> HIDE DEF k
  <2>3. chunks[e] \in Seq(Frame) /\ \A i \in k..n : i \in 1..Len(chunks[e])
    BY <1>1, <2>1 DEF IInv, TypeOK, ShellType
  <2>4. \A i \in k..n : chunks[e][i] \in Frame
    BY <2>3, ElementOfSeq
  <2>5. /\ Len(SubSeq(chunks[e], k, n)) = IF k <= n THEN n - k + 1 ELSE 0
        /\ \A i \in 1..(n - k + 1) : SubSeq(chunks[e], k, n)[i] = chunks[e][k + i - 1]
    BY <2>1, <2>4, SubSeqProperties
  <2>6. p = SubSeq(chunks[e], k, n)
    BY <1>1 DEF Pending, k, p
  <2>7. Len(p) = s - r + 1
    BY <2>1, <2>5, <2>6
  <2>8. ASSUME NEW i \in 1..Len(p) PROVE p[i] = ChunkAt(e, r + i - 1)
    <3>1. p[i] = chunks[e][k + i - 1]
      BY <2>1, <2>5, <2>6, <2>7
    <3>2. k + i - 1 = (r + i - 1) - Oldest(e) + 1
      BY <1>1, <2>2
    <3>3. QED
      BY <3>1, <3>2 DEF ChunkAt
  <2>9. QED
    BY <2>7, <2>8
<1>5. ASSUME NEW i \in 1..Len(p)
      PROVE  p[i] = Data(e, Start(e, r + i - 1), Start(e, r + i)) /\ Written(p[i])
  <2>1. r + i - 1 \in Nat /\ o <= r + i - 1 /\ r + i - 1 <= s /\ (r + i - 1) + 1 = r + i
    BY <1>2, <1>4
  <2>2. Oldest(e) <= r + i - 1 /\ r + i - 1 <= sent[e]
    BY <1>1, <2>1
  <2>3. QED
    BY <1>4, <2>1, <2>2, ChunkEnds
<1>6. Chain(x, p)
  <2>1. ASSUME NEW i \in 1..Len(p) PROVE Link(IF i = 1 THEN x ELSE p[i - 1], p[i])
    <3>1. CASE i = 1
      <4>1. p[i] = Data(e, Start(e, r), Start(e, r + 1))
        BY <1>5, <3>1
      <4>2. Link(x, Mark(e, Start(e, r)))
        BY <1>1
      <4>3. QED
        BY <3>1, <4>1, <4>2 DEF Link, Continues, Mark, Data
    <3>2. CASE i # 1
      <4>1. i - 1 \in 1..Len(p) /\ r + (i - 1) = r + i - 1
        BY <1>4, <3>2
      <4>2. p[i - 1] = Data(e, Start(e, r + (i - 1) - 1), Start(e, r + i - 1))
        BY <1>5, <4>1
      <4>3. p[i] = Data(e, Start(e, r + i - 1), Start(e, r + i))
        BY <1>5
      <4>4. Link(p[i - 1], p[i])
        BY <4>2, <4>3 DEF Link, Data
      <4>5. QED
        BY <3>2, <4>4
    <3>3. QED
      BY <3>1, <3>2
  <2>2. QED
    BY <2>1 DEF Chain
<1>7. Start(e, s + 1) = sb[e].total
  BY <1>1 DEF Start
<1>8. Link(LastOf(x, p), Mark(e, sb[e].total))
  <2>1. CASE p = <<>>
    <3>1. Len(p) = 0
      BY <2>1, EmptySeq
    <3>2. r = s + 1
      BY <1>2, <1>4, <3>1
    <3>3. Link(x, Mark(e, Start(e, s + 1)))
      BY <1>1, <3>2
    <3>4. QED
      BY <1>7, <2>1, <3>3 DEF LastOf
  <2>2. CASE p # <<>>
    <3>1. Len(p) \in Nat \ {0}
      BY <1>3, <2>2, EmptySeq
    <3>2. Len(p) \in 1..Len(p) /\ r + Len(p) = s + 1
      BY <1>2, <1>4, <3>1
    <3>3. p[Len(p)] = Data(e, Start(e, r + Len(p) - 1), sb[e].total)
      BY <1>5, <1>7, <3>2
    <3>4. QED
      BY <2>2, <3>3 DEF LastOf, Link, Mark, Data
  <2>3. QED
    BY <2>1, <2>2
<1>9. ASSUME NEW i \in 1..Len(p) PROVE p[i].t = "data" /\ Written(p[i])
  <2>1. p[i] = Data(e, Start(e, r + i - 1), Start(e, r + i)) /\ Written(p[i])
    BY <1>5
  <2>2. QED
    BY <2>1 DEF Data
<1>10. Link(LastOf(x, p), Mark(t.e, sb[t.e].total))
  BY <1>1, <1>8
<1>11. QED
  BY <1>3, <1>6, <1>9, <1>10 DEF p

\* Every arm of the select! goes on where the task stands, or ends it.
LEMMA TakeView ==
  ASSUME IInv, ChunkInv, NEW t \in Task, TaskOK(t), NEW a \in Arm, Ready(t, a), NEW x, TaskView(x, t)
  PROVE  TaskView(x, Take(t, a))
<1>1. /\ t.st = "run" /\ t.hand = <<>> /\ t.e \in Epoch /\ t.rx \in 1..(sent[t.e] + 1) /\ t.rx \in Nat
      /\ t.e \in 0..MaxEpoch /\ sent[t.e] \in Nat /\ sb[t.e].total \in Nat /\ Oldest(t.e) \in Int
      /\ Len(chunks[t.e]) \in Nat /\ Oldest(t.e) <= sent[t.e] + 1
  BY DEF Ready, TaskOK, Epoch, Task, IInv, TypeOK, ShellType, Oldest
<1>2. LastOf(x, <<>>) = x /\ (t.rx >= Oldest(t.e) => Link(x, Mark(t.e, Start(t.e, t.rx))))
  BY <1>1 DEF TaskView, LastOf
<1>3. ASSUME NEW u \in Task, u.st = "end", NEW r \in {"exit", "error"}, u.hand = <<Closed(r, t.e)>>
      PROVE  TaskView(x, u)
  BY <1>3 DEF TaskView, Chain, Link, Continues, Closed, IsHello, IsClosed, Written
<1>4. <<Closed("exit", t.e)>> \in Seq(Frame) /\ <<Closed("error", t.e)>> \in Seq(Frame)
  BY <1>1 DEF Closed, Frame, FrameType
<1>5. TaskView(x, TakeOutput(t))
  <2>1. CASE ~Unread(t)
    <3>1. TakeOutput(t) = NoTask /\ NoTask \in Task
      BY <2>1, StreamAssumption DEF TakeOutput, NoTask, Task, NoEpoch
    <3>2. QED
      BY <3>1, IdleTask DEF NoTask
  <2>2. CASE Unread(t) /\ Lagged(t)
    <3>1. TakeOutput(t) = [t EXCEPT !.st = "end", !.hand = <<Closed("error", t.e)>>]
      BY <2>2 DEF TakeOutput
    <3>2. QED
      BY <1>3, <1>4, <3>1 DEF Task
  <2>3. CASE Unread(t) /\ ~Lagged(t)
    <3> DEFINE f == ChunkAt(t.e, t.rx)
               u == [t EXCEPT !.rx = t.rx + 1, !.hand = <<f>>]
    <3>1. TakeOutput(t) = u
      BY <2>3 DEF TakeOutput
    <3>2. t.rx >= Oldest(t.e) /\ t.rx <= sent[t.e]
      BY <1>1, <2>3 DEF Unread, Lagged
    <3>3. f \in Frame /\ Written(f) /\ f = Data(t.e, Start(t.e, t.rx), Start(t.e, t.rx + 1))
      BY <1>1, <3>2, ChunkEnds
    <3>4. u.st = "run" /\ u.e = t.e /\ u.rx = t.rx + 1 /\ u.hand = <<f>>
      BY <1>1 DEF Task
    <3> HIDE DEF f, u
    <3>5. Link(x, f) /\ Link(f, Mark(t.e, Start(t.e, t.rx + 1)))
      BY <1>2, <3>2, <3>3 DEF Link, Continues, Mark, Data
    <3>6. Chain(x, <<f>>) /\ LastOf(x, <<f>>) = f
      BY <3>5 DEF Chain, LastOf
    <3>7. ~IsHello(f)
      BY <3>3 DEF IsHello, Data
    <3>8. QED
      BY <3>1, <3>3, <3>4, <3>5, <3>6, <3>7 DEF TaskView
  <2>4. QED
    BY <2>1, <2>2, <2>3
<1>6. TaskView(x, TakeShutdown(t))
  <2>1. CASE shut[t.e].val
    <3>1. TakeShutdown(t) = [t EXCEPT !.st = "end", !.hand = <<Closed("exit", t.e)>>]
      BY <2>1 DEF TakeShutdown
    <3>2. QED
      BY <1>3, <1>4, <3>1 DEF Task
  <2>2. CASE ~shut[t.e].val
    <3> DEFINE u == TakeShutdown(t)
    <3>1. u.st = t.st /\ u.e = t.e /\ u.rx = t.rx /\ u.hand = t.hand
      BY <2>2 DEF TakeShutdown, Task
    <3> HIDE DEF u
    <3>2. QED
      BY <3>1 DEF TaskView, u
  <2>3. QED
    BY <2>1, <2>2
<1>7. TaskView(x, TakeRedraw(t))
  <2>1. CASE Unread(t) /\ Lagged(t)
    <3>1. TakeRedraw(t) = [t EXCEPT !.st = "end", !.hand = <<Closed("error", t.e)>>]
      BY <2>1 DEF TakeRedraw
    <3>2. QED
      BY <1>3, <1>4, <3>1 DEF Task
  <2>2. CASE ~(Unread(t) /\ Lagged(t))
    <3> DEFINE p == Pending(t)
               f == Redraw(t.e, sb[t.e].total)
               h == Append(p, f)
               u == [t EXCEPT !.rx = sent[t.e] + 1, !.hand = h]
    <3>1. t.rx >= Oldest(t.e)
      BY <1>1, <2>2 DEF Unread, Lagged
    <3>2. /\ p \in Seq(Frame) /\ Chain(x, p) /\ Link(LastOf(x, p), Mark(t.e, sb[t.e].total))
          /\ \A i \in 1..Len(p) : p[i].t = "data" /\ Written(p[i])
      BY <1>1, <1>2, <3>1, PendingChain
    <3>3. f \in Frame /\ Written(f) /\ f.t = "redraw"
      BY <1>1 DEF Redraw, Frame, FrameType, Written
    <3>4. TakeRedraw(t) = u /\ u.st = "run" /\ u.e = t.e /\ u.rx = sent[t.e] + 1 /\ u.hand = h
      BY <1>1, <2>2 DEF TakeRedraw, SnapshotLast, Task
    <3> HIDE DEF p
    <3>5. Link(LastOf(x, p), f)
      BY <3>2 DEF Link, Continues, Mark, Data, Redraw
    <3> HIDE DEF f
    <3>6. Chain(x, h) /\ LastOf(x, h) = f
      BY <3>2, <3>3, <3>5, ChainAppend
    <3>7. \A i \in 1..Len(h) : ~IsHello(h[i]) /\ Written(h[i])
      <4>1. /\ Len(h) = Len(p) + 1 /\ Len(p) \in Nat
            /\ \A i \in 1..Len(p) : h[i] = p[i]
            /\ h[Len(p) + 1] = f
        BY <3>2, <3>3, AppendProperties
      <4> HIDE DEF h
      <4>2. QED
        BY <3>2, <3>3, <4>1 DEF IsHello
    <3> HIDE DEF h, u
    <3>8. Link(f, Mark(t.e, Start(t.e, sent[t.e] + 1)))
      BY <1>1 DEF f, Start, Link, Mark, Redraw, Data
    <3>9. QED
      BY <3>4, <3>6, <3>7, <3>8 DEF TaskView
  <2>3. QED
    BY <2>1, <2>2
<1>8. QED
  BY <1>5, <1>6, <1>7 DEF Arm, Take

\* Sending what is in hand moves the end of what is under way by that frame.
LEMMA AfterSendView ==
  ASSUME IInv, ChunkInv, NEW t \in Task, TaskOK(t), t.hand # <<>>, NEW x, TaskView(x, t)
  PROVE  /\ Link(x, Head(t.hand)) /\ Head(t.hand) \in Frame /\ t.st # "none"
         /\ Written(Head(t.hand)) /\ ~IsHello(Head(t.hand))
         /\ TaskView(Head(t.hand), AfterSend(t))
<1> DEFINE h == t.hand
           f == Head(h)
<1>1. /\ h \in Seq(Frame) /\ h # <<>> /\ Chain(x, h) /\ t.st # "none"
      /\ \A i \in 1..Len(h) : ~IsHello(h[i]) /\ Written(h[i])
  BY DEF TaskView, Task
<1> HIDE DEF h
<1>2. 1 \in 1..Len(h) /\ f = h[1] /\ f \in Frame
  BY <1>1, EmptySeq, HeadTailProperties
<1>3. /\ Tail(h) \in Seq(Frame) /\ Len(Tail(h)) = Len(h) - 1 /\ Len(h) \in Nat
      /\ \A i \in 1..Len(Tail(h)) : Tail(h)[i] = h[i + 1]
  BY <1>1, EmptySeq, HeadTailProperties
<1> HIDE DEF f
<1>4. Link(x, f) /\ Written(f) /\ ~IsHello(f)
  BY <1>1, <1>2 DEF Chain
<1>5. Covers(h[1], f)
  BY <1>2 DEF Covers
<1>6. Chain(f, Tail(h)) /\ Covers(LastOf(x, h), LastOf(f, Tail(h)))
  BY <1>1, <1>5, ChainTail
<1>7. ASSUME NEW i \in 1..Len(Tail(h)) PROVE ~IsHello(Tail(h)[i]) /\ Written(Tail(h)[i])
  <2>1. i + 1 \in 1..Len(h)
    BY <1>3
  <2>2. QED
    BY <1>1, <1>3, <2>1
<1>8. TaskView(f, AfterSend(t))
  <2>1. CASE t.st = "end" /\ Len(h) = 1
    <3>1. AfterSend(t) = NoTask /\ NoTask \in Task
      BY <2>1, StreamAssumption DEF AfterSend, h, NoTask, Task, NoEpoch
    <3>2. QED
      BY <3>1, IdleTask DEF NoTask
  <2>2. CASE ~(t.st = "end" /\ Len(h) = 1)
    <3> DEFINE u == [t EXCEPT !.hand = Tail(h)]
    <3>1. AfterSend(t) = u /\ t.st # "end"
      BY <2>2 DEF AfterSend, h, TaskView
    <3>2. u.st = t.st /\ u.e = t.e /\ u.rx = t.rx /\ u.hand = Tail(h)
      BY DEF Task
    <3> HIDE DEF u
    <3>3. ASSUME t.st = "run", t.rx >= Oldest(t.e)
          PROVE  Link(LastOf(f, Tail(h)), Mark(t.e, Start(t.e, t.rx)))
      BY <1>6, <3>3, MarkFrame DEF Covers, TaskView, h
    <3>4. QED
      BY <1>1, <1>6, <1>7, <3>1, <3>2, <3>3 DEF TaskView
  <2>3. QED
    BY <2>1, <2>2
<1>9. QED
  BY <1>1, <1>2, <1>4, <1>8 DEF f, h

----------------------------------------------------------------------------
(* Reads of the PTY. *)

\* What a step must leave of the shells' output for all that was read of it
\* to stay good: bytes written, and the place of each chunk still retained.
StreamKept ==
  /\ \A f \in Frame : Written(f) => Written(f)'
  /\ \A e \in Epoch : Oldest(e)' \in Int /\ Oldest(e) <= Oldest(e)'
  /\ \A e \in Epoch : \A k \in 1..(sent[e] + 1) : k >= Oldest(e)' => Start(e, k)' = Start(e, k)

\* A step that does not touch the output keeps it.
LEMMA StreamSame ==
  ASSUME IInv, ChunkInv, UNCHANGED <<sb, chunks, sent>>
  PROVE  StreamKept /\ ChunkInv'
<1>1. \A e \in Epoch : Oldest(e) \in Int /\ Oldest(e)' = Oldest(e)
  BY DEF IInv, TypeOK, ShellType, Oldest
<1>2. ASSUME NEW e \in Epoch, NEW k \in Int PROVE Start(e, k)' = Start(e, k)
  BY DEF Start, ChunkAt, Oldest
<1>3. \A f : Written(f)' = Written(f)
  BY DEF Written
<1>4. StreamKept
  <2>1. \A e \in Epoch : sent[e] \in Nat /\ \A k \in 1..(sent[e] + 1) : k \in Int
    BY DEF IInv, TypeOK, ShellType
  <2>2. QED
    BY <1>1, <1>2, <1>3, <2>1 DEF StreamKept
<1>5. ChunkInv'
  BY <1>3 DEF ChunkInv
<1>6. QED
  BY <1>4, <1>5

\* The ring after a broadcast: at most its oldest chunk is gone.
LEMMA BroadcastItems ==
  ASSUME IInv, NEW e \in Epoch, NEW lo \in Nat, NEW hi \in Nat, NEW b, b = Broadcast(e, lo, hi)
  PROVE  \E d \in {0, 1} :
           /\ b \in Seq(Frame) /\ Len(b) = Len(chunks[e]) + 1 - d /\ d <= Len(chunks[e])
           /\ \A i \in 1..(Len(chunks[e]) - d) : b[i] = chunks[e][i + d]
           /\ b[Len(b)] = Data(e, lo, hi)
<1> DEFINE x == Data(e, lo, hi)
           a == Append(chunks[e], x)
<1>1. x \in Frame /\ chunks[e] \in Seq(Frame)
  <2>1. x \in Frame
    BY DEF Data, Frame, FrameType, Epoch
  <2>2. QED
    BY <2>1 DEF IInv, TypeOK, ShellType
<1> HIDE DEF x
<1>2. b = IF Len(a) > BCap THEN Tail(a) ELSE a
  BY DEF Broadcast, x
<1>3. PICK n \in Nat : n = Len(chunks[e])
  BY <1>1
<1>4. /\ a \in Seq(Frame) /\ a # <<>> /\ Len(a) = n + 1 /\ a[n + 1] = x
      /\ \A i \in 1..n : a[i] = chunks[e][i]
  BY <1>1, <1>3, AppendProperties
<1> HIDE DEF a
<1>5. CASE Len(a) > BCap
  <2>1. n >= 1
    BY <1>4, <1>5, StreamAssumption
  <2>2. b = Tail(a) /\ b \in Seq(Frame) /\ Len(b) = n /\ \A i \in 1..Len(b) : b[i] = a[i + 1]
    BY <1>2, <1>4, <1>5, HeadTailProperties
  <2>3. b[n] = x /\ \A i \in 1..(n - 1) : b[i] = chunks[e][i + 1]
    BY <1>4, <2>1, <2>2
  <2>4. QED
    BY <1>3, <2>1, <2>2, <2>3 DEF x
<1>6. CASE ~(Len(a) > BCap)
  <2>1. b = a
    BY <1>2, <1>6
  <2>2. QED
    BY <1>3, <1>4, <2>1 DEF x
<1>7. QED
  BY <1>5, <1>6

\* A read of the PTY leaves the retained chunks where they are and puts the
\* new one at the end, where the output ended.
LEMMA ReadKept ==
  ASSUME IInv, ChunkInv, NEW d \in Epoch, NEW n \in 1..MaxChunk, ReadChunk(d, n)
  PROVE  StreamKept /\ ChunkInv'
<1>1. PICK T \in Nat, L \in Nat, N \in Nat :
        T = sb[d].total /\ T = sb[d].hi /\ L = Len(chunks[d]) /\ N = sent[d] /\ L <= N
  BY DEF IInv, TypeOK, ShellType, RingInv, RingIsTail, ChunkInv
<1>2. L <= N /\ n \in Nat /\ T + n \in Nat /\ T + n <= MaxTotal
  BY <1>1 DEF ReadChunk
<1>3. PICK b : b = Broadcast(d, T, T + n)
  OBVIOUS
<1>4. PICK g \in {0, 1} :
        /\ b \in Seq(Frame) /\ Len(b) = Len(chunks[d]) + 1 - g /\ g <= Len(chunks[d])
        /\ \A i \in 1..(Len(chunks[d]) - g) : b[i] = chunks[d][i + g]
        /\ b[Len(b)] = Data(d, T, T + n)
  BY <1>2, <1>3, BroadcastItems
<1>5. PICK M \in Nat : M = Len(b)
  <2>1. b \in Seq(Frame)
    BY <1>4
  <2>2. QED
    BY <2>1
<1>6. M = L + 1 - g /\ g <= L
  BY <1>1, <1>4, <1>5
<1>7. /\ \A i \in 1..(L - g) : b[i] = chunks[d][i + g]
      /\ b[M] = Data(d, T, T + n)
  BY <1>1, <1>4, <1>5
<1>8. /\ sb'[d].total = T + n /\ chunks'[d] = b /\ sent'[d] = N + 1
      /\ \A e \in Epoch \ {d} : sb'[e] = sb[e] /\ chunks'[e] = chunks[e] /\ sent'[e] = sent[e]
  <2>1. /\ sb' = [sb EXCEPT ![d] = Push(sb[d], n)] /\ chunks' = [chunks EXCEPT ![d] = b]
        /\ sent' = [sent EXCEPT ![d] = N + 1]
    BY <1>1, <1>3 DEF ReadChunk
  <2>2. Push(sb[d], n).total = T + n
    BY <1>1 DEF Push
  <2>3. QED
    BY <2>1, <2>2 DEF IInv, TypeOK, ShellType
<1>9. ASSUME NEW e \in Epoch
      PROVE  /\ sb[e].total \in Nat /\ sb'[e].total \in Nat /\ sb[e].total <= sb'[e].total
             /\ sb'[e].total <= MaxTotal
  <2>1. sb[e].total \in Nat /\ sb[e].total <= MaxTotal /\ MaxTotal \in Nat
    BY StreamAssumption DEF IInv, TypeOK, ShellType, ChunkInv
  <2>2. CASE e = d
    <3>1. sb[d].total <= T + n /\ T + n <= MaxTotal /\ T + n \in Nat
      BY <1>1, <1>2
    <3>2. QED
      BY <1>8, <2>1, <2>2, <3>1
  <2>3. CASE e # d
    BY <1>8, <2>1, <2>3
  <2>4. QED
    BY <2>2, <2>3
<1>10. ASSUME NEW f \in Frame, Written(f) PROVE Written(f)'
  BY <1>9, <1>10 DEF Written, Frame
<1>11. Oldest(d) = N - L + 1 /\ Oldest(d)' = N - L + 1 + g
  <2>1. Oldest(d)' = (N + 1) - M + 1
    BY <1>5, <1>8 DEF Oldest
  <2>2. QED
    BY <1>1, <1>6, <2>1 DEF Oldest
<1>12. ASSUME NEW e \in Epoch \ {d} PROVE Oldest(e)' = Oldest(e) /\ Oldest(e) \in Int
  <2>1. sent[e] \in Nat /\ chunks[e] \in Seq(Frame)
    BY DEF IInv, TypeOK, ShellType
  <2>2. Oldest(e)' = Oldest(e)
    BY <1>8 DEF Oldest
  <2>3. QED
    BY <2>1, <2>2 DEF Oldest
<1>13. ASSUME NEW k \in 1..(N + 1), k >= N - L + 1 + g PROVE Start(d, k)' = Start(d, k)
  <2>1. PICK i \in 1..(L + 1 - g) : i = k - (N - L + 1 + g) + 1
    BY <1>2, <1>6, <1>13
  <2>2. i + g = k - (N - L + 1) + 1 /\ ~(k > N + 1)
    BY <2>1
  <2>3. Start(d, k)' = b[i].lo
    BY <1>8, <1>11, <2>1, <2>2 DEF Start, ChunkAt
  <2>4. CASE k = N + 1
    <3>1. i = M /\ k > N
      BY <1>6, <2>1, <2>4
    <3>2. b[i].lo = T /\ Start(d, k) = T
      BY <1>1, <1>7, <3>1 DEF Start, Data
    <3>3. QED
      BY <2>3, <3>2
  <2>5. CASE k # N + 1
    <3>1. i \in 1..(L - g) /\ ~(k > N)
      BY <1>6, <2>1, <2>5
    <3>2. Start(d, k) = chunks[d][i + g].lo
      BY <1>1, <1>11, <2>2, <3>1 DEF Start, ChunkAt
    <3>3. b[i] = chunks[d][i + g]
      BY <1>7, <3>1
    <3>4. QED
      BY <2>3, <3>2, <3>3
  <2>6. QED
    BY <2>4, <2>5
<1>14. StreamKept
  <2>1. \A e \in Epoch : Oldest(e)' \in Int /\ Oldest(e) <= Oldest(e)'
    BY <1>11, <1>12
  <2>2. ASSUME NEW e \in Epoch, NEW k \in 1..(sent[e] + 1), k >= Oldest(e)'
        PROVE  Start(e, k)' = Start(e, k)
    <3>1. CASE e = d
      BY <1>1, <1>11, <1>13, <2>2, <3>1
    <3>2. CASE e # d
      BY <1>8, <1>12, <3>2 DEF Start, ChunkAt
    <3>3. QED
      BY <3>1, <3>2
  <2>3. QED
    BY <1>10, <2>1, <2>2 DEF StreamKept
<1> DEFINE Good(s, i, e) == s[i].t = "data" /\ s[i].e = e /\ Written(s[i])'
<1>15. ASSUME NEW e \in Epoch \ {d}, NEW s, s = chunks'[e]
       PROVE  Len(s) <= sent'[e] /\ \A i \in 1..Len(s) : Good(s, i, e) /\ (i < Len(s) => s[i].hi = s[i + 1].lo)
  <2>1. s \in Seq(Frame) /\ s = chunks[e] /\ sent'[e] = sent[e]
    BY <1>8, <1>15 DEF IInv, TypeOK, ShellType
  <2>2. ASSUME NEW i \in 1..Len(s) PROVE Good(s, i, e) /\ (i < Len(s) => s[i].hi = s[i + 1].lo)
    <3>1. s[i] \in Frame
      BY <2>1, ElementOfSeq
    <3>2. /\ s[i].t = "data" /\ s[i].e = e /\ Written(s[i])
          /\ i < Len(s) => s[i].hi = s[i + 1].lo
      BY <2>1 DEF ChunkInv
    <3>3. QED
      BY <1>10, <3>1, <3>2
  <2>3. Len(s) <= sent[e]
    BY <2>1 DEF ChunkInv
  <2>4. QED
    BY <2>1, <2>2, <2>3
<1>16. ASSUME NEW i \in 1..(L - g) PROVE Good(b, i, d) /\ b[i].hi = b[i + 1].lo
  <2>1. i + g \in 1..L /\ b[i] = chunks[d][i + g]
    BY <1>6, <1>7
  <2>2. b[i] \in Frame
    BY <1>1, <2>1, ElementOfSeq DEF IInv, TypeOK, ShellType
  <2>3. /\ b[i].t = "data" /\ b[i].e = d /\ Written(b[i])
        /\ i + g < L => chunks[d][i + g].hi = chunks[d][(i + g) + 1].lo
    BY <1>1, <2>1 DEF ChunkInv
  <2>4. CASE i + g < L
    <3>1. i + 1 \in 1..(L - g) /\ (i + 1) + g = (i + g) + 1
      BY <1>6, <2>4
    <3>2. b[i + 1] = chunks[d][(i + g) + 1]
      BY <1>7, <3>1
    <3>3. QED
      BY <1>10, <2>1, <2>2, <2>3, <2>4, <3>2
  <2>5. CASE i + g = L
    <3>1. i + 1 = M
      BY <1>6, <2>5
    <3>2. b[i + 1].lo = T
      BY <1>7, <3>1 DEF Data
    <3>3. chunks[d] # <<>>
      BY <1>1, <2>1, EmptySeq
    <3>4. chunks[d][L].hi = T
      BY <1>1, <3>3 DEF IInv, RingInv, RingIsTail
    <3>5. QED
      BY <1>10, <2>1, <2>2, <2>3, <2>5, <3>2, <3>4
  <2>6. QED
    BY <1>6, <2>1, <2>4, <2>5
<1>17. Good(b, M, d)
  <2>1. T <= T + n /\ T + n <= sb'[d].total
    BY <1>2, <1>8
  <2>2. QED
    BY <1>7, <2>1 DEF Data, Written, IsClosed
<1> HIDE DEF Good
<1>18. /\ M <= N + 1
       /\ \A i \in 1..M : Good(b, i, d) /\ (i < M => b[i].hi = b[i + 1].lo)
  <2>1. M <= N + 1 /\ \A i \in 1..M : i \in 1..(L - g) \/ (i = M /\ ~(i < M))
    BY <1>2, <1>6
  <2>2. QED
    BY <1>16, <1>17, <2>1
<1>19. ASSUME NEW e \in Epoch, NEW s, s = chunks'[e]
       PROVE  Len(s) <= sent'[e] /\ \A i \in 1..Len(s) : Good(s, i, e) /\ (i < Len(s) => s[i].hi = s[i + 1].lo)
  <2>1. CASE e = d
    BY <1>5, <1>8, <1>18, <1>19, <2>1
  <2>2. CASE e # d
    BY <1>15, <1>19, <2>2
  <2>3. QED
    BY <2>1, <2>2
<1>20. ChunkInv'
  <2>1. ASSUME NEW e \in Epoch
        PROVE  (/\ Len(chunks[e]) <= sent[e] /\ sb[e].total <= MaxTotal
                /\ \A i \in 1..Len(chunks[e]) :
                     /\ chunks[e][i].t = "data" /\ chunks[e][i].e = e /\ Written(chunks[e][i])
                     /\ i < Len(chunks[e]) => chunks[e][i].hi = chunks[e][i + 1].lo)'
    <3>1. PICK s : s = chunks'[e]
      OBVIOUS
    <3>2. Len(s) <= sent'[e] /\ sb'[e].total <= MaxTotal
      BY <1>9, <1>19, <3>1
    <3>3. ASSUME NEW i \in 1..Len(s)
          PROVE  /\ s[i].t = "data" /\ s[i].e = e /\ Written(s[i])'
                 /\ i < Len(s) => s[i].hi = s[i + 1].lo
      BY <1>19, <3>1 DEF Good
    <3>4. QED
      BY <3>1, <3>2, <3>3
  <2>2. QED
    BY <2>1 DEF ChunkInv
<1>21. QED
  BY <1>14, <1>20

----------------------------------------------------------------------------
(* What a step leaves alone. *)

\* A task that does not move goes on where it did, even after a frame that
\* allows more than the one it came after.
LEMMA TaskKept ==
  ASSUME IInv, ChunkInv, StreamKept, NEW t \in Task, TaskOK(t), NEW x, NEW y, Covers(x, y), TaskView(x, t)
  PROVE  TaskView(y, t)'
<1>1. TaskView(y, t)
  BY TaskCovers, MarkFrame
<1>2. ASSUME NEW i \in 1..Len(t.hand) PROVE ~IsHello(t.hand[i]) /\ Written(t.hand[i])'
  <2>1. t.hand[i] \in Frame
    BY ElementOfSeq DEF Task
  <2>2. QED
    BY <1>1, <2>1 DEF TaskView, StreamKept
<1>3. ASSUME t.st = "run", t.rx >= Oldest(t.e)'
      PROVE  Link(LastOf(y, t.hand), Mark(t.e, Start(t.e, t.rx)))'
  <2>1. t.e \in Epoch /\ t.rx \in 1..(sent[t.e] + 1)
    BY <1>3 DEF TaskOK
  <2>2. Start(t.e, t.rx)' = Start(t.e, t.rx) /\ Oldest(t.e) <= Oldest(t.e)'
    BY <1>3, <2>1 DEF StreamKept
  <2>3. Oldest(t.e) \in Int /\ Oldest(t.e)' \in Int /\ t.rx \in Int
    BY <2>1 DEF IInv, TypeOK, ShellType, Oldest, Task, StreamKept
  <2>4. t.rx >= Oldest(t.e)
    BY <1>3, <2>2, <2>3
  <2>5. QED
    BY <1>1, <1>3, <2>2, <2>4 DEF TaskView
<1>4. QED
  BY <1>1, <1>2, <1>3 DEF TaskView

UpFrame == [t : {"open", "close"}, resume : Resume]

\* The types of what one client and its connection keep.
LEMMA ClientTypes ==
  ASSUME IInv, NEW c \in Client
  PROVE  /\ fwd[c] \in Task /\ TaskOK(fwd[c]) /\ old[c] \in Task /\ TaskOK(old[c])
         /\ out[c] \in Seq(Frame) /\ up[c] \in Seq(UpFrame) /\ scr[c] \in Seq(Run)
         /\ att[c] \in Attach /\ req[c] \in Resume /\ me[c] \in Resume
         /\ phase[c] \in {"await", "first", "live"}
         /\ pc[c] \in {"idle", "join", "attach", "spawn", "cut", "watch", "hello", "replay", "fail"}
BY DEF IInv, TypeOK, ServerType, ClientType, TaskInv, UpFrame

\* Tasks may be aborted and change places while nothing is sent or shown.
LEMMA StreamMoves ==
  ASSUME IInv, ChunkInv, StreamKept, NEW c \in Client, StreamInv(c),
         UNCHANGED <<out[c], phase[c], scr[c]>>,
         \/ fwd'[c] = NoTask
         \/ fwd'[c] = fwd[c] /\ (fwd[c].st # "none" => pc'[c] = "idle"),
         \/ old'[c] = NoTask
         \/ old'[c] \in {fwd[c], old[c]} /\ (old'[c].st # "none" => pc'[c] = "join")
  PROVE  StreamInv(c)'
<1>1. /\ fwd[c] \in Task /\ TaskOK(fwd[c]) /\ old[c] \in Task /\ TaskOK(old[c])
      /\ out[c] \in Seq(Frame)
  BY ClientTypes
<1>2. PICK x : x = Tip(c) /\ x = Tip(c)' /\ Eye(c)' = Eye(c)
  BY DEF Tip, Eye
<1>3. Covers(x, x)
  BY DEF Covers
<1>4. ASSUME NEW t \in {fwd[c], old[c], NoTask} PROVE TaskView(x, t)'
  <2>1. CASE t = NoTask
    BY <2>1 DEF NoTask, TaskView, Chain
  <2>2. CASE t \in {fwd[c], old[c]}
    <3>1. t \in Task /\ TaskOK(t) /\ TaskView(x, t)
      BY <1>1, <1>2, <2>2 DEF StreamInv
    <3>2. QED
      BY <1>3, <3>1, TaskKept
  <2>3. QED
    BY <1>4, <2>1, <2>2
<1>5. PICK f \in {fwd[c], NoTask}, o \in {fwd[c], old[c], NoTask} : f = fwd'[c] /\ o = old'[c]
  OBVIOUS
<1>6. TaskView(Tip(c), fwd[c])' /\ TaskView(Tip(c), old[c])'
  <2>1. TaskView(x, f)' /\ TaskView(x, o)'
    BY <1>4
  <2>2. QED
    BY <1>2, <1>5, <2>1
<1>7. ASSUME NEW i \in 1..Len(out[c]) PROVE Written(out[c][i])'
  <2>1. out[c][i] \in Frame
    BY <1>1, ElementOfSeq
  <2>2. PICK g : g = out[c][i]
    OBVIOUS
  <2>3. Written(g)'
    BY <2>1, <2>2 DEF StreamInv, StreamKept
  <2>4. QED
    BY <2>2, <2>3
<1>8. Chain(Eye(c), out[c])'
  BY <1>2 DEF StreamInv
<1>9. /\ (old[c].st # "none" => pc[c] = "join")'
      /\ (fwd[c].st # "none" => pc[c] = "idle")'
  BY DEF NoTask
<1>10. QED
  BY <1>6, <1>7, <1>8, <1>9 DEF StreamInv

\* What attach() has cut stays cut.
LEMMA AttachMoves ==
  ASSUME IInv, StreamKept, NEW c \in Client, AttachInv(c),
         UNCHANGED <<out[c], phase[c], scr[c]>>,
         pc'[c] \in {"watch", "hello", "replay"} =>
           /\ pc[c] \in {"watch", "hello", "replay"} /\ (pc'[c] = "replay" => pc[c] = "replay")
           /\ att'[c].e = att[c].e /\ att'[c].base = att[c].base /\ att'[c].rx = att[c].rx
           /\ att'[c].lo = att[c].lo /\ att'[c].hi = att[c].hi
  PROVE  AttachInv(c)'
<1>1. Tip(c)' = Tip(c)
  BY DEF Tip, Eye
<1>2. CASE pc'[c] \in {"watch", "hello", "replay"}
  <2>1. PICK a \in Attach : a = att[c]
    BY ClientTypes
  <2>2. a.e \in Epoch /\ a.rx \in 1..(sent[a.e] + 1) /\ pc[c] \in {"watch", "hello", "replay"}
    BY <1>2, <2>1 DEF IInv, TaskInv
  <2>3. /\ a.base = a.lo /\ Written(Data(a.e, a.lo, a.hi))
        /\ a.rx >= Oldest(a.e) => Start(a.e, a.rx) = a.hi
    BY <2>1, <2>2 DEF AttachInv
  <2>4. Data(a.e, a.lo, a.hi) \in Frame
    BY <2>2 DEF Attach, Data, Frame, FrameType
  <2>5. Written(Data(a.e, a.lo, a.hi))'
    BY <2>3, <2>4 DEF StreamKept
  <2>6. a.rx >= Oldest(a.e)' => Start(a.e, a.rx)' = a.hi
    <3>1. Oldest(a.e) \in Int /\ Oldest(a.e)' \in Int /\ Oldest(a.e) <= Oldest(a.e)' /\ a.rx \in Int
      BY <2>2 DEF IInv, TypeOK, ShellType, Oldest, StreamKept, Attach
    <3>2. a.rx >= Oldest(a.e)' => a.rx >= Oldest(a.e) /\ Start(a.e, a.rx)' = Start(a.e, a.rx)
      BY <2>2, <3>1 DEF StreamKept
    <3>3. QED
      BY <2>3, <3>2
  <2>7. att'[c].e = a.e /\ att'[c].base = a.base /\ att'[c].rx = a.rx /\ att'[c].lo = a.lo /\ att'[c].hi = a.hi
    BY <1>2, <2>1
  <2>8. pc'[c] = "replay" => Link(Tip(c)', Mark(a.e, a.lo))
    BY <1>1, <2>1 DEF AttachInv
  <2>9. QED
    BY <2>3, <2>5, <2>6, <2>7, <2>8 DEF AttachInv, Mark, Data
<1>3. CASE ~(pc'[c] \in {"watch", "hello", "replay"})
  BY <1>3 DEF AttachInv
<1>4. QED
  BY <1>2, <1>3

\* A resume under way stands while nothing reaches the client.
LEMMA ResumeMoves ==
  ASSUME NEW c \in Client, ResumeInv(c), UNCHANGED <<out[c], up[c], phase[c], scr[c]>>,
         pc[c] = "idle" => pc'[c] = "idle",
         \/ req'[c] = NoResume
         \/ req'[c] = req[c] /\ (pc[c] \in {"join", "attach", "spawn", "cut"}
                                   => pc'[c] \in {"join", "attach", "spawn", "cut"}),
         pc'[c] \in {"watch", "hello"} =>
           /\ pc[c] \in {"watch", "hello"} /\ att'[c].t = att[c].t
           /\ att'[c].e = att[c].e /\ att'[c].base = att[c].base
  PROVE  ResumeInv(c)'
<1>1. /\ Frozen(c)' = Frozen(c) /\ \A e, p : Shows(c, e, p)' = Shows(c, e, p)
      /\ \A r : Honest(c, r)' = Honest(c, r)
  BY DEF Frozen, NoHello, Shows, Honest
<1>2. \A i \in 1..Len(up'[c]) :
        /\ up'[c][i].t = "open"
        /\ up'[c][i].resume # NoResume => i = 1 /\ pc'[c] = "idle" /\ Frozen(c)' /\ Honest(c, up[c][i].resume)'
  BY <1>1 DEF ResumeInv
<1>3. req'[c] # NoResume => pc'[c] \in {"join", "attach", "spawn", "cut"} /\ Frozen(c)' /\ Honest(c, req[c])'
  BY <1>1 DEF ResumeInv
<1>4. pc'[c] \in {"watch", "hello"} /\ att'[c].t = "resume" => Frozen(c)' /\ Shows(c, att[c].e, att[c].base)'
  BY <1>1 DEF ResumeInv
<1>5. \A i \in 1..Len(out'[c]) : out'[c][i].t = "resume" =>
        /\ phase'[c] = "await" /\ Shows(c, out[c][i].e, out[c][i].lo)'
        /\ \A j \in 1..(i - 1) : ~IsHello(out'[c][j])
  BY <1>1 DEF ResumeInv
<1>6. QED
  BY <1>2, <1>3, <1>4, <1>5 DEF ResumeInv

\* A screen that is not painted on stays as it is.
LEMMA ScreenMoves ==
  ASSUME IInv, StreamKept, NEW c \in Client, ScreenInv(c), UNCHANGED <<scr[c], me[c]>>
  PROVE  ScreenInv(c)'
<1>1. CASE Len(scr[c]) = 1
  <2>1. PICK s \in Run : s = scr[c][1]
    BY <1>1, ClientTypes, ElementOfSeq
  <2>2. Data(s.e, s.lo, s.hi) \in Frame /\ Written(Data(s.e, s.lo, s.hi))
    BY <1>1, <2>1 DEF Run, Data, Frame, FrameType, ScreenInv
  <2>3. Written(Data(s.e, s.lo, s.hi))'
    BY <2>2 DEF StreamKept
  <2>4. QED
    BY <2>1, <2>3 DEF ScreenInv
<1>2. CASE Len(scr[c]) # 1
  BY <1>2 DEF ScreenInv
<1>3. QED
  BY <1>1, <1>2

----------------------------------------------------------------------------
(* Frames queued for a client. *)

\* A frame that may follow the last one under way may be queued after it.
LEMMA QueuedStream ==
  ASSUME IInv, StreamKept, NEW c \in Client, StreamInv(c), NEW f \in Frame, Written(f),
         Link(Tip(c), f), out'[c] = Append(out[c], f), UNCHANGED <<phase[c], scr[c]>>
  PROVE  /\ Chain(Eye(c), out[c])' /\ Tip(c)' = f
         /\ \A i \in 1..Len(out'[c]) : Written(out[c][i])'
<1>1. PICK s, x : s \in Seq(Frame) /\ s = out[c] /\ x = Eye(c) /\ x = Eye(c)'
  BY ClientTypes DEF Eye
<1>2. Chain(x, Append(s, f)) /\ LastOf(x, Append(s, f)) = f
  BY <1>1, ChainAppend DEF StreamInv, Tip
<1>3. /\ Len(Append(s, f)) = Len(s) + 1 /\ Len(s) \in Nat
      /\ \A i \in 1..Len(s) : Append(s, f)[i] = s[i]
      /\ Append(s, f)[Len(s) + 1] = f
  BY AppendProperties
<1>4. PICK b : b = Append(s, f)
  OBVIOUS
<1>5. ASSUME NEW i \in 1..Len(b) PROVE Written(b[i])'
  <2>1. CASE i \in 1..Len(s)
    <3>1. s[i] \in Frame /\ Written(s[i]) /\ b[i] = s[i]
      BY <1>1, <1>3, <1>4, <2>1, ElementOfSeq DEF StreamInv
    <3>2. QED
      BY <3>1 DEF StreamKept
  <2>2. CASE i = Len(s) + 1
    BY <1>3, <1>4, <2>2 DEF StreamKept
  <2>3. QED
    BY <1>3, <1>4, <2>1, <2>2
<1>6. b = out'[c]
  BY <1>1, <1>4
<1>7. QED
  BY <1>1, <1>2, <1>4, <1>5, <1>6 DEF Tip

\* A frame that is no hello leaves a resume under way standing.
LEMMA QueuedResume ==
  ASSUME IInv, NEW c \in Client, ResumeInv(c), NEW f \in Frame, out'[c] = Append(out[c], f), ~IsHello(f),
         UNCHANGED <<up[c], phase[c], scr[c]>>,
         pc[c] = "idle" => pc'[c] = "idle",
         req'[c] = req[c] /\ (pc[c] \in {"join", "attach", "spawn", "cut"}
                                => pc'[c] \in {"join", "attach", "spawn", "cut"}),
         pc'[c] \in {"watch", "hello"} =>
           /\ pc[c] \in {"watch", "hello"} /\ att'[c].t = att[c].t
           /\ att'[c].e = att[c].e /\ att'[c].base = att[c].base
  PROVE  ResumeInv(c)'
<1>1. PICK s \in Seq(Frame) : s = out[c]
  BY ClientTypes
<1>2. PICK n \in Nat : n = Len(s)
  OBVIOUS
<1>3. /\ Len(out'[c]) = n + 1 /\ out'[c][n + 1] = f
      /\ \A i \in 1..n : out'[c][i] = out[c][i]
  BY <1>1, <1>2, AppendProperties
<1>4. \A i \in 1..(n + 1) : i \in 1..n \/ i = n + 1
  OBVIOUS
<1>5. /\ Frozen(c) => Frozen(c)'
      /\ \A e, p : Shows(c, e, p)' = Shows(c, e, p)
      /\ \A r : Honest(c, r)' = Honest(c, r)
  BY <1>1, <1>2, <1>3, <1>4 DEF Frozen, NoHello, Shows, Honest
<1>6. \A i \in 1..Len(up'[c]) :
        /\ up'[c][i].t = "open"
        /\ up'[c][i].resume # NoResume => i = 1 /\ pc'[c] = "idle" /\ Frozen(c)' /\ Honest(c, up[c][i].resume)'
  BY <1>5 DEF ResumeInv
<1>7. req'[c] # NoResume => pc'[c] \in {"join", "attach", "spawn", "cut"} /\ Frozen(c)' /\ Honest(c, req[c])'
  BY <1>5 DEF ResumeInv
<1>8. pc'[c] \in {"watch", "hello"} /\ att'[c].t = "resume" => Frozen(c)' /\ Shows(c, att[c].e, att[c].base)'
  BY <1>5 DEF ResumeInv
<1>9. ASSUME NEW i \in 1..Len(out'[c]), out'[c][i].t = "resume"
      PROVE  /\ phase'[c] = "await" /\ Shows(c, out[c][i].e, out[c][i].lo)'
             /\ \A j \in 1..(i - 1) : ~IsHello(out'[c][j])
  <2>1. i \in 1..n
    BY <1>3, <1>4, <1>9 DEF IsHello
  <2>2. out[c][i].t = "resume" /\ out'[c][i] = out[c][i] /\ i \in 1..Len(out[c])
    BY <1>1, <1>2, <1>3, <1>9, <2>1
  <2>3. phase[c] = "await" /\ Shows(c, out[c][i].e, out[c][i].lo) /\ \A j \in 1..(i - 1) : ~IsHello(out[c][j])
    BY <2>2 DEF ResumeInv
  <2>4. \A j \in 1..(i - 1) : j \in 1..n
    BY <2>1
  <2>5. Shows(c, out[c][i].e, out[c][i].lo)'
    BY <2>2, <2>3 DEF Shows
  <2>6. QED
    BY <1>3, <2>3, <2>4, <2>5
<1>10. QED
  BY <1>6, <1>7, <1>8, <1>9 DEF ResumeInv

----------------------------------------------------------------------------
(* The steps of the server. *)

\* Only a read of the PTY adds to a shell's output.
LEMMA OutputQuiet ==
  ASSUME NEW c \in Client, MainLoop(c) \/ Forward(c) \/ Aborted(c) \/ ClientNext(c)
  PROVE  UNCHANGED <<sb, chunks, sent>>
<1>1. CASE MainLoop(c)
  BY <1>1 DEF MainLoop, HandleOpen, JoinOld, HandleClose, AttachLive, AttachDead, AttachSpawn,
     AttachFail, AttachCut, AttachWatch, SendHello, SendReplay, SendFailed, shellVars
<1>2. CASE Forward(c) \/ Aborted(c)
  BY <1>2 DEF Forward, Aborted, ForwardSend, ForwardArm, AbortedSend, AbortedGone, AbortedArm, shellVars
<1>3. CASE ClientNext(c)
  BY <1>3 DEF ClientNext, Connect, Drop, SendClose, SendOpen, Receive, ReceiveHello, ReceiveData,
     ReceiveRedraw, ReceiveClosed, shellVars
<1>4. QED
  BY <1>1, <1>2, <1>3

\* An open takes the client's place in line and aborts the task it replaces.
LEMMA OpenView ==
  ASSUME IInv, ChunkInv, StreamKept, NEW c \in Client, ClientView(c), HandleOpen(c)
  PROVE  ClientView(c)'
<1>1. /\ StreamInv(c) /\ AttachInv(c) /\ ResumeInv(c) /\ ScreenInv(c)
      /\ ServerType /\ ClientType
  BY DEF ClientView, IInv, TypeOK
<1>2. PICK s \in Seq(UpFrame) : s = up[c] /\ s # <<>>
  BY ClientTypes DEF HandleOpen
<1>3. /\ pc[c] = "idle" /\ old[c].st = "none" /\ req'[c] = Head(s).resume /\ up'[c] = Tail(s)
      /\ UNCHANGED <<out[c], phase[c], scr[c], me[c], att[c]>>
      /\ fwd'[c] = NoTask /\ pc'[c] \in {"join", "attach"}
      /\ \/ old'[c] = old[c]
         \/ old'[c] = fwd[c] /\ pc'[c] = "join"
  BY <1>1, <1>2 DEF HandleOpen, RemoveChannel, AfterAbort, ServerType, ClientType, clientVars, StreamInv
<1>4. StreamInv(c)'
  BY <1>1, <1>3, StreamMoves
<1>5. AttachInv(c)'
  BY <1>3 DEF AttachInv
<1>6. ScreenInv(c)'
  BY <1>1, <1>3, ScreenMoves
<1>7. /\ Head(s) = s[1] /\ 1 \in 1..Len(s) /\ Len(Tail(s)) = Len(s) - 1 /\ Len(s) \in Nat
      /\ \A i \in 1..Len(Tail(s)) : Tail(s)[i] = s[i + 1]
  BY <1>2, EmptySeq, HeadTailProperties
<1>8. ASSUME NEW i \in 1..Len(Tail(s)) PROVE Tail(s)[i].t = "open" /\ Tail(s)[i].resume = NoResume
  <2>1. i + 1 \in 1..Len(s) /\ i + 1 # 1
    BY <1>7
  <2>2. s[i + 1].t = "open" /\ s[i + 1].resume = NoResume
    BY <1>1, <1>2, <2>1 DEF ResumeInv
  <2>3. QED
    BY <1>7, <2>2
<1>9. PICK r : r = s[1].resume
  OBVIOUS
<1>10. req'[c] = r /\ (r # NoResume => Frozen(c)' /\ Honest(c, r)')
  <2>1. r # NoResume => Frozen(c) /\ Honest(c, r)
    BY <1>1, <1>2, <1>7, <1>9 DEF ResumeInv
  <2>2. QED
    BY <1>3, <1>7, <1>9, <2>1 DEF Frozen, NoHello, Honest, Shows
<1>11. \A i \in 1..Len(out'[c]) : out'[c][i].t = "resume" =>
         /\ phase'[c] = "await" /\ Shows(c, out[c][i].e, out[c][i].lo)'
         /\ \A j \in 1..(i - 1) : ~IsHello(out'[c][j])
  BY <1>1, <1>3 DEF ResumeInv, Shows
<1>12. ResumeInv(c)'
  <2>1. \A i \in 1..Len(up'[c]) : up'[c][i].t = "open" /\ up'[c][i].resume = NoResume
    BY <1>3, <1>8
  <2>2. req'[c] # NoResume => pc'[c] \in {"join", "attach", "spawn", "cut"} /\ Frozen(c)' /\ Honest(c, req[c])'
    BY <1>3, <1>10
  <2>3. ~(pc'[c] \in {"watch", "hello"})
    BY <1>3
  <2>4. QED
    BY <1>11, <2>1, <2>2, <2>3 DEF ResumeInv
<1>13. QED
  BY <1>4, <1>5, <1>6, <1>12 DEF ClientView

\* attach() cuts the ring where the stream stands, and goes on from a
\* checkpoint only if the screen stands there.
LEMMA CutView ==
  ASSUME IInv, ChunkInv, StreamKept, NEW c \in Client, ClientView(c), AttachCut(c), UNCHANGED <<sb, sent>>
  PROVE  ClientView(c)'
<1>1. /\ StreamInv(c) /\ AttachInv(c) /\ ResumeInv(c) /\ ScreenInv(c)
      /\ ServerType /\ ClientType
  BY DEF ClientView, IInv, TypeOK
<1>2. /\ pc[c] = "cut" /\ pc'[c] = "watch" /\ req'[c] = NoResume
      /\ UNCHANGED <<out[c], phase[c], scr[c], me[c], up[c], fwd[c], old[c]>>
      /\ fwd[c].st = "none" /\ old[c].st = "none"
  BY <1>1 DEF AttachCut, ServerType, ClientType, clientVars, StreamInv
<1>3. StreamInv(c)'
  BY <1>1, <1>2, StreamMoves
<1>4. ScreenInv(c)'
  BY <1>1, <1>2, ScreenMoves
<1>5. PICK e \in Epoch, o \in Int :
        e = slot /\ o = IF req[c].e = slot THEN req[c].off ELSE NoOffset
  <2>1. slot \in Epoch
    BY <1>2 DEF IInv, LockInv
  <2>2. req[c].off \in Int /\ NoOffset \in Int
    BY ClientTypes DEF Resume, NoOffset
  <2>3. QED
    BY <2>1, <2>2
<1>6. PICK s \in [total : Nat, lo : Nat, hi : Nat] :
        s = sb[e] /\ s.hi = s.total /\ s.lo <= s.hi /\ s.total <= MaxTotal
  BY StreamAssumption DEF IInv, TypeOK, ShellType, RingInv, RingIsTail, ChunkInv
<1>7. PICK k : k = Cut(s, o)
  OBVIOUS
<1>8. /\ k.t \in {"resume", "replay"} /\ k.base \in Nat /\ k.lo \in Nat /\ k.hi \in Nat
      /\ k.lo <= k.hi /\ k.hi = s.total /\ k.base = k.lo
      /\ k.t = "resume" => k.base = o /\ o # NoOffset
  <2>1. k.t = "resume" => o # NoOffset
    BY <1>7 DEF Cut
  <2>2. QED
    BY <1>6, <1>7, <2>1, CutInRing
<1>9. /\ att'[c].t = k.t /\ att'[c].e = e /\ att'[c].base = k.base /\ att'[c].lo = k.lo
      /\ att'[c].hi = k.hi /\ att'[c].rx = sent[e] + 1
  BY <1>1, <1>5, <1>6, <1>7 DEF AttachCut, ServerType, Subscribe
<1>10. AttachInv(c)'
  <2>1. Written(Data(e, k.lo, k.hi))'
    BY <1>6, <1>8 DEF Written, Data, IsClosed
  <2>2. Start(e, sent[e] + 1)' = k.hi
    <3>1. sent'[e] \in Nat /\ sent[e] = sent'[e]
      BY DEF IInv, TypeOK, ShellType
    <3>2. QED
      BY <1>6, <1>8, <3>1 DEF Start
  <2>3. QED
    BY <1>2, <1>8, <1>9, <2>1, <2>2 DEF AttachInv
<1>11. /\ Frozen(c)' = Frozen(c) /\ \A d, p : Shows(c, d, p)' = Shows(c, d, p)
       /\ \A r : Honest(c, r)' = Honest(c, r)
  BY <1>2 DEF Frozen, NoHello, Shows, Honest
<1>12. k.t = "resume" => Frozen(c)' /\ Shows(c, e, k.base)'
  <2>1. SUFFICES ASSUME k.t = "resume" PROVE Frozen(c) /\ Shows(c, e, k.base)
    BY <1>11
  <2>2. req[c].e = e /\ req[c].off = k.base
    BY <1>5, <1>8, <2>1
  <2>3. req[c] # NoResume
    BY <2>2 DEF NoResume, NoEpoch, Epoch
  <2>4. Frozen(c) /\ Honest(c, req[c])
    BY <1>1, <2>3 DEF ResumeInv
  <2>5. k.base <= MaxTotal
    BY <1>6, <1>8, StreamAssumption
  <2>6. QED
    BY <2>2, <2>4, <2>5 DEF Honest
<1>13. ResumeInv(c)'
  <2>1. \A i \in 1..Len(up'[c]) : up'[c][i].t = "open" /\ up'[c][i].resume = NoResume
    BY <1>1, <1>2 DEF ResumeInv
  <2>2. pc'[c] \in {"watch", "hello"} /\ att'[c].t = "resume" => Frozen(c)' /\ Shows(c, att[c].e, att[c].base)'
    BY <1>9, <1>12
  <2>3. \A i \in 1..Len(out'[c]) : out'[c][i].t = "resume" =>
          /\ phase'[c] = "await" /\ Shows(c, out[c][i].e, out[c][i].lo)'
          /\ \A j \in 1..(i - 1) : ~IsHello(out'[c][j])
    BY <1>1, <1>2 DEF ResumeInv, Shows
  <2>4. QED
    BY <1>2, <2>1, <2>2, <2>3 DEF ResumeInv
<1>14. QED
  BY <1>3, <1>4, <1>10, <1>13 DEF ClientView

\* The hello is the point the replay and the chunks after it continue.
LEMMA HelloView ==
  ASSUME IInv, ChunkInv, StreamKept, NEW c \in Client, ClientView(c), SendHello(c), UNCHANGED <<sb, chunks, sent>>
  PROVE  ClientView(c)'
<1>1. /\ StreamInv(c) /\ AttachInv(c) /\ ResumeInv(c) /\ ScreenInv(c)
      /\ ServerType /\ ClientType
  BY DEF ClientView, IInv, TypeOK
<1>2. PICK a, f : a \in Attach /\ a = att[c] /\ f = Hello(a.t, a.e, a.base)
  BY ClientTypes
<1>3. a.t \in {"resume", "replay"} /\ a.e \in Epoch
  BY <1>2 DEF SendHello, IInv, TaskInv, Attach
<1>4. f \in Frame /\ f.t = a.t /\ f.e = a.e /\ f.lo = a.base /\ f.hi = a.base
  BY <1>2, <1>3 DEF Hello, Frame, FrameType, Attach
<1>5. /\ pc[c] = "hello" /\ pc'[c] = "replay" /\ out'[c] = Append(out[c], f)
      /\ UNCHANGED <<phase[c], scr[c], me[c], up[c], req[c], att[c], fwd[c], old[c]>>
      /\ fwd[c].st = "none" /\ old[c].st = "none"
  BY <1>1, <1>2 DEF SendHello, ServerType, ClientType, clientVars, StreamInv
<1>6. a.base = a.lo /\ Written(Data(a.e, a.lo, a.hi)) /\ (a.rx >= Oldest(a.e) => Start(a.e, a.rx) = a.hi)
  BY <1>1, <1>2, <1>5 DEF AttachInv
<1>7. Written(f)
  <2>1. a.lo \in Nat /\ a.hi \in Nat /\ sb[a.e].total \in Nat
    BY <1>2, <1>3 DEF Attach, IInv, TypeOK, ShellType
  <2>2. a.lo <= a.hi /\ a.hi <= sb[a.e].total
    BY <1>6 DEF Written, Data, IsClosed
  <2>3. f.lo = a.lo /\ f.hi = a.lo /\ a.lo <= sb[a.e].total
    BY <1>4, <1>6, <2>1, <2>2
  <2>4. QED
    BY <1>3, <1>4, <2>1, <2>3 DEF Written
<1>8. Link(Tip(c), f)
  BY <1>3, <1>4 DEF Link, Continues
<1>9. /\ Chain(Eye(c), out[c])' /\ Tip(c)' = f
      /\ \A i \in 1..Len(out'[c]) : Written(out[c][i])'
  BY <1>1, <1>4, <1>5, <1>7, <1>8, QueuedStream
<1>10. StreamInv(c)'
  <2>1. PICK t \in Task, u \in Task : t = fwd[c] /\ u = old[c] /\ t.st = "none" /\ u.st = "none"
    BY <1>5, ClientTypes
  <2>2. t.hand = <<>> /\ u.hand = <<>>
    BY <1>1, <2>1 DEF StreamInv, TaskView
  <2>3. TaskView(f, t)' /\ TaskView(f, u)'
    BY <2>1, <2>2 DEF TaskView, Chain
  <2>4. TaskView(Tip(c), fwd[c])' /\ TaskView(Tip(c), old[c])'
    BY <1>5, <1>9, <2>1, <2>3
  <2>5. QED
    BY <1>5, <1>9, <2>4 DEF StreamInv
<1>11. AttachInv(c)'
  <2>1. Link(f, Mark(a.e, a.lo))
    BY <1>3, <1>4, <1>6 DEF Link, Mark, Data
  <2>2. /\ Written(Data(a.e, a.lo, a.hi))' /\ (a.rx >= Oldest(a.e) => Start(a.e, a.rx) = a.hi)'
    BY <1>6 DEF Written, Oldest, Start, ChunkAt
  <2>3. QED
    BY <1>2, <1>5, <1>6, <1>9, <2>1, <2>2 DEF AttachInv
<1>12. ScreenInv(c)'
  BY <1>1, <1>5, ScreenMoves
<1>13. ResumeInv(c)'
  <2>1. PICK s \in Seq(Frame), n \in Nat : s = out[c] /\ n = Len(s)
    BY ClientTypes
  <2>2. /\ Len(out'[c]) = n + 1 /\ out'[c][n + 1] = f
        /\ \A i \in 1..n : out'[c][i] = out[c][i]
    BY <1>4, <1>5, <2>1, AppendProperties
  <2>3. \A i \in 1..(n + 1) : (i \in 1..n \/ i = n + 1) /\ \A j \in 1..(i - 1) : j \in 1..n
    OBVIOUS
  <2>4. \A e, p : Shows(c, e, p)' = Shows(c, e, p)
    BY <1>5 DEF Shows
  <2>5. ASSUME NEW i \in 1..Len(out'[c]), out'[c][i].t = "resume"
        PROVE  /\ phase'[c] = "await" /\ Shows(c, out[c][i].e, out[c][i].lo)'
               /\ \A j \in 1..(i - 1) : ~IsHello(out'[c][j])
    <3>1. i \in 1..(n + 1)
      BY <2>2
    <3>2. CASE i = n + 1
      <4>1. a.t = "resume"
        BY <1>4, <2>2, <2>5, <3>2
      <4>2. Frozen(c) /\ Shows(c, a.e, a.base)
        BY <1>1, <1>2, <1>5, <4>1 DEF ResumeInv
      <4>3. \A j \in 1..n : ~IsHello(out[c][j])
        BY <2>1, <4>2 DEF Frozen, NoHello
      <4>4. out'[c][i] = f
        BY <2>2, <3>2
      <4>5. Shows(c, a.e, a.base)'
        BY <2>4, <4>2
      <4>6. Shows(c, out[c][i].e, out[c][i].lo)'
        BY <1>4, <4>4, <4>5
      <4>7. \A j \in 1..(i - 1) : ~IsHello(out'[c][j])
        BY <2>2, <2>3, <3>1, <4>3
      <4>8. QED
        BY <1>5, <4>2, <4>6, <4>7 DEF Frozen
    <3>3. CASE i \in 1..n
      <4>1. out[c][i].t = "resume" /\ out'[c][i] = out[c][i] /\ i \in 1..Len(out[c])
        BY <2>1, <2>2, <2>5, <3>3
      <4>2. phase[c] = "await" /\ Shows(c, out[c][i].e, out[c][i].lo) /\ \A j \in 1..(i - 1) : ~IsHello(out[c][j])
        BY <1>1, <4>1 DEF ResumeInv
      <4>3. Shows(c, out[c][i].e, out[c][i].lo)'
        BY <1>5, <4>1, <4>2 DEF Shows
      <4>4. QED
        BY <1>5, <2>2, <2>3, <3>1, <4>2, <4>3
    <3>4. QED
      BY <2>3, <3>1, <3>2, <3>3
  <2>6. \A i \in 1..Len(up'[c]) : up'[c][i].t = "open" /\ up'[c][i].resume = NoResume
    BY <1>1, <1>5 DEF ResumeInv
  <2>7. req'[c] = NoResume /\ ~(pc'[c] \in {"watch", "hello"})
    BY <1>1, <1>5 DEF ResumeInv
  <2>8. QED
    BY <2>5, <2>6, <2>7 DEF ResumeInv
<1>14. QED
  BY <1>10, <1>11, <1>12, <1>13 DEF ClientView

\* The replay ends where the first chunk of the new task begins.
LEMMA ReplayView ==
  ASSUME IInv, ChunkInv, StreamKept, NEW c \in Client, ClientView(c), SendReplay(c), UNCHANGED <<sb, chunks, sent>>
  PROVE  ClientView(c)'
<1>1. /\ StreamInv(c) /\ AttachInv(c) /\ ResumeInv(c) /\ ScreenInv(c)
      /\ ServerType /\ ClientType
  BY DEF ClientView, IInv, TypeOK
<1>2. PICK a, f : a \in Attach /\ a = att[c] /\ f = Data(a.e, a.lo, a.hi)
  BY ClientTypes
<1>3. PICK t : t = [st |-> "run", e |-> a.e, rx |-> a.rx, seen |-> a.seen, hand |-> <<>>]
  OBVIOUS
<1>4. f \in Frame /\ ~IsHello(f)
  <2>1. a.e \in 0..MaxEpoch /\ a.lo \in Nat /\ a.hi \in Nat
    BY <1>2 DEF Attach
  <2>2. QED
    BY <1>2, <2>1 DEF Data, Frame, FrameType, IsHello
<1>5. /\ pc[c] = "replay" /\ pc'[c] = "idle" /\ out'[c] = Append(out[c], f) /\ fwd'[c] = t
      /\ UNCHANGED <<phase[c], scr[c], me[c], up[c], req[c], old[c]>>
      /\ old[c].st = "none"
  BY <1>1, <1>2, <1>3 DEF SendReplay, ServerType, ClientType, clientVars, StreamInv
<1>6. Written(f) /\ Link(Tip(c), Mark(a.e, a.lo)) /\ (a.rx >= Oldest(a.e) => Start(a.e, a.rx) = a.hi)
  BY <1>1, <1>2, <1>5 DEF AttachInv
<1>7. Link(Tip(c), f)
  BY <1>2, <1>6 DEF Link, Mark, Data, Continues
<1>8. /\ Chain(Eye(c), out[c])' /\ Tip(c)' = f
      /\ \A i \in 1..Len(out'[c]) : Written(out[c][i])'
  BY <1>1, <1>4, <1>5, <1>6, <1>7, QueuedStream
<1>9. StreamInv(c)'
  <2>1. PICK u \in Task : u = old[c] /\ u.st = "none"
    BY <1>5, ClientTypes
  <2>2. u.hand = <<>>
    BY <1>1, <2>1 DEF StreamInv, TaskView
  <2>3. TaskView(f, u)'
    BY <2>1, <2>2 DEF TaskView, Chain
  <2>4. a.rx >= Oldest(a.e)' => Link(f, Mark(a.e, Start(a.e, a.rx)))'
    BY <1>2, <1>6 DEF Oldest, Start, ChunkAt, Link, Mark, Data
  <2>5. TaskView(f, t)'
    BY <1>3, <2>4 DEF TaskView, Chain, LastOf
  <2>6. TaskView(Tip(c), fwd[c])' /\ TaskView(Tip(c), old[c])'
    BY <1>5, <1>8, <2>1, <2>3, <2>5
  <2>7. QED
    BY <1>5, <1>8, <2>6 DEF StreamInv
<1>10. AttachInv(c)'
  BY <1>5 DEF AttachInv
<1>11. ScreenInv(c)'
  BY <1>1, <1>5, ScreenMoves
<1>12. ResumeInv(c)'
  BY <1>1, <1>4, <1>5, QueuedResume
<1>13. QED
  BY <1>9, <1>10, <1>11, <1>12 DEF ClientView

\* A task takes from its channels what comes next, whether it forwards or is
\* finishing its last poll.
LEMMA ArmView ==
  ASSUME IInv, ChunkInv, StreamKept, NEW c \in Client, ClientView(c),
         NEW a \in Arm, ForwardArm(c, a) \/ AbortedArm(c, a)
  PROVE  ClientView(c)'
<1>1. /\ StreamInv(c) /\ AttachInv(c) /\ ResumeInv(c) /\ ScreenInv(c)
      /\ ServerType /\ ClientType /\ TypeOK
  BY DEF ClientView, IInv, TypeOK
<1>2. PICK x, f, o :
        /\ f \in Task /\ o \in Task /\ x = Tip(c) /\ f = fwd[c] /\ o = old[c] /\ TaskOK(f) /\ TaskOK(o)
  BY ClientTypes
<1>3. /\ UNCHANGED <<out[c], phase[c], scr[c], me[c], up[c], req[c], att[c], pc[c]>>
      /\ \/ fwd'[c] = Take(f, a) /\ Ready(f, a) /\ old'[c] = o
         \/ old'[c] = Take(o, a) /\ Ready(o, a) /\ fwd'[c] = f
  BY <1>1, <1>2 DEF ForwardArm, AbortedArm, ServerType, ClientType, clientVars
<1>4. x = Tip(c)' /\ Eye(c)' = Eye(c)
  BY <1>2, <1>3 DEF Tip, Eye
<1>5. TaskView(x, f) /\ TaskView(x, o)
  BY <1>1, <1>2 DEF StreamInv
<1>6. ASSUME NEW t \in Task, TaskOK(t), TaskView(x, t) PROVE TaskView(x, t)'
  BY <1>6, TaskKept DEF Covers
<1>7. ASSUME NEW t \in Task, TaskOK(t), TaskView(x, t), Ready(t, a), NEW u, u = Take(t, a)
      PROVE  TaskView(x, u)'
  <2>1. u \in Task /\ TaskOK(u)
    BY <1>1, <1>7, TakeTask
  <2>2. TaskView(x, u)
    BY <1>7, TakeView
  <2>3. QED
    BY <1>6, <2>1, <2>2
<1>8. TaskView(Tip(c), fwd[c])' /\ TaskView(Tip(c), old[c])'
  <2>1. PICK F, O : F = fwd'[c] /\ O = old'[c]
    OBVIOUS
  <2>2. TaskView(x, F)' /\ TaskView(x, O)'
    BY <1>2, <1>3, <1>5, <1>6, <1>7, <2>1
  <2>3. QED
    BY <1>4, <2>1, <2>2
<1>9. /\ (old[c].st # "none" => pc[c] = "join")'
      /\ (fwd[c].st # "none" => pc[c] = "idle")'
  BY <1>1, <1>2, <1>3 DEF StreamInv, Ready
<1>10. ASSUME NEW i \in 1..Len(out[c]) PROVE Written(out[c][i])'
  <2>1. PICK g \in Frame : g = out[c][i]
    BY ClientTypes, ElementOfSeq
  <2>2. Written(g)'
    BY <1>1, <2>1 DEF StreamInv, StreamKept
  <2>3. QED
    BY <1>3, <2>1, <2>2
<1>11. Chain(Eye(c), out[c])'
  BY <1>1, <1>3, <1>4 DEF StreamInv
<1>12. StreamInv(c)'
  BY <1>3, <1>8, <1>9, <1>10, <1>11 DEF StreamInv
<1>13. AttachInv(c)'
  BY <1>1, <1>3, AttachMoves
<1>14. ResumeInv(c)'
  BY <1>1, <1>3, ResumeMoves
<1>15. ScreenInv(c)'
  BY <1>1, <1>3, ScreenMoves
<1>16. QED
  BY <1>12, <1>13, <1>14, <1>15 DEF ClientView

\* What a task sends continues what is under way, and the task goes on after it.
LEMMA SendView ==
  ASSUME IInv, ChunkInv, StreamKept, NEW c \in Client, ClientView(c), ForwardSend(c) \/ AbortedSend(c)
  PROVE  ClientView(c)'
<1>1. /\ StreamInv(c) /\ AttachInv(c) /\ ResumeInv(c) /\ ScreenInv(c)
      /\ ServerType /\ ClientType /\ TypeOK
  BY DEF ClientView, IInv, TypeOK
<1>2. PICK x, f, o :
        /\ f \in Task /\ o \in Task /\ x = Tip(c) /\ f = fwd[c] /\ o = old[c] /\ TaskOK(f) /\ TaskOK(o)
        /\ TaskView(x, f) /\ TaskView(x, o)
        /\ (f.st # "none" => pc[c] = "idle") /\ (o.st # "none" => pc[c] = "join")
  BY <1>1, ClientTypes DEF StreamInv
<1>3. PICK t \in {f, o}, u \in {f, o} :
        /\ UNCHANGED <<phase[c], scr[c], me[c], up[c], req[c], att[c], pc[c]>>
        /\ t.hand # <<>> /\ out'[c] = Append(out[c], Head(t.hand))
        /\ \/ t = f /\ u = o /\ fwd'[c] = AfterSend(t) /\ old'[c] = u
           \/ t = o /\ u = f /\ old'[c] = AfterSend(t) /\ fwd'[c] = u
  <2>1. CASE ForwardSend(c)
    BY <1>1, <1>2, <2>1 DEF ForwardSend, ServerType, ClientType, clientVars
  <2>2. CASE AbortedSend(c)
    BY <1>1, <1>2, <2>2 DEF AbortedSend, ServerType, ClientType, clientVars
  <2>3. QED
    BY <2>1, <2>2
<1>4. PICK h, v : v \in Task /\ h = Head(t.hand) /\ v = AfterSend(t) /\ TaskOK(v) /\ (v.st # "none" => v.st = t.st)
  BY <1>2, <1>3, AfterSendTask, StreamAssumption
<1>5. /\ Link(x, h) /\ h \in Frame /\ t.st # "none" /\ Written(h) /\ ~IsHello(h) /\ TaskView(h, v)
  BY <1>2, <1>3, <1>4, AfterSendView
<1>6. u.st = "none" /\ u.hand = <<>>
  BY <1>2, <1>3, <1>5 DEF TaskView
<1>7. /\ Chain(Eye(c), out[c])' /\ Tip(c)' = h
      /\ \A i \in 1..Len(out'[c]) : Written(out[c][i])'
  BY <1>1, <1>2, <1>3, <1>4, <1>5, QueuedStream
<1>8. TaskView(h, v)' /\ TaskView(h, u)'
  <2>1. TaskView(h, v)'
    BY <1>4, <1>5, TaskKept DEF Covers
  <2>2. TaskView(h, u)'
    BY <1>6 DEF TaskView, Chain
  <2>3. QED
    BY <2>1, <2>2
<1>9. TaskView(Tip(c), fwd[c])' /\ TaskView(Tip(c), old[c])'
  <2>1. PICK F, O : F = fwd'[c] /\ O = old'[c] /\ F \in {u, v} /\ O \in {u, v}
    BY <1>3, <1>4
  <2>2. TaskView(h, F)' /\ TaskView(h, O)'
    BY <1>8, <2>1
  <2>3. QED
    BY <1>7, <2>1, <2>2
<1>10. /\ (old[c].st # "none" => pc[c] = "join")'
       /\ (fwd[c].st # "none" => pc[c] = "idle")'
  BY <1>2, <1>3, <1>4, <1>6
<1>11. StreamInv(c)'
  BY <1>7, <1>9, <1>10 DEF StreamInv
<1>12. AttachInv(c)'
  BY <1>2, <1>3, <1>5 DEF AttachInv
<1>13. ResumeInv(c)'
  BY <1>1, <1>3, <1>4, <1>5, QueuedResume
<1>14. ScreenInv(c)'
  BY <1>1, <1>3, ScreenMoves
<1>15. QED
  BY <1>11, <1>12, <1>13, <1>14 DEF ClientView

\* Every other step of the main loop moves no frame; a task may be gone.
LEMMA LoopView ==
  ASSUME IInv, ChunkInv, StreamKept, NEW c \in Client, ClientView(c),
         \/ JoinOld(c) \/ AttachLive(c) \/ AttachDead(c) \/ AttachSpawn(c) \/ AttachFail(c)
         \/ AttachWatch(c) \/ AbortedGone(c)
  PROVE  ClientView(c)'
<1>1. /\ StreamInv(c) /\ AttachInv(c) /\ ResumeInv(c) /\ ScreenInv(c)
      /\ ServerType /\ ClientType
  BY DEF ClientView, IInv, TypeOK
<1>2. /\ old[c].st # "none" => pc[c] = "join"
      /\ fwd[c].st # "none" => pc[c] = "idle"
  BY <1>1 DEF StreamInv
<1>3. /\ UNCHANGED <<out[c], phase[c], scr[c], me[c], up[c], fwd[c]>>
      /\ att'[c].t = att[c].t /\ att'[c].e = att[c].e /\ att'[c].base = att[c].base
      /\ att'[c].lo = att[c].lo /\ att'[c].hi = att[c].hi /\ att'[c].rx = att[c].rx
      /\ req'[c] = req[c] \/ (req'[c] = NoResume /\ pc'[c] = "fail")
      /\ old'[c] = NoTask \/ (old'[c] = old[c] /\ (pc'[c] = pc[c] \/ old[c].st = "none"))
      /\ \/ pc'[c] = pc[c]
         \/ pc[c] \in {"join", "attach", "spawn"} /\ pc'[c] \in {"attach", "spawn", "cut", "fail"}
            /\ (pc'[c] = "fail" => req'[c] = NoResume)
         \/ pc[c] = "watch" /\ pc'[c] = "hello" /\ req'[c] = req[c]
  <2>1. CASE AbortedGone(c)
    BY <1>1, <2>1 DEF AbortedGone, ServerType, ClientType, clientVars
  <2>2. CASE JoinOld(c)
    BY <1>1, <2>2 DEF JoinOld, ServerType, ClientType, clientVars
  <2>3. CASE AttachLive(c) \/ AttachDead(c) \/ AttachSpawn(c) \/ AttachFail(c)
    <3>1. pc[c] \in {"attach", "spawn"} /\ old[c].st = "none"
      BY <1>2, <2>3 DEF AttachLive, AttachDead, AttachSpawn, AttachFail
    <3>2. UNCHANGED <<out, phase, scr, me, up, fwd, old, att>>
      BY <2>3 DEF AttachLive, AttachDead, AttachSpawn, AttachFail, clientVars
    <3>3. \/ pc' = [pc EXCEPT ![c] = "cut"] /\ UNCHANGED req
          \/ pc' = [pc EXCEPT ![c] = "spawn"] /\ UNCHANGED req
          \/ pc' = [pc EXCEPT ![c] = "fail"] /\ req' = [req EXCEPT ![c] = NoResume]
      BY <2>3 DEF AttachLive, AttachDead, AttachSpawn, AttachFail
    <3>4. QED
      BY <1>1, <3>1, <3>2, <3>3 DEF ServerType
  <2>4. CASE AttachWatch(c)
    <3>1. att[c] \in Attach /\ att'[c] = [att[c] EXCEPT !.seen = shut[att[c].e].ver]
      BY <1>1, <2>4 DEF AttachWatch, ServerType
    <3>2. old[c].st = "none" /\ pc[c] = "watch" /\ pc'[c] = "hello"
      BY <1>1, <1>2, <2>4 DEF AttachWatch, ServerType
    <3>3. UNCHANGED <<out, phase, scr, me, up, fwd, old, req>>
      BY <2>4 DEF AttachWatch, clientVars
    <3>4. QED
      BY <3>1, <3>2, <3>3 DEF Attach
  <2>5. QED
    BY <2>1, <2>2, <2>3, <2>4
<1>4. StreamInv(c)'
  <2>1. fwd'[c] = fwd[c] /\ (fwd[c].st # "none" => pc'[c] = "idle")
    BY <1>2, <1>3
  <2>2. \/ old'[c] = NoTask
        \/ old'[c] \in {fwd[c], old[c]} /\ (old'[c].st # "none" => pc'[c] = "join")
    BY <1>2, <1>3
  <2>3. QED
    BY <1>1, <1>3, <2>1, <2>2, StreamMoves
<1>5. AttachInv(c)'
  BY <1>1, <1>3, AttachMoves
<1>6. ResumeInv(c)'
  BY <1>1, <1>3, ResumeMoves
<1>7. ScreenInv(c)'
  BY <1>1, <1>3, ScreenMoves
<1>8. QED
  BY <1>4, <1>5, <1>6, <1>7 DEF ClientView

\* After a failed spawn the client is told, and nothing continues.
LEMMA FailView ==
  ASSUME IInv, ChunkInv, StreamKept, NEW c \in Client, ClientView(c), SendFailed(c)
  PROVE  ClientView(c)'
<1>1. /\ StreamInv(c) /\ AttachInv(c) /\ ResumeInv(c) /\ ScreenInv(c)
      /\ ServerType /\ ClientType
  BY DEF ClientView, IInv, TypeOK
<1>2. PICK f : f = Closed("error", NoEpoch)
  OBVIOUS
<1>3. f \in Frame /\ ~IsHello(f) /\ Written(f) /\ Link(Tip(c), f)
  BY <1>2, StreamAssumption DEF Closed, Frame, FrameType, NoEpoch, IsHello, Written, IsClosed, Link, Continues
<1>4. /\ pc[c] = "fail" /\ pc'[c] = "idle" /\ out'[c] = Append(out[c], f)
      /\ UNCHANGED <<phase[c], scr[c], me[c], up[c], req[c], fwd[c], old[c]>>
      /\ fwd[c].st = "none" /\ old[c].st = "none"
  BY <1>1, <1>2 DEF SendFailed, ServerType, ClientType, clientVars, StreamInv
<1>5. /\ Chain(Eye(c), out[c])' /\ Tip(c)' = f
      /\ \A i \in 1..Len(out'[c]) : Written(out[c][i])'
  BY <1>1, <1>3, <1>4, QueuedStream
<1>6. StreamInv(c)'
  <2>1. PICK t \in Task, u \in Task : t = fwd[c] /\ u = old[c] /\ t.st = "none" /\ u.st = "none"
    BY <1>4, ClientTypes
  <2>2. t.hand = <<>> /\ u.hand = <<>>
    BY <1>1, <2>1 DEF StreamInv, TaskView
  <2>3. TaskView(f, t)' /\ TaskView(f, u)'
    BY <2>1, <2>2 DEF TaskView, Chain
  <2>4. TaskView(Tip(c), fwd[c])' /\ TaskView(Tip(c), old[c])'
    BY <1>4, <1>5, <2>1, <2>3
  <2>5. QED
    BY <1>4, <1>5, <2>4 DEF StreamInv
<1>7. AttachInv(c)'
  BY <1>4 DEF AttachInv
<1>8. ResumeInv(c)'
  BY <1>1, <1>3, <1>4, QueuedResume
<1>9. ScreenInv(c)'
  BY <1>1, <1>4, ScreenMoves
<1>10. QED
  BY <1>6, <1>7, <1>8, <1>9 DEF ClientView

\* Every step of the server on behalf of a client keeps what it is shown whole.
LEMMA ServerView ==
  ASSUME IInv, ChunkInv, NEW c \in Client, ClientView(c), MainLoop(c) \/ Forward(c) \/ Aborted(c)
  PROVE  ClientView(c)'
<1>1. UNCHANGED <<sb, chunks, sent>> /\ StreamKept
  BY OutputQuiet, StreamSame
<1>2. ~HandleClose(c)
  <2>1. ASSUME HandleClose(c) PROVE FALSE
    <3>1. up[c] \in Seq(UpFrame) /\ up[c] # <<>> /\ Head(up[c]).t = "close"
      BY <2>1, ClientTypes DEF HandleClose
    <3>2. 1 \in 1..Len(up[c]) /\ Head(up[c]) = up[c][1]
      BY <3>1, EmptySeq, HeadTailProperties
    <3>3. QED
      BY <3>1, <3>2 DEF ClientView, ResumeInv
  <2>2. QED
    BY <2>1
<1>3. CASE MainLoop(c)
  BY <1>1, <1>2, <1>3, OpenView, CutView, HelloView, ReplayView, FailView, LoopView DEF MainLoop
<1>4. CASE Forward(c) \/ Aborted(c)
  BY <1>1, <1>4, ArmView, SendView, LoopView DEF Forward, Aborted
<1>5. QED
  BY <1>3, <1>4

----------------------------------------------------------------------------
(* The steps of the clients. *)

\* A dead socket leaves nothing under way.
LEMMA DropView ==
  ASSUME IInv, StreamKept, NEW c \in Client, ClientView(c), Drop(c)
  PROVE  ClientView(c)'
<1>1. /\ StreamInv(c) /\ AttachInv(c) /\ ResumeInv(c) /\ ScreenInv(c)
      /\ ServerType /\ ClientType
  BY DEF ClientView, IInv, TypeOK
<1>2. /\ out'[c] = <<>> /\ up'[c] = <<>> /\ pc'[c] = "idle" /\ req'[c] = NoResume
      /\ fwd'[c] = NoTask /\ old'[c] = NoTask
      /\ UNCHANGED <<phase[c], scr[c], me[c]>>
  BY <1>1 DEF Drop, ServerType, ClientType, clientVars
<1>3. Len(<<>>) = 0
  OBVIOUS
<1>4. StreamInv(c)'
  <2>1. PICK x, t : x = Tip(c)' /\ t = NoTask
    OBVIOUS
  <2>2. TaskView(x, t)'
    BY <2>1 DEF NoTask, TaskView, Chain
  <2>3. TaskView(Tip(c), fwd[c])' /\ TaskView(Tip(c), old[c])'
    BY <1>2, <2>1, <2>2
  <2>4. Chain(Eye(c), out[c])'
    BY <1>2, <1>3 DEF Chain
  <2>5. QED
    BY <1>2, <1>3, <2>3, <2>4 DEF StreamInv, NoTask
<1>5. AttachInv(c)'
  BY <1>2 DEF AttachInv
<1>6. ResumeInv(c)'
  BY <1>2, <1>3 DEF ResumeInv
<1>7. ScreenInv(c)'
  BY <1>1, <1>2, ScreenMoves
<1>8. QED
  BY <1>4, <1>5, <1>6, <1>7 DEF ClientView

\* A client that sends an open awaits its hello.  It asks to go on from where
\* its screen stands, or from nowhere.
LEMMA SendOpenView ==
  ASSUME IInv, ChunkInv, StreamKept, UNCHANGED <<sb, chunks, sent>>,
         NEW c \in Client, ClientView(c), NEW r \in Resumes(c), SendOpen(c, r)
  PROVE  ClientView(c)'
<1>1. /\ StreamInv(c) /\ AttachInv(c) /\ ResumeInv(c) /\ ScreenInv(c)
      /\ ServerType /\ ClientType
  BY DEF ClientView, IInv, TypeOK
<1>2. PICK s, x, y, f, o :
        /\ s \in Seq(Frame) /\ s = out[c] /\ x = Eye(c) /\ y = Anything
        /\ f \in Task /\ f = fwd[c] /\ TaskOK(f) /\ o \in Task /\ o = old[c] /\ TaskOK(o)
  BY ClientTypes
<1>3. /\ phase'[c] = "await" /\ up'[c] = Append(up[c], [t |-> "open", resume |-> r])
      /\ UNCHANGED <<out[c], scr[c], me[c], pc[c], req[c], att[c], fwd[c], old[c]>>
  BY <1>1 DEF SendOpen, ServerType, ClientType, serverVars
<1>4. Covers(x, y) /\ y = Eye(c)'
  BY <1>2, <1>3 DEF Covers, Link, Anything, Eye
<1>5. Chain(x, s) /\ Tip(c) = LastOf(x, s) /\ Tip(c)' = LastOf(y, s)
  BY <1>1, <1>2, <1>3, <1>4 DEF StreamInv, Tip
<1>6. Chain(y, s) /\ Covers(LastOf(x, s), LastOf(y, s))
  BY <1>2, <1>4, <1>5, ChainCovers
<1>7. PICK X, Y : X = LastOf(x, s) /\ Y = LastOf(y, s)
  OBVIOUS
<1>8. StreamInv(c)'
  <2>1. TaskView(X, f) /\ TaskView(X, o)
    BY <1>1, <1>2, <1>5, <1>7 DEF StreamInv
  <2>2. TaskView(Y, f)' /\ TaskView(Y, o)'
    BY <1>2, <1>6, <1>7, <2>1, TaskKept
  <2>3. TaskView(Tip(c), fwd[c])' /\ TaskView(Tip(c), old[c])'
    BY <1>2, <1>3, <1>5, <1>7, <2>2
  <2>4. Chain(Eye(c), out[c])'
    BY <1>2, <1>3, <1>4, <1>6
  <2>5. ASSUME NEW i \in 1..Len(out[c]) PROVE Written(out[c][i])'
    <3>1. PICK g \in Frame : g = out[c][i]
      BY ClientTypes, ElementOfSeq
    <3>2. Written(g)'
      BY <1>1, <3>1 DEF StreamInv, StreamKept
    <3>3. QED
      BY <1>3, <3>1, <3>2
  <2>6. QED
    BY <1>1, <1>3, <2>3, <2>4, <2>5 DEF StreamInv
<1>9. AttachInv(c)'
  <2>1. ASSUME pc[c] \in {"watch", "hello", "replay"}
        PROVE  (/\ att[c].base = att[c].lo
                /\ Written(Data(att[c].e, att[c].lo, att[c].hi))
                /\ att[c].rx >= Oldest(att[c].e) => Start(att[c].e, att[c].rx) = att[c].hi)'
    BY <1>1, <1>3, <2>1 DEF AttachInv, Written, Oldest, Start, ChunkAt
  <2>2. ASSUME pc[c] = "replay" PROVE Link(Tip(c), Mark(att[c].e, att[c].lo))'
    <3>1. PICK m : m = Mark(att[c].e, att[c].lo)
      OBVIOUS
    <3>2. att[c].e \in 0..MaxEpoch /\ att[c].lo \in Nat
      BY ClientTypes DEF Attach
    <3>3. m \in Frame
      BY <3>1, <3>2 DEF Mark, Data, Frame, FrameType
    <3>4. Link(X, m)
      BY <1>1, <1>5, <1>7, <2>2, <3>1 DEF AttachInv
    <3>5. Link(Y, m)
      BY <1>6, <1>7, <3>3, <3>4 DEF Covers
    <3>6. QED
      BY <1>3, <1>5, <1>7, <3>1, <3>5
  <2>3. QED
    BY <1>3, <2>1, <2>2 DEF AttachInv
<1>10. ScreenInv(c)'
  BY <1>1, <1>3, ScreenMoves
<1>11. Frozen(c)' <=> NoHello(c)
  BY <1>3 DEF Frozen, NoHello
<1>12. /\ \A e, p : Shows(c, e, p)' = Shows(c, e, p)
       /\ \A q : Honest(c, q)' = Honest(c, q)
  BY <1>3 DEF Shows, Honest
<1>13. r # NoResume => NoOpenInFlight(c) /\ Honest(c, r)
  <2>1. SUFFICES ASSUME r # NoResume PROVE NoOpenInFlight(c) /\ Honest(c, r)
    OBVIOUS
  <2>2. me[c].e # NoEpoch /\ NoOpenInFlight(c) /\ r \in {me[c], [e |-> me[c].e, off |-> MaxTotal + 1]}
    BY <2>1 DEF Resumes
  <2>3. Shows(c, me[c].e, me[c].off)
    BY <1>1, <2>2 DEF ScreenInv, Shows
  <2>4. QED
    BY <2>2, <2>3, StreamAssumption DEF Honest
<1>14. ASSUME NEW i \in 1..Len(up'[c])
       PROVE  (/\ up[c][i].t = "open"
               /\ up[c][i].resume # NoResume => i = 1 /\ pc[c] = "idle" /\ Frozen(c) /\ Honest(c, up[c][i].resume))'
  <2>1. PICK u, n : u \in Seq(UpFrame) /\ u = up[c] /\ n \in Nat /\ n = Len(u)
    BY ClientTypes
  <2>2. [t |-> "open", resume |-> r] \in UpFrame
    BY ClientTypes, StreamAssumption DEF UpFrame, Resumes, NoResume, Resume, NoEpoch, NoOffset
  <2>3. /\ Len(up'[c]) = n + 1 /\ up'[c][n + 1] = [t |-> "open", resume |-> r]
        /\ \A j \in 1..n : up'[c][j] = u[j]
    BY <1>3, <2>1, <2>2, AppendProperties
  <2>4. CASE i \in 1..n
    <3>1. PICK g : g = u[i] /\ g = up'[c][i]
      BY <2>3, <2>4
    <3>2. g.t = "open" /\ (g.resume # NoResume => i = 1 /\ pc[c] = "idle" /\ Frozen(c) /\ Honest(c, g.resume))
      BY <1>1, <2>1, <2>4, <3>1 DEF ResumeInv
    <3>3. g.resume # NoResume => Frozen(c)' /\ Honest(c, g.resume)'
      BY <1>11, <1>12, <3>2 DEF Frozen
    <3>4. QED
      BY <1>3, <3>1, <3>2, <3>3
  <2>5. CASE i = n + 1
    <3>1. up'[c][i].t = "open" /\ up'[c][i].resume = r
      BY <2>3, <2>5
    <3>2. r # NoResume => n = 0
      <4>1. SUFFICES ASSUME r # NoResume, n # 0 PROVE FALSE
        OBVIOUS
      <4>2. 1 \in 1..Len(up[c])
        BY <2>1, <4>1
      <4>3. up[c][1].t = "open"
        BY <1>1, <4>2 DEF ResumeInv
      <4>4. QED
        BY <1>13, <4>1, <4>2, <4>3 DEF NoOpenInFlight
    <3>3. r # NoResume => pc'[c] = "idle" /\ Frozen(c)' /\ Honest(c, r)'
      BY <1>3, <1>11, <1>12, <1>13 DEF NoOpenInFlight, NoHello
    <3>4. QED
      BY <2>5, <3>1, <3>2, <3>3
  <2>6. QED
    BY <2>1, <2>3, <2>4, <2>5
<1>15. (req[c] # NoResume => pc[c] \in {"join", "attach", "spawn", "cut"} /\ Frozen(c) /\ Honest(c, req[c]))'
  BY <1>1, <1>3, <1>11, <1>12 DEF ResumeInv, Frozen
<1>16. (pc[c] \in {"watch", "hello"} /\ att[c].t = "resume" => Frozen(c) /\ Shows(c, att[c].e, att[c].base))'
  BY <1>1, <1>3, <1>11, <1>12 DEF ResumeInv, Frozen
<1>17. \A i \in 1..Len(out'[c]) : out'[c][i].t = "resume" =>
        /\ phase'[c] = "await" /\ Shows(c, out[c][i].e, out[c][i].lo)'
        /\ \A j \in 1..(i - 1) : ~IsHello(out'[c][j])
  BY <1>1, <1>3 DEF ResumeInv, Shows
<1>18. ResumeInv(c)'
  BY <1>14, <1>15, <1>16, <1>17 DEF ResumeInv
<1>19. QED
  BY <1>8, <1>9, <1>10, <1>18 DEF ClientView

\* What is left under way continues the screen that took the first frame.
LEMMA ReceivedStream ==
  ASSUME IInv, ChunkInv, StreamKept, UNCHANGED <<sb, chunks, sent>>,
         NEW c \in Client, StreamInv(c), AttachInv(c),
         NEW s \in Seq(Frame), s = out[c], s # <<>>, out'[c] = Tail(s),
         UNCHANGED <<pc[c], att[c], fwd[c], old[c]>>,
         NEW y, y = Eye(c)', Covers(s[1], y)
  PROVE  StreamInv(c)' /\ AttachInv(c)'
<1>1. PICK x, f, o :
        /\ x = Eye(c) /\ f \in Task /\ f = fwd[c] /\ TaskOK(f) /\ o \in Task /\ o = old[c] /\ TaskOK(o)
  BY ClientTypes
<1>2. Chain(x, s) /\ Tip(c) = LastOf(x, s) /\ Tip(c)' = LastOf(y, Tail(s))
  BY <1>1 DEF StreamInv, Tip
<1>3. Chain(y, Tail(s)) /\ Covers(LastOf(x, s), LastOf(y, Tail(s)))
  BY <1>2, ChainTail
<1>4. PICK X, Y : X = LastOf(x, s) /\ Y = LastOf(y, Tail(s))
  OBVIOUS
<1>5. StreamInv(c)'
  <2>1. TaskView(X, f) /\ TaskView(X, o)
    BY <1>1, <1>2, <1>4 DEF StreamInv
  <2>2. TaskView(Y, f)' /\ TaskView(Y, o)'
    BY <1>1, <1>3, <1>4, <2>1, TaskKept
  <2>3. TaskView(Tip(c), fwd[c])' /\ TaskView(Tip(c), old[c])'
    BY <1>1, <1>2, <1>4, <2>2
  <2>4. PICK b : b = Tail(s)
    OBVIOUS
  <2>5. ASSUME NEW i \in 1..Len(b) PROVE Written(b[i])'
    <3>1. b[i] = s[i + 1] /\ i + 1 \in 1..Len(s)
      BY <2>4, HeadTailProperties
    <3>2. b[i] \in Frame /\ Written(b[i])
      BY <3>1, ElementOfSeq DEF StreamInv
    <3>3. QED
      BY <3>2 DEF StreamKept
  <2>6. Chain(Eye(c), out[c])' /\ \A i \in 1..Len(out'[c]) : Written(out[c][i])'
    BY <1>3, <2>4, <2>5
  <2>7. QED
    BY <2>3, <2>6 DEF StreamInv
<1>6. AttachInv(c)'
  <2>1. ASSUME pc[c] \in {"watch", "hello", "replay"}
        PROVE  (/\ att[c].base = att[c].lo
                /\ Written(Data(att[c].e, att[c].lo, att[c].hi))
                /\ att[c].rx >= Oldest(att[c].e) => Start(att[c].e, att[c].rx) = att[c].hi)'
    BY <2>1 DEF AttachInv, Written, Oldest, Start, ChunkAt
  <2>2. ASSUME pc[c] = "replay" PROVE Link(Tip(c), Mark(att[c].e, att[c].lo))'
    <3>1. PICK m : m = Mark(att[c].e, att[c].lo)
      OBVIOUS
    <3>2. att[c].e \in 0..MaxEpoch /\ att[c].lo \in Nat
      BY ClientTypes DEF Attach
    <3>3. m \in Frame
      BY <3>1, <3>2 DEF Mark, Data, Frame, FrameType
    <3>4. Link(X, m)
      BY <1>2, <1>4, <2>2, <3>1 DEF AttachInv
    <3>5. Link(Y, m)
      BY <1>3, <1>4, <3>3, <3>4 DEF Covers
    <3>6. QED
      BY <1>2, <1>4, <3>1, <3>5
  <2>3. QED
    BY <2>1, <2>2 DEF AttachInv
<1>7. QED
  BY <1>5, <1>6

\* A frame that is no hello and changes nothing on the screen leaves a resume
\* under way standing.
LEMMA ReceivedResume ==
  ASSUME NEW c \in Client, ResumeInv(c),
         NEW s \in Seq(Frame), s = out[c], s # <<>>, out'[c] = Tail(s), ~IsHello(s[1]),
         UNCHANGED <<pc[c], att[c], req[c], up[c], phase[c], scr[c]>>
  PROVE  ResumeInv(c)'
<1>1. /\ Tail(s) \in Seq(Frame) /\ Len(Tail(s)) = Len(s) - 1 /\ Len(s) \in Nat \ {0}
      /\ \A i \in 1..Len(Tail(s)) : Tail(s)[i] = s[i + 1]
  BY HeadTailProperties, EmptySeq
<1>2. PICK b : b = Tail(s)
  OBVIOUS
<1>3. Len(b) \in Nat
  BY <1>1, <1>2
<1>4. PICK n \in Nat : n = Len(b)
  BY <1>3
<1>5. n \in Nat
  BY <1>4
<1>6. Len(s) = n + 1 /\ \A i \in 1..n : b[i] = s[i + 1]
  BY <1>1, <1>2, <1>4
<1>7. \A i \in 1..n : i + 1 \in 1..(n + 1) /\ \A j \in 1..(i - 1) : j \in 1..n /\ j + 1 \in 1..((i + 1) - 1)
  BY <1>5
<1>8. /\ Frozen(c) => Frozen(c)'
      /\ \A e, p : Shows(c, e, p)' = Shows(c, e, p)
      /\ \A r : Honest(c, r)' = Honest(c, r)
  <2>1. NoHello(c) => NoHello(c)'
    <3>1. ASSUME NoHello(c), NEW i \in 1..n PROVE ~IsHello(b[i])
      BY <1>6, <1>7, <3>1 DEF NoHello
    <3>2. NoHello(c)' <=> \A i \in 1..n : ~IsHello(b[i])
      BY <1>2, <1>4 DEF NoHello
    <3>3. QED
      BY <3>1, <3>2
  <2>2. QED
    BY <2>1 DEF Frozen, Shows, Honest
<1>9. \A i \in 1..Len(up'[c]) :
        /\ up'[c][i].t = "open"
        /\ up'[c][i].resume # NoResume => i = 1 /\ pc'[c] = "idle" /\ Frozen(c)' /\ Honest(c, up[c][i].resume)'
  BY <1>8 DEF ResumeInv
<1>10. req'[c] # NoResume => pc'[c] \in {"join", "attach", "spawn", "cut"} /\ Frozen(c)' /\ Honest(c, req[c])'
  BY <1>8 DEF ResumeInv
<1>11. pc'[c] \in {"watch", "hello"} /\ att'[c].t = "resume" => Frozen(c)' /\ Shows(c, att[c].e, att[c].base)'
  BY <1>8 DEF ResumeInv
<1>12. ASSUME NEW i \in 1..n, b[i].t = "resume"
      PROVE  /\ phase'[c] = "await" /\ Shows(c, b[i].e, b[i].lo)'
             /\ \A j \in 1..(i - 1) : ~IsHello(b[j])
  <2>1. i + 1 \in 1..Len(out[c]) /\ out[c][i + 1] = b[i]
    BY <1>6, <1>7
  <2>2. /\ phase[c] = "await" /\ Shows(c, b[i].e, b[i].lo)
        /\ \A j \in 1..((i + 1) - 1) : ~IsHello(s[j])
    BY <1>12, <2>1 DEF ResumeInv
  <2>3. QED
    BY <1>6, <1>7, <1>8, <2>2
<1>13. \A i \in 1..Len(out'[c]) : out'[c][i].t = "resume" =>
        /\ phase'[c] = "await" /\ Shows(c, out[c][i].e, out[c][i].lo)'
        /\ \A j \in 1..(i - 1) : ~IsHello(out'[c][j])
  BY <1>2, <1>4, <1>12
<1>14. QED
  BY <1>9, <1>10, <1>11, <1>13 DEF ResumeInv

\* Once no resume is under way, none is answered.
LEMMA SettledResume ==
  ASSUME NEW c \in Client, ResumeInv(c), ~Frozen(c), UNCHANGED <<pc[c], att[c], req[c], up[c]>>,
         \A i \in 1..Len(out'[c]) : out'[c][i].t # "resume"
  PROVE  ResumeInv(c)'
<1>1. /\ \A i \in 1..Len(up'[c]) : up'[c][i].t = "open" /\ up'[c][i].resume = NoResume
      /\ req'[c] = NoResume /\ ~(pc'[c] \in {"watch", "hello"} /\ att'[c].t = "resume")
  BY DEF ResumeInv
<1>2. QED
  BY <1>1 DEF ResumeInv

\* The frame at the head of what is under way was written, and follows what
\* the client shows.
LEMMA HeadFrame ==
  ASSUME IInv, NEW c \in Client, StreamInv(c), out[c] # <<>>
  PROVE  /\ Head(out[c]) = out[c][1] /\ out[c][1] \in Frame
         /\ Written(out[c][1]) /\ Link(Eye(c), out[c][1])
<1>1. out[c] \in Seq(Frame)
  BY ClientTypes
<1>2. 1 \in 1..Len(out[c]) /\ Head(out[c]) = out[c][1]
  <2>1. PICK s \in Seq(Frame) : s = out[c] /\ s # <<>>
    BY <1>1
  <2>2. Len(s) \in Nat /\ Len(s) # 0
    BY <2>1, EmptySeq
  <2>3. 1 \in 1..Len(s)
    BY <2>2
  <2>4. Head(s) = s[1]
    BY <2>1
  <2>5. QED
    BY <2>1, <2>3, <2>4
<1>3. out[c][1] \in Frame
  BY <1>1, <1>2, ElementOfSeq
<1>4. QED
  BY <1>2, <1>3 DEF StreamInv, Chain

\* Painting where the screen ends extends its one run.
LEMMA PaintOn ==
  ASSUME NEW s \in Seq(Run), Len(s) = 1, NEW f \in Frame, s[1].e = f.e, s[1].hi = f.lo
  PROVE  /\ Len(Paint(s, f)) = 1
         /\ Paint(s, f)[1] = [e |-> s[1].e, lo |-> s[1].lo, hi |-> f.hi]
         /\ f.hi = f.lo => Paint(s, f) = s
<1>1. s # <<>> /\ 1 \in 1..Len(s) /\ s[1] \in Run /\ s[Len(s)] = s[1] /\ DOMAIN s = {1}
  <2>1. 1 \in 1..Len(s) /\ s # <<>>
    <3>1. Len(<<>>) = 0
      OBVIOUS
    <3>2. 1 \in 1..Len(s)
      OBVIOUS
    <3>3. s # <<>>
      <4>1. SUFFICES ASSUME s = <<>> PROVE FALSE
        OBVIOUS
      <4>2. Len(s) = 0
        BY <3>1, <4>1, Zenon
      <4>3. QED
        BY <4>2
    <3>4. QED
      BY <3>2, <3>3
  <2>2. s[1] \in Run
    BY <2>1, ElementOfSeq
  <2>3. DOMAIN s = 1..Len(s)
    OBVIOUS
  <2>4. QED
    BY <2>1, <2>2, <2>3
<1>2. Paint(s, f) = [s EXCEPT ![1].hi = f.hi]
  BY <1>1 DEF Paint
<1>3. Len([s EXCEPT ![1].hi = f.hi]) = 1
  BY <1>1, ExceptSeq
<1>4. [s EXCEPT ![1].hi = f.hi][1] = [s[1] EXCEPT !.hi = f.hi]
  BY <1>1
<1>5. [s[1] EXCEPT !.hi = f.hi] = [e |-> s[1].e, lo |-> s[1].lo, hi |-> f.hi]
  BY <1>1 DEF Run
<1>6. ASSUME f.hi = f.lo PROVE [s EXCEPT ![1].hi = f.hi] = s
  <2>1. [s[1] EXCEPT !.hi = f.hi] = s[1]
    BY <1>1, <1>6 DEF Run
  <2>2. s = [i \in DOMAIN s |-> s[i]]
    OBVIOUS
  <2>3. QED
    BY <1>1, <2>1, <2>2
<1>7. QED
  BY <1>2, <1>3, <1>4, <1>5, <1>6

\* Painting on a cleared screen begins its one run.
LEMMA PaintFirst ==
  ASSUME NEW f \in Frame
  PROVE  Len(Paint(<<>>, f)) = 1 /\ Paint(<<>>, f)[1] = [e |-> f.e, lo |-> f.lo, hi |-> f.hi]
BY DEF Paint

\* A screen of one run of written bytes, with its end as the offset.
LEMMA ScreenTaken ==
  ASSUME NEW c \in Client, NEW r, Len(scr'[c]) = 1, scr'[c][1] = r,
         Written(Data(r.e, r.lo, r.hi))', me'[c].e = r.e, me'[c].off = r.hi
  PROVE  ScreenInv(c)'
BY DEF ScreenInv

\* The hello that answers a resume finds the screen where it said; the hello
\* of a replay clears it.
LEMMA ReceiveHelloView ==
  ASSUME IInv, ChunkInv, StreamKept, NEW c \in Client, ClientView(c), ReceiveHello(c)
  PROVE  ClientView(c)'
<1>1. /\ StreamInv(c) /\ AttachInv(c) /\ ResumeInv(c) /\ ScreenInv(c)
      /\ ServerType /\ ClientType /\ UNCHANGED <<sb, chunks, sent>>
  BY DEF ClientView, IInv, TypeOK, ReceiveHello, shellVars
<1>2. PICK f \in Frame : f = out[c][1] /\ f = Head(out[c]) /\ Written(f)
  BY <1>1, HeadFrame DEF ReceiveHello
<1>3. PICK s \in Seq(Frame) : s = out[c] /\ s # <<>> /\ s[1] = f
  BY <1>2, ClientTypes DEF ReceiveHello
<1>4. PICK v \in Seq(Run) : v = scr[c]
  BY ClientTypes
<1>5. /\ IsHello(f) /\ f.t \in {"resume", "replay"} /\ f.e \in Epoch /\ f.lo = f.hi
      /\ f.lo \in Nat /\ f.hi <= sb[f.e].total
  BY <1>2 DEF ReceiveHello, IsHello, Written, IsClosed, Frame
<1>6. /\ out'[c] = Tail(s) /\ phase'[c] = "first"
      /\ me'[c] = [e |-> f.e, off |-> f.lo]
      /\ scr'[c] = Paint(IF f.t = "replay" THEN <<>> ELSE v, f)
      /\ UNCHANGED <<pc[c], att[c], fwd[c], old[c], req[c], up[c]>>
  BY <1>1, <1>2, <1>3, <1>4 DEF ReceiveHello, Deliver, ServerType, ClientType
<1>7. PICK l \in Nat : Len(scr'[c]) = 1 /\ scr'[c][1] = [e |-> f.e, lo |-> l, hi |-> f.hi] /\ l <= f.hi
  <2>1. CASE f.t = "replay"
    BY <1>5, <1>6, <2>1, PaintFirst
  <2>2. CASE f.t = "resume"
    <3>1. 1 \in 1..Len(out[c]) /\ out[c][1].t = "resume"
      <4>1. Len(s) \in Nat /\ Len(s) # 0
        BY <1>3, EmptySeq
      <4>2. 1 \in 1..Len(s)
        BY <4>1
      <4>3. QED
        BY <1>2, <1>3, <2>2, <4>2
    <3>2. Len(v) = 1 /\ v[1].e = f.e /\ v[1].hi = f.lo
      BY <1>1, <1>2, <1>4, <3>1 DEF ResumeInv, Shows
    <3>3. v[1] \in Run /\ v[1].lo <= v[1].hi
      <4>1. v[1] \in Run
        BY <1>4, <3>2, ElementOfSeq
      <4>2. Written(Data(v[1].e, v[1].lo, v[1].hi))
        BY <1>1, <1>4, <3>2 DEF ScreenInv
      <4>3. QED
        BY <4>1, <4>2 DEF Written, Data, IsClosed
    <3>4. /\ Len(Paint(v, f)) = 1
          /\ Paint(v, f)[1] = [e |-> v[1].e, lo |-> v[1].lo, hi |-> f.hi]
      BY <1>2, <1>4, <3>2, PaintOn
    <3>5. v[1].lo \in Nat /\ v[1].lo <= f.hi
      BY <1>5, <3>2, <3>3 DEF Run
    <3>6. QED
      BY <1>6, <2>2, <3>2, <3>4, <3>5
  <2>3. QED
    BY <1>5, <2>1, <2>2
<1>8. ScreenInv(c)'
  <2>1. PICK r : r = [e |-> f.e, lo |-> l, hi |-> f.hi]
    OBVIOUS
  <2>2. l <= f.hi /\ f.hi <= sb[f.e].total /\ sb'[f.e] = sb[f.e]
    BY <1>1, <1>5, <1>7
  <2>3. Written(Data(r.e, r.lo, r.hi))'
    BY <1>5, <2>1, <2>2 DEF Written, Data, IsClosed
  <2>4. Len(scr'[c]) = 1 /\ scr'[c][1] = r /\ me'[c].e = r.e /\ me'[c].off = r.hi
    BY <1>5, <1>6, <1>7, <2>1
  <2>5. QED
    BY <2>3, <2>4, ScreenTaken
<1>9. PICK y : y = Eye(c)'
  OBVIOUS
<1>10. Covers(s[1], y)
  <2>1. y = Data(f.e, l, f.hi)
    BY <1>6, <1>7, <1>9 DEF Eye
  <2>2. f.t # "any"
    BY <1>5
  <2>3. QED
    BY <1>3, <2>1, <2>2 DEF Covers, Link, Data
<1>11. StreamInv(c)' /\ AttachInv(c)'
  BY <1>1, <1>3, <1>6, <1>9, <1>10, ReceivedStream
<1>12. ResumeInv(c)'
  <2>1. /\ Len(Tail(s)) = Len(s) - 1 /\ Len(s) \in Nat /\ Len(s) # 0
        /\ \A i \in 1..Len(Tail(s)) : Tail(s)[i] = s[i + 1]
    BY <1>3, HeadTailProperties, EmptySeq
  <2>2. PICK b : b = Tail(s)
    OBVIOUS
  <2>3. ASSUME NEW i \in 1..Len(b), b[i].t = "resume" PROVE FALSE
    <3>1. i + 1 \in 1..Len(s) /\ 1 \in 1..((i + 1) - 1) /\ b[i] = s[i + 1]
      BY <2>1, <2>2, <2>3
    <3>2. ~IsHello(s[1])
      BY <1>1, <1>3, <2>3, <3>1 DEF ResumeInv
    <3>3. QED
      BY <1>3, <1>5, <3>2
  <2>4. ~Frozen(c)
    <3>1. 1 \in 1..Len(s)
      BY <2>1
    <3>2. QED
      BY <1>3, <1>5, <3>1 DEF Frozen, NoHello
  <2>5. \A i \in 1..Len(out'[c]) : out'[c][i].t # "resume"
    BY <1>6, <2>2, <2>3
  <2>6. QED
    BY <1>1, <1>6, <2>4, <2>5, SettledResume
<1>13. QED
  BY <1>8, <1>11, <1>12 DEF ClientView

\* Output goes on where the screen ends, or is dropped before the hello.
LEMMA ReceiveDataView ==
  ASSUME IInv, ChunkInv, StreamKept, NEW c \in Client, ClientView(c), ReceiveData(c)
  PROVE  ClientView(c)'
<1>1. /\ StreamInv(c) /\ AttachInv(c) /\ ResumeInv(c) /\ ScreenInv(c)
      /\ ServerType /\ ClientType /\ UNCHANGED <<sb, chunks, sent>>
  BY DEF ClientView, IInv, TypeOK, ReceiveData, shellVars
<1>2. PICK f \in Frame : f = out[c][1] /\ f = Head(out[c]) /\ Written(f) /\ Link(Eye(c), f)
  BY <1>1, HeadFrame DEF ReceiveData
<1>3. PICK s \in Seq(Frame) : s = out[c] /\ s # <<>> /\ s[1] = f
  BY <1>2, ClientTypes DEF ReceiveData
<1>4. f.t = "data" /\ ~IsHello(f) /\ Continues(f)
  BY <1>2 DEF ReceiveData, IsHello, Continues
<1>5. /\ out'[c] = Tail(s)
      /\ UNCHANGED <<pc[c], att[c], fwd[c], old[c], req[c], up[c]>>
  BY <1>1, <1>3 DEF ReceiveData, Deliver, ServerType, ClientType
<1>6. CASE phase[c] = "await"
  <2>1. UNCHANGED <<phase[c], me[c], scr[c]>>
    BY <1>6 DEF ReceiveData
  <2>2. PICK y : y = Eye(c)' /\ y = Anything
    BY <1>6, <2>1 DEF Eye
  <2>3. Covers(s[1], y)
    BY <2>2 DEF Covers, Link, Anything
  <2>4. StreamInv(c)' /\ AttachInv(c)'
    BY <1>1, <1>3, <1>5, <2>2, <2>3, ReceivedStream
  <2>5. ResumeInv(c)'
    BY <1>1, <1>3, <1>4, <1>5, <2>1, ReceivedResume
  <2>6. ScreenInv(c)'
    BY <1>1, <2>1, ScreenMoves
  <2>7. QED
    BY <2>4, <2>5, <2>6 DEF ClientView
<1>7. CASE phase[c] # "await"
  <2>1. PICK v \in Seq(Run) : v = scr[c]
    BY ClientTypes
  <2>2. /\ phase'[c] = "live" /\ me'[c] = [me[c] EXCEPT !.off = @ + (f.hi - f.lo)]
        /\ scr'[c] = Paint(v, f)
    BY <1>1, <1>2, <1>7, <2>1 DEF ReceiveData, ClientType
  <2>3. Len(v) = 1 /\ v[1].e = f.e /\ v[1].hi = f.lo
    BY <1>2, <1>4, <1>7, <2>1 DEF Eye, Link, Data, Closed
  <2>4. /\ Len(scr'[c]) = 1
        /\ scr'[c][1] = [e |-> v[1].e, lo |-> v[1].lo, hi |-> f.hi]
    BY <2>1, <2>2, <2>3, PaintOn
  <2>5. PICK r : r = scr'[c][1] /\ r = [e |-> f.e, lo |-> v[1].lo, hi |-> f.hi]
    BY <2>3, <2>4
  <2>6. me'[c].e = f.e /\ me'[c].off = f.hi
    <3>1. me[c] \in Resume /\ me[c].e = f.e /\ me[c].off = f.lo
      BY <1>1, <2>1, <2>3, ClientTypes DEF ScreenInv
    <3>2. me'[c].e = me[c].e /\ me'[c].off = f.lo + (f.hi - f.lo)
      BY <2>2, <3>1 DEF Resume
    <3>3. f.lo \in Nat /\ f.hi \in Nat
      BY <1>2 DEF Frame
    <3>4. QED
      BY <3>1, <3>2, <3>3
  <2>7. Written(Data(r.e, r.lo, r.hi))'
    <3>1. Written(Data(v[1].e, v[1].lo, v[1].hi)) /\ v[1] \in Run
      <4>1. v[1] \in Run
        BY <2>1, <2>3, ElementOfSeq
      <4>2. QED
        BY <1>1, <2>1, <2>3, <4>1 DEF ScreenInv
    <3>2. v[1].lo \in Nat /\ v[1].lo <= f.lo
      BY <2>3, <3>1 DEF Written, Data, IsClosed, Run
    <3>3. f.lo \in Nat /\ f.hi \in Nat /\ f.e \in Epoch /\ f.lo <= f.hi /\ f.hi <= sb[f.e].total
      BY <1>2, <1>4 DEF Frame, Written, IsClosed
    <3>4. v[1].lo <= f.hi /\ f.hi <= sb'[f.e].total
      BY <1>1, <3>2, <3>3
    <3>5. QED
      BY <2>5, <3>3, <3>4 DEF Written, Data, IsClosed
  <2>8. ScreenInv(c)'
    BY <2>4, <2>5, <2>6, <2>7, ScreenTaken
  <2>9. PICK y : y = Eye(c)' /\ y = Data(f.e, v[1].lo, f.hi)
    BY <2>2, <2>4, <2>5 DEF Eye
  <2>10. Covers(s[1], y)
    BY <1>3, <1>4, <2>9 DEF Covers, Link, Data
  <2>11. StreamInv(c)' /\ AttachInv(c)'
    BY <1>1, <1>3, <1>5, <2>9, <2>10, ReceivedStream
  <2>12. ~Frozen(c)
    BY <1>7 DEF Frozen
  <2>13. \A i \in 1..Len(out'[c]) : out'[c][i].t # "resume"
    <3>1. /\ Len(Tail(s)) = Len(s) - 1 /\ Len(s) \in Nat
          /\ \A i \in 1..Len(Tail(s)) : Tail(s)[i] = s[i + 1]
      BY <1>3, HeadTailProperties, EmptySeq
    <3>2. PICK b : b = Tail(s)
      OBVIOUS
    <3>3. ASSUME NEW i \in 1..Len(b) PROVE b[i].t # "resume"
      <4>1. i + 1 \in 1..Len(s) /\ b[i] = s[i + 1]
        BY <3>1, <3>2
      <4>2. QED
        BY <1>1, <1>3, <1>7, <4>1 DEF ResumeInv
    <3>4. QED
      BY <1>5, <3>2, <3>3
  <2>14. ResumeInv(c)'
    BY <1>1, <1>5, <2>12, <2>13, SettledResume
  <2>15. QED
    BY <2>8, <2>11, <2>14 DEF ClientView
<1>8. QED
  BY <1>6, <1>7

\* A redraw adds no byte, and what follows it follows the screen.
LEMMA ReceiveRedrawScreen ==
  ASSUME IInv, NEW c \in Client, StreamInv(c), ReceiveRedraw(c)
  PROVE  scr'[c] = scr[c]
<1>1. ClientType
  BY DEF IInv, TypeOK
<1>2. PICK f \in Frame : f = Head(out[c]) /\ Written(f) /\ Link(Eye(c), f) /\ f.t = "redraw"
  BY HeadFrame DEF ReceiveRedraw
<1>3. CASE UNCHANGED scr
  BY <1>3
<1>4. CASE phase[c] = "live" /\ scr' = [scr EXCEPT ![c] = Paint(@, Head(out[c]))]
  <2>1. PICK v \in Seq(Run) : v = scr[c]
    BY ClientTypes
  <2>2. scr'[c] = Paint(v, f)
    BY <1>1, <1>2, <1>4, <2>1 DEF ClientType
  <2>3. Len(v) = 1 /\ v[1].e = f.e /\ v[1].hi = f.lo
    BY <1>2, <1>4, <2>1 DEF Eye, Link, Continues, Data, Closed
  <2>4. f.hi = f.lo
    BY <1>2 DEF Written, IsClosed
  <2>5. Paint(v, f) = v
    BY <2>1, <2>3, <2>4, PaintOn
  <2>6. QED
    BY <2>1, <2>2, <2>5
<1>5. QED
  BY <1>3, <1>4 DEF ReceiveRedraw

\* Neither a redraw nor a closed frame moves the screen.
LEMMA ReceiveQuietView ==
  ASSUME IInv, ChunkInv, StreamKept, NEW c \in Client, ClientView(c), ReceiveRedraw(c) \/ ReceiveClosed(c)
  PROVE  ClientView(c)'
<1>1. /\ StreamInv(c) /\ AttachInv(c) /\ ResumeInv(c) /\ ScreenInv(c)
      /\ ServerType /\ ClientType /\ UNCHANGED <<sb, chunks, sent>>
  BY DEF ClientView, IInv, TypeOK, ReceiveRedraw, ReceiveClosed, shellVars
<1>2. PICK f \in Frame : f = out[c][1] /\ f = Head(out[c]) /\ Written(f) /\ Link(Eye(c), f)
  BY <1>1, HeadFrame DEF ReceiveRedraw, ReceiveClosed
<1>3. PICK s \in Seq(Frame) : s = out[c] /\ s # <<>> /\ s[1] = f
  BY <1>2, ClientTypes DEF ReceiveRedraw, ReceiveClosed
<1>4. f.t \in {"redraw", "exit", "error"} /\ ~IsHello(f)
  BY <1>2 DEF ReceiveRedraw, ReceiveClosed, IsHello, IsClosed
<1>5. /\ out'[c] = Tail(s) /\ scr'[c] = scr[c]
      /\ UNCHANGED <<pc[c], att[c], fwd[c], old[c], req[c], up[c], phase[c], me[c]>>
  BY <1>1, <1>3, ReceiveRedrawScreen DEF ReceiveRedraw, ReceiveClosed, Deliver, ServerType, ClientType
<1>6. PICK y : y = Eye(c) /\ y = Eye(c)'
  BY <1>5 DEF Eye
<1>7. Covers(s[1], y)
  <2>1. f.t = "redraw" => f.lo = f.hi
    BY <1>2 DEF Written, IsClosed
  <2>2. Link(y, f)
    BY <1>2, <1>6
  <2>3. QED
    BY <1>3, <1>4, <2>1, <2>2 DEF Covers, Link, Continues
<1>8. StreamInv(c)' /\ AttachInv(c)'
  BY <1>1, <1>3, <1>5, <1>6, <1>7, ReceivedStream
<1>9. ResumeInv(c)'
  BY <1>1, <1>3, <1>4, <1>5, ReceivedResume
<1>10. ScreenInv(c)'
  BY <1>1, <1>5, ScreenMoves
<1>11. QED
  BY <1>8, <1>9, <1>10 DEF ClientView

----------------------------------------------------------------------------
(* The whole machine. *)

\* Steps that touch nothing of a client, but perhaps the stream it reads.
LEMMA StillView ==
  ASSUME IInv, ChunkInv, StreamKept, NEW c \in Client, ClientView(c),
         UNCHANGED <<pc[c], req[c], att[c], fwd[c], old[c], out[c], up[c], phase[c], me[c], scr[c]>>
  PROVE  ClientView(c)'
<1>1. StreamInv(c) /\ AttachInv(c) /\ ResumeInv(c) /\ ScreenInv(c)
  BY DEF ClientView
<1>2. StreamInv(c)'
  <2>1. fwd'[c] = fwd[c] /\ (fwd[c].st # "none" => pc'[c] = "idle")
    BY <1>1 DEF StreamInv
  <2>2. old'[c] \in {fwd[c], old[c]} /\ (old'[c].st # "none" => pc'[c] = "join")
    BY <1>1 DEF StreamInv
  <2>3. QED
    BY <1>1, <2>1, <2>2, StreamMoves
<1>3. AttachInv(c)'
  BY <1>1, AttachMoves
<1>4. ResumeInv(c)'
  BY <1>1, ResumeMoves
<1>5. ScreenInv(c)'
  BY <1>1, ScreenMoves
<1>6. QED
  BY <1>2, <1>3, <1>4, <1>5 DEF ClientView

\* What one client does touches nothing of another.
LEMMA OthersStill ==
  ASSUME IInv, NEW c \in Client, NEW d \in Client, c # d,
         MainLoop(c) \/ Forward(c) \/ Aborted(c) \/ ClientNext(c)
  PROVE  UNCHANGED <<pc[d], req[d], att[d], fwd[d], old[d], out[d], up[d], phase[d], me[d], scr[d]>>
<1>1. ServerType /\ ClientType
  BY DEF IInv, TypeOK
<1>2. CASE MainLoop(c)
  <2>1. CASE HandleOpen(c) \/ JoinOld(c) \/ HandleClose(c)
    BY <1>1, <2>1 DEF HandleOpen, JoinOld, HandleClose, RemoveChannel, ServerType, ClientType, clientVars
  <2>2. CASE AttachLive(c) \/ AttachDead(c) \/ AttachSpawn(c) \/ AttachFail(c)
    BY <1>1, <2>2 DEF AttachLive, AttachDead, AttachSpawn, AttachFail, ServerType, ClientType, clientVars
  <2>3. CASE AttachCut(c) \/ AttachWatch(c)
    BY <1>1, <2>3 DEF AttachCut, AttachWatch, ServerType, ClientType, clientVars
  <2>4. CASE SendHello(c) \/ SendReplay(c) \/ SendFailed(c)
    BY <1>1, <2>4 DEF SendHello, SendReplay, SendFailed, ServerType, ClientType, clientVars
  <2>5. QED
    BY <1>2, <2>1, <2>2, <2>3, <2>4 DEF MainLoop
<1>3. CASE Forward(c)
  BY <1>1, <1>3 DEF Forward, ForwardSend, ForwardArm, ServerType, ClientType, clientVars
<1>4. CASE Aborted(c)
  BY <1>1, <1>4 DEF Aborted, AbortedSend, AbortedGone, AbortedArm, ServerType, ClientType, clientVars
<1>5. CASE ClientNext(c)
  <2>1. CASE Connect(c) \/ Drop(c) \/ SendClose(c) \/ \E r \in Resumes(c) : SendOpen(c, r)
    BY <1>1, <2>1 DEF Connect, Drop, SendClose, SendOpen, ServerType, ClientType, serverVars, clientVars
  <2>2. CASE Receive(c)
    BY <1>1, <2>2 DEF Receive, ReceiveHello, ReceiveData, ReceiveRedraw, ReceiveClosed, Deliver, ServerType, ClientType
  <2>3. QED
    BY <1>5, <2>1, <2>2 DEF ClientNext
<1>6. QED
  BY <1>2, <1>3, <1>4, <1>5

\* At the start nothing is shown and nothing is under way.
LEMMA ViewInit == Init => ViewInv
<1>1. SUFFICES ASSUME Init PROVE ViewInv
  OBVIOUS
<1>2. IInv
  BY <1>1, IInvInit
<1>3. Len(<<>>) = 0
  OBVIOUS
<1>4. ChunkInv
  BY <1>1, <1>3, StreamAssumption DEF Init, ChunkInv
<1>5. ASSUME NEW c \in Client PROVE ClientView(c)
  <2>1. /\ pc[c] = "idle" /\ req[c] = NoResume /\ fwd[c] = NoTask /\ old[c] = NoTask
        /\ out[c] = <<>> /\ up[c] = <<>> /\ scr[c] = <<>> /\ me[c].e = NoEpoch
    BY <1>1 DEF Init
  <2>2. StreamInv(c)
    <3>1. PICK x, t : x = Tip(c) /\ t = NoTask
      OBVIOUS
    <3>2. TaskView(x, t)
      BY <3>1 DEF NoTask, TaskView, Chain
    <3>3. TaskView(Tip(c), fwd[c]) /\ TaskView(Tip(c), old[c])
      BY <2>1, <3>1, <3>2
    <3>4. QED
      BY <1>3, <2>1, <3>3 DEF StreamInv, Chain, NoTask
  <2>3. AttachInv(c)
    BY <2>1 DEF AttachInv
  <2>4. ResumeInv(c)
    BY <1>3, <2>1 DEF ResumeInv
  <2>5. ScreenInv(c)
    BY <1>3, <2>1 DEF ScreenInv
  <2>6. QED
    BY <2>2, <2>3, <2>4, <2>5 DEF ClientView
<1>6. QED
  BY <1>2, <1>4, <1>5 DEF ViewInv

\* Only a read moves the stream.
LEMMA ClientQuiet ==
  ASSUME NEW c \in Client, MainLoop(c) \/ Forward(c) \/ Aborted(c) \/ ClientNext(c)
  PROVE  UNCHANGED <<sb, chunks, sent>>
<1>1. CASE ClientNext(c)
  BY <1>1 DEF ClientNext, Connect, Drop, SendClose, SendOpen, Receive, ReceiveHello, ReceiveData,
     ReceiveRedraw, ReceiveClosed, shellVars
<1>2. QED
  BY <1>1, OutputQuiet

\* Every step keeps what every client is shown whole, when none sends a close.
LEMMA ViewStep == ~AllowClose /\ ViewInv /\ [Next]_vars => ViewInv'
<1> SUFFICES ASSUME ~AllowClose, ViewInv, [Next]_vars PROVE ViewInv'
  OBVIOUS
<1>1. IInv /\ ChunkInv /\ IInv'
  BY IInvStep DEF ViewInv
<1>2. ASSUME UNCHANGED <<serverVars, clientVars, up>>, StreamKept, ChunkInv' PROVE ViewInv'
  <2>1. ASSUME NEW c \in Client PROVE ClientView(c)'
    BY <1>1, <1>2, <2>1, StillView DEF serverVars, clientVars, ViewInv
  <2>2. QED
    BY <1>1, <1>2, <2>1 DEF ViewInv
<1>3. CASE UNCHANGED vars
  BY <1>1, <1>2, <1>3, StreamSame DEF vars, shellVars
<1>4. CASE ShellNext
  <2>1. CASE \E e \in Epoch, n \in 1..MaxChunk : ReadChunk(e, n)
    <3>1. PICK e \in Epoch, n \in 1..MaxChunk : ReadChunk(e, n)
      BY <2>1
    <3>2. StreamKept /\ ChunkInv'
      BY <1>1, <3>1, ReadKept
    <3>3. QED
      BY <1>2, <3>1, <3>2 DEF ReadChunk
  <2>2. CASE ResetTake \/ \E e \in Epoch : ReaderEof(e) \/ ReaderShutdown(e) \/ ResetStop(e)
    <3>1. UNCHANGED <<sb, chunks, sent>> /\ UNCHANGED <<serverVars, clientVars, up>>
      BY <2>2 DEF ResetTake, ReaderEof, ReaderShutdown, ResetStop
    <3>2. QED
      BY <1>1, <1>2, <3>1, StreamSame
  <2>3. QED
    BY <1>4, <2>1, <2>2 DEF ShellNext
<1>5. CASE \E c \in Client : MainLoop(c) \/ Forward(c) \/ Aborted(c) \/ ClientNext(c)
  <2>1. PICK c \in Client : MainLoop(c) \/ Forward(c) \/ Aborted(c) \/ ClientNext(c)
    BY <1>5
  <2>2. UNCHANGED <<sb, chunks, sent>> /\ StreamKept /\ ChunkInv'
    BY <1>1, <2>1, ClientQuiet, StreamSame
  <2>3. ASSUME NEW d \in Client, d # c PROVE ClientView(d)'
    BY <1>1, <2>1, <2>2, <2>3, OthersStill, StillView DEF ViewInv
  <2>4. ClientView(c)'
    <3>1. ClientView(c)
      BY DEF ViewInv
    <3>2. CASE MainLoop(c) \/ Forward(c) \/ Aborted(c)
      BY <1>1, <3>1, <3>2, ServerView
    <3>3. CASE Connect(c)
      BY <1>1, <2>2, <3>1, <3>3, StillView DEF Connect, serverVars, clientVars
    <3>4. CASE Drop(c)
      BY <1>1, <2>2, <3>1, <3>4, DropView
    <3>5. CASE SendClose(c)
      BY <3>5 DEF SendClose
    <3>6. CASE Receive(c)
      BY <1>1, <2>2, <3>1, <3>6, ReceiveHelloView, ReceiveDataView, ReceiveQuietView DEF Receive
    <3>7. CASE \E r \in Resumes(c) : SendOpen(c, r)
      BY <1>1, <2>2, <3>1, <3>7, SendOpenView
    <3>8. QED
      BY <2>1, <3>2, <3>3, <3>4, <3>5, <3>6, <3>7 DEF ClientNext
  <2>5. QED
    BY <1>1, <2>2, <2>3, <2>4 DEF ViewInv
<1>6. QED
  BY <1>3, <1>4, <1>5 DEF Next

\* A state the invariant allows shows one run, with its end as the offset.
LEMMA ViewShows == ViewInv => Unbroken /\ OffsetHonest
<1>1. SUFFICES ASSUME ViewInv, NEW c \in Client
      PROVE  /\ Len(scr[c]) <= 1
             /\ scr[c] # <<>> => /\ me[c].e = scr[c][Len(scr[c])].e
                                 /\ me[c].off = scr[c][Len(scr[c])].hi
  BY DEF Unbroken, OffsetHonest
<1>2. IInv /\ ScreenInv(c)
  BY <1>1 DEF ViewInv, ClientView
<1>3. PICK v \in Seq(Run) : v = scr[c]
  BY <1>2, ClientTypes
<1>4. v # <<>> => Len(v) # 0 /\ Len(v) \in Nat
  BY EmptySeq
<1>5. Len(v) <= 1
  BY <1>2, <1>3 DEF ScreenInv
<1>6. v # <<>> => Len(v) = 1
  <2>1. PICK n : n = Len(v)
    OBVIOUS
  <2>2. n <= 1 /\ n \in Nat
    BY <1>3, <1>5, <2>1
  <2>3. n = 0 \/ n = 1
    BY <2>2
  <2>4. QED
    BY <1>4, <2>1, <2>3
<1>7. QED
  BY <1>2, <1>3, <1>5, <1>6 DEF ScreenInv

\* The invariant holds in every state a client that sends no close can reach.
LEMMA ViewInductive == ASSUME ~AllowClose PROVE Spec => []ViewInv
<1>1. ViewInv /\ [Next]_vars => ViewInv'
  BY ViewStep
<1>2. QED
  BY <1>1, ViewInit, PTL DEF Spec

\* Unbroken: no byte is lost, repeated or another shell's at any seam between
\* replay, live output, redraws, resumes and respawns (terminals.rs attach and
\* the forward task of pty.rs), while clients re-open and never close.
THEOREM UnbrokenHolds == ASSUME ~AllowClose PROVE Spec => []Unbroken
BY ViewInductive, ViewShows, PTL

\* OffsetHonest: the checkpoint a client counts from the hello's offset and
\* the lengths of the frames is the end of what its screen shows.
THEOREM OffsetHonestHolds == ASSUME ~AllowClose PROVE Spec => []OffsetHonest
BY ViewInductive, ViewShows, PTL

----------------------------------------------------------------------------
(* The view each step shows. *)

\* What a received frame does to the screen: nothing, or a restart where a
\* replay begins, or more of the bytes that were written.
LEMMA ReceiveShows ==
  ASSUME IInv, NEW c \in Client, ClientView(c), Receive(c)
  PROVE  \/ scr'[c] = scr[c]
         \/ /\ Len(scr'[c]) = 1
            /\ \E e \in Epoch : \E p \in 0..sb[e].total : scr'[c][1] = [e |-> e, lo |-> p, hi |-> p]
         \/ /\ Len(scr[c]) = 1 /\ Len(scr'[c]) = 1 /\ scr[c][1] \in Run /\ scr[c][1].e \in Epoch
            /\ \E h \in (scr[c][1].hi + 1)..sb[scr[c][1].e].total :
                 scr'[c][1] = [e |-> scr[c][1].e, lo |-> scr[c][1].lo, hi |-> h]
<1>1. StreamInv(c) /\ ResumeInv(c) /\ ScreenInv(c) /\ ClientType /\ ShellType
  BY DEF ClientView, IInv, TypeOK
<1>2. PICK f \in Frame : f = out[c][1] /\ f = Head(out[c]) /\ Written(f) /\ Link(Eye(c), f)
  BY <1>1, HeadFrame DEF Receive, ReceiveHello, ReceiveData, ReceiveRedraw, ReceiveClosed
<1>3. PICK s \in Seq(Frame) : s = out[c] /\ s # <<>> /\ s[1] = f
  BY <1>2, ClientTypes DEF Receive, ReceiveHello, ReceiveData, ReceiveRedraw, ReceiveClosed
<1>4. PICK v \in Seq(Run) : v = scr[c]
  BY ClientTypes
<1>5. f.lo \in Nat /\ f.hi \in Nat
  BY DEF Frame
<1>6. CASE ReceiveHello(c)
  <2>1. /\ f.t \in {"resume", "replay"} /\ f.e \in Epoch /\ f.lo = f.hi /\ f.hi <= sb[f.e].total
    BY <1>2, <1>6 DEF ReceiveHello, IsHello, Written, IsClosed
  <2>2. scr'[c] = Paint(IF f.t = "replay" THEN <<>> ELSE v, f)
    BY <1>1, <1>2, <1>4, <1>6 DEF ReceiveHello, ClientType
  <2>3. CASE f.t = "replay"
    <3>1. Len(scr'[c]) = 1 /\ scr'[c][1] = [e |-> f.e, lo |-> f.lo, hi |-> f.lo]
      BY <2>1, <2>2, <2>3, PaintFirst
    <3>2. f.lo \in 0..sb[f.e].total
      BY <1>1, <1>5, <2>1 DEF ShellType
    <3>3. QED
      BY <2>1, <3>1, <3>2
  <2>4. CASE f.t = "resume"
    <3>1. 1 \in 1..Len(s)
      <4>1. Len(s) \in Nat /\ Len(s) # 0
        BY <1>3, EmptySeq
      <4>2. QED
        BY <4>1
    <3>2. Len(v) = 1 /\ v[1].e = f.e /\ v[1].hi = f.lo
      BY <1>1, <1>3, <1>4, <2>4, <3>1 DEF ResumeInv, Shows
    <3>3. Paint(v, f) = v
      BY <1>4, <2>1, <3>2, PaintOn
    <3>4. QED
      BY <1>4, <2>2, <2>4, <3>3
  <2>5. QED
    BY <2>1, <2>3, <2>4
<1>7. CASE ReceiveData(c)
  <2>1. f.t = "data" /\ f.e \in Epoch /\ f.lo <= f.hi /\ f.hi <= sb[f.e].total
    BY <1>2, <1>7 DEF ReceiveData, Written, IsClosed
  <2>2. CASE phase[c] = "await"
    BY <1>7, <2>2 DEF ReceiveData
  <2>3. CASE phase[c] # "await"
    <3>1. scr'[c] = Paint(v, f)
      BY <1>1, <1>2, <1>4, <1>7, <2>3 DEF ReceiveData, ClientType
    <3>2. Len(v) = 1 /\ v[1].e = f.e /\ v[1].hi = f.lo
      BY <1>2, <1>4, <2>1, <2>3 DEF Eye, Link, Continues, Data, Closed
    <3>3. v[1] \in Run
      BY <1>4, <3>2, ElementOfSeq
    <3>4. /\ Len(Paint(v, f)) = 1
          /\ Paint(v, f)[1] = [e |-> v[1].e, lo |-> v[1].lo, hi |-> f.hi]
          /\ f.hi = f.lo => Paint(v, f) = v
      BY <1>4, <3>2, PaintOn
    <3>5. f.hi # f.lo => f.hi \in (f.lo + 1)..sb[f.e].total
      BY <1>1, <1>5, <2>1 DEF ShellType
    <3>6. CASE f.hi = f.lo
      BY <1>4, <3>1, <3>4, <3>6
    <3>7. CASE f.hi # f.lo
      BY <1>4, <2>1, <3>1, <3>2, <3>3, <3>4, <3>5, <3>7
    <3>8. QED
      BY <3>6, <3>7
  <2>4. QED
    BY <2>2, <2>3
<1>8. CASE ReceiveRedraw(c)
  BY <1>1, <1>8, ReceiveRedrawScreen
<1>9. CASE ReceiveClosed(c)
  BY <1>9 DEF ReceiveClosed
<1>10. QED
  BY <1>6, <1>7, <1>8, <1>9 DEF Receive

\* A screen of one run shows that run, and one that stays shows the same.
LEMMA ShownRun ==
  ASSUME NEW c \in Client
  PROVE  /\ Len(scr[c]) = 1 => Shown(c) = scr[c][1]
         /\ Len(scr'[c]) = 1 => Shown(c)' = scr'[c][1]
         /\ scr'[c] = scr[c] => Shown(c)' = Shown(c)
BY DEF Shown

\* A client's step changes no other screen, and its own only by receiving.
LEMMA OneScreen ==
  ASSUME IInv, NEW c \in Client, MainLoop(c) \/ Forward(c) \/ Aborted(c) \/ ClientNext(c)
  PROVE  /\ \A d \in Client : d # c => scr'[d] = scr[d]
         /\ scr'[c] = scr[c] \/ Receive(c)
<1>1. ASSUME NEW d \in Client, d # c PROVE scr'[d] = scr[d]
  BY <1>1, OthersStill
<1>2. scr'[c] = scr[c] \/ Receive(c)
  <2>1. CASE MainLoop(c)
    BY <2>1 DEF MainLoop, HandleOpen, JoinOld, HandleClose, AttachLive, AttachDead, AttachSpawn, AttachFail,
       AttachCut, AttachWatch, SendHello, SendReplay, SendFailed, clientVars
  <2>2. CASE Forward(c) \/ Aborted(c)
    BY <2>2 DEF Forward, ForwardSend, ForwardArm, Aborted, AbortedSend, AbortedGone, AbortedArm, clientVars
  <2>3. CASE ClientNext(c)
    BY <2>3 DEF ClientNext, Connect, Drop, SendClose, SendOpen, clientVars
  <2>4. QED
    BY <2>1, <2>2, <2>3
<1>3. QED
  BY <1>1, <1>2

\* The initial screens are the abstract view's.
LEMMA ViewStart == Init => View!Init
<1>1. SUFFICES ASSUME Init PROVE View!Init
  OBVIOUS
<1>2. Len(<<>>) = 0
  OBVIOUS
<1>3. \A c \in Client : Shown(c) = [e |-> 0, lo |-> 0, hi |-> 0]
  BY <1>1, <1>2 DEF Init, Shown, NoEpoch
<1>4. \A e \in Epoch : sb[e].total = 0
  BY <1>1 DEF Init
<1>5. QED
  BY <1>3, <1>4 DEF View!Init, View!Epoch, Epoch

\* Every step is a step of the abstract view or leaves it alone.
LEMMA ViewMaps == IInv /\ (\A c \in Client : ClientView(c)) /\ [Next]_vars => [View!Next]_View!vars
<1> SUFFICES ASSUME IInv, \A c \in Client : ClientView(c), [Next]_vars PROVE [View!Next]_View!vars
  OBVIOUS
<1> DEFINE W == [e \in Epoch |-> sb[e].total]
           V == [c \in Client |-> Shown(c)]
<1>1. ASSUME UNCHANGED sb, UNCHANGED scr PROVE UNCHANGED View!vars
  <2>1. \A c \in Client : Shown(c)' = Shown(c)
    BY <1>1, ShownRun
  <2>2. V' = V /\ W' = W
    BY <1>1, <2>1
  <2>3. QED
    BY <2>2 DEF View!vars
<1>2. CASE UNCHANGED vars
  BY <1>1, <1>2 DEF vars, shellVars, clientVars
<1>3. CASE ShellNext
  <2>1. CASE \E e \in Epoch, n \in 1..MaxChunk : ReadChunk(e, n)
    <3>1. PICK e \in Epoch, n \in 1..MaxChunk : ReadChunk(e, n)
      BY <2>1
    <3>2. UNCHANGED scr /\ sb' = [sb EXCEPT ![e] = Push(@, n)]
      BY <3>1 DEF ReadChunk, clientVars
    <3>3. V' = V
      BY <3>2, ShownRun
    <3>4. \A d \in Epoch : sb'[d].total = IF d = e THEN sb[e].total + n ELSE sb[d].total
      BY <3>2 DEF IInv, TypeOK, ShellType, Push
    <3>5. W' = [W EXCEPT ![e] = @ + n]
      BY <3>4
    <3>6. View!Write(e)
      BY <3>3, <3>5 DEF View!Write
    <3>7. QED
      BY <3>6 DEF View!Next, View!Epoch, Epoch
  <2>2. CASE ResetTake \/ \E e \in Epoch : ReaderEof(e) \/ ReaderShutdown(e) \/ ResetStop(e)
    BY <1>1, <2>2 DEF ResetTake, ReaderEof, ReaderShutdown, ResetStop, clientVars
  <2>3. QED
    BY <1>3, <2>1, <2>2 DEF ShellNext
<1>4. CASE \E c \in Client : MainLoop(c) \/ Forward(c) \/ Aborted(c) \/ ClientNext(c)
  <2>1. PICK c \in Client : MainLoop(c) \/ Forward(c) \/ Aborted(c) \/ ClientNext(c)
    BY <1>4
  <2>2. UNCHANGED sb /\ W' = W
    BY <2>1, ClientQuiet
  <2>3. \A d \in Client : d # c => Shown(d)' = Shown(d)
    BY <2>1, OneScreen, ShownRun
  <2>4. ASSUME NEW r, Shown(c)' = r PROVE V' = [V EXCEPT ![c] = r]
    BY <2>3, <2>4
  <2>5. CASE scr'[c] = scr[c]
    <3>1. V' = V
      BY <2>3, <2>5, ShownRun
    <3>2. QED
      BY <2>2, <3>1 DEF View!vars
  <2>6. CASE Len(scr'[c]) = 1 /\ \E e \in Epoch : \E p \in 0..sb[e].total : scr'[c][1] = [e |-> e, lo |-> p, hi |-> p]
    <3>1. PICK e \in Epoch : \E p \in 0..sb[e].total : scr'[c][1] = [e |-> e, lo |-> p, hi |-> p]
      BY <2>6
    <3>2. PICK p \in 0..sb[e].total : scr'[c][1] = [e |-> e, lo |-> p, hi |-> p]
      BY <3>1
    <3>3. V' = [V EXCEPT ![c] = [e |-> e, lo |-> p, hi |-> p]]
      BY <2>4, <2>6, <3>2, ShownRun
    <3>4. p \in 0..W[e]
      OBVIOUS
    <3>5. View!Restart(c)
      BY <2>2, <3>3, <3>4 DEF View!Restart, View!Epoch, Epoch
    <3>6. QED
      BY <3>5 DEF View!Next
  <2>7. CASE /\ Len(scr[c]) = 1 /\ Len(scr'[c]) = 1 /\ scr[c][1] \in Run /\ scr[c][1].e \in Epoch
             /\ \E h \in (scr[c][1].hi + 1)..sb[scr[c][1].e].total :
                  scr'[c][1] = [e |-> scr[c][1].e, lo |-> scr[c][1].lo, hi |-> h]
    <3>1. PICK r \in Run : r = scr[c][1] /\ r = Shown(c) /\ r.e \in Epoch
      BY <2>7, ShownRun
    <3>2. PICK h \in (r.hi + 1)..sb[r.e].total : scr'[c][1] = [e |-> r.e, lo |-> r.lo, hi |-> h]
      BY <2>7, <3>1
    <3>3. Shown(c)' = [r EXCEPT !.hi = h]
      BY <2>7, <3>1, <3>2, ShownRun DEF Run
    <3>4. V[c] = r /\ h \in (V[c].hi + 1)..W[V[c].e] /\ V[c].e # 0
      BY <3>1, <3>2 DEF Epoch
    <3>5. V' = [V EXCEPT ![c].hi = h]
      BY <2>4, <3>1, <3>3
    <3>6. View!Extend(c)
      BY <2>2, <3>4, <3>5 DEF View!Extend
    <3>7. QED
      BY <3>6 DEF View!Next
  <2>8. QED
    BY <2>1, <2>5, <2>6, <2>7, OneScreen, ReceiveShows
<1>5. QED
  BY <1>2, <1>3, <1>4 DEF Next

\* ImplementsView: the reader thread, the broadcast, the attachments and the
\* forward tasks together show each client what TerminalView promises: a
\* stretch that only the bytes coming next extend, and only once written, and
\* that only the hello of a full replay starts again.
THEOREM ImplementsViewHolds == ASSUME ~AllowClose PROVE Spec => ImplementsView
<1>1. ViewInv => IInv /\ \A c \in Client : ClientView(c)
  BY DEF ViewInv
<1>2. QED
  BY <1>1, ViewInductive, ViewStart, ViewMaps, PTL DEF Spec, ImplementsView, View!Spec
=============================================================================
