---------------------------- MODULE TerminalLife ----------------------------
(***************************************************************************)
(* The life of the shells of one terminal slot (terminals.rs): attach()    *)
(* spawns a child process and two threads for it, reset() and a respawning *)
(* attach() stop it, and the command thread is the one that reaps it.  The *)
(* child, its PTY, the bounded input queue and the shared killer (a bare   *)
(* pid) are what the threads race on; the bytes are ShellStream's.         *)
(***************************************************************************)
EXTENDS Integers, Sequences

CONSTANTS
  QCap,        \* capacity of the input queue (128 in the code)
  MaxShell,    \* bound: child processes forked for the slot
  MaxHolders,  \* bound: attachments of one shell at a time
  MaxSends,    \* bound: commands clients send
  MaxJoins,    \* bound: times attach() finds the slot's shell alive
  Command,     \* what clients send: a subset of {"input", "resize"}
  MayIgnore    \* whether a shell may survive SIGHUP (nohup, a trap)

ASSUME LifeAssumption ==
  /\ QCap \in Nat \ {0} /\ MaxShell \in Nat /\ MaxHolders \in Nat /\ MaxSends \in Nat /\ MaxJoins \in Nat
  /\ Command \subseteq {"input", "resize"} /\ MayIgnore \in BOOLEAN

VARIABLES
  slot,      \* the Terminal the slot holds, named by its child; 0 is None
  forked,    \* children forked so far
  apc,       \* the attach() that holds the slot lock, or idle
  anew,      \* the child that attach() is setting up, or the Terminal it stops
  child,     \* none, run, zombie (exited, not waited for), reaped
  doom,      \* a signal that ends the child is on its way
  hung,      \* the PTY's slave side is closed
  alive,     \* Terminal.alive
  reader,    \* reader thread: none, read, eof (alive = false), done
  cmd,       \* command thread: none, recv, write, then Child::kill() (kill, poll,
             \* sigkill), retire, wait, done
  queue,     \* the input queue
  killer,    \* whether the shared killer still names the child
  stopper,   \* a stop() of this Terminal: none, before the hangup, before the nudge
  holders,   \* input_tx clones that attachments hold
  sends,     \* commands sent by clients
  joins      \* attaches to a live shell

vars == <<slot, forked, apc, anew, child, doom, hung, alive, reader, cmd, queue,
          killer, stopper, holders, sends, joins>>

Shell  == 1..MaxShell
NoShell == 0

----------------------------------------------------------------------------
(* The input queue. *)

\* try_send(): refused when the queue is full or the command thread is gone.
Accepts(e) == cmd[e] # "done" /\ Len(queue[e]) < QCap
Offer(e, x) == queue' = IF Accepts(e) THEN [queue EXCEPT ![e] = Append(@, x)] ELSE queue

\* Who keeps the queue open: the Terminal, its reader thread, attachments.
HasSenderOwn(e) ==
  slot = e \/ stopper[e] # "none" \/ reader[e] \in {"read", "eof"} \/ holders[e] > 0 \/ cmd[e] # "done"
HasSender(e) ==
  slot = e \/ stopper[e] # "none" \/ reader[e] \in {"read", "eof"} \/ holders[e] > 0

----------------------------------------------------------------------------
(* The child process and its PTY. *)

\* The shell exits, on its own or because of a signal; its session's PTY is
\* hung up with it.
ChildExit(e) ==
  /\ child[e] = "run"
  /\ child' = [child EXCEPT ![e] = "zombie"]
  /\ hung' = [hung EXCEPT ![e] = TRUE]
  /\ UNCHANGED <<slot, forked, apc, anew, doom, alive, reader, cmd, queue, killer, stopper, holders, sends, joins>>

\* The shell lets go of its terminal and lives on.
ChildDetach(e) ==
  /\ child[e] = "run" /\ ~hung[e]
  /\ hung' = [hung EXCEPT ![e] = TRUE]
  /\ UNCHANGED <<slot, forked, apc, anew, child, doom, alive, reader, cmd, queue, killer, stopper, holders, sends, joins>>

\* ChildKiller::kill(), and how Child::kill() begins: SIGHUP, which a program
\* may survive.
Hangup(e) == \/ doom' = [doom EXCEPT ![e] = TRUE]
             \/ MayIgnore /\ UNCHANGED doom

\* How Child::kill() ends when its polls found the child running: SIGKILL.
Kill(e) == doom' = [doom EXCEPT ![e] = TRUE]

----------------------------------------------------------------------------
(* attach(), under the slot lock. *)

\* A dead Terminal is taken out of the slot and stopped.
AttachTake ==
  /\ apc = "idle" /\ forked < MaxShell
  /\ slot # NoShell /\ ~alive[slot]
  /\ stopper' = [stopper EXCEPT ![slot] = "hangup"]
  /\ anew' = slot /\ slot' = NoShell /\ apc' = "stop"
  /\ UNCHANGED <<forked, child, doom, hung, alive, reader, cmd, queue, killer, holders, sends, joins>>

AttachEmpty ==
  /\ apc = "idle" /\ forked < MaxShell
  /\ slot = NoShell
  /\ apc' = "fork"
  /\ UNCHANGED <<slot, forked, anew, child, doom, hung, alive, reader, cmd, queue, killer, stopper, holders, sends, joins>>

AttachStopped ==
  /\ apc = "stop" /\ stopper[anew] = "none"
  /\ apc' = "fork"
  /\ UNCHANGED <<slot, forked, anew, child, doom, hung, alive, reader, cmd, queue, killer, stopper, holders, sends, joins>>

\* openpty, the login command or the fork fails: nothing to clean up.
ForkFail ==
  /\ apc = "fork"
  /\ apc' = "idle" /\ anew' = NoShell
  /\ UNCHANGED <<slot, forked, child, doom, hung, alive, reader, cmd, queue, killer, stopper, holders, sends, joins>>

Fork ==
  /\ apc = "fork"
  /\ forked' = forked + 1 /\ anew' = forked + 1 /\ apc' = "handles"
  /\ child' = [child EXCEPT ![forked + 1] = "run"]
  /\ killer' = [killer EXCEPT ![forked + 1] = TRUE]
  /\ UNCHANGED <<slot, doom, hung, alive, reader, cmd, queue, stopper, holders, sends, joins>>

\* The PTY handles cannot be cloned: the child is killed and waited for.  Nobody
\* else has its killer, so signals, polls and wait() need not be told apart.
HandlesLeak ==
  /\ apc = "handles"
  /\ apc' = "idle" /\ anew' = NoShell
  /\ UNCHANGED <<slot, forked, child, doom, hung, alive, reader, cmd, queue, killer, stopper, holders, sends, joins>>
HandlesFail ==
  /\ apc = "handles"
  /\ Kill(anew)
  /\ apc' = "abandon"
  /\ UNCHANGED <<slot, forked, anew, child, hung, alive, reader, cmd, queue, killer, stopper, holders, sends, joins>>

Abandon ==
  /\ apc = "abandon" /\ child[anew] = "zombie"
  /\ child' = [child EXCEPT ![anew] = "reaped"]
  /\ killer' = [killer EXCEPT ![anew] = FALSE]
  /\ apc' = "idle" /\ anew' = NoShell
  /\ UNCHANGED <<slot, forked, doom, hung, alive, reader, cmd, queue, stopper, holders, sends, joins>>

\* Both threads start and the slot holds the new Terminal.
Threads ==
  /\ apc = "handles"
  /\ reader' = [reader EXCEPT ![anew] = "read"]
  /\ cmd' = [cmd EXCEPT ![anew] = "recv"]
  /\ alive' = [alive EXCEPT ![anew] = TRUE]
  /\ slot' = anew /\ anew' = NoShell /\ apc' = "use"
  /\ UNCHANGED <<forked, child, doom, hung, queue, killer, stopper, holders, sends, joins>>

AttachLive ==
  /\ apc = "idle" /\ slot # NoShell /\ alive[slot] /\ holders[slot] < MaxHolders
  /\ joins < MaxJoins /\ joins' = joins + 1
  /\ apc' = "use"
  /\ UNCHANGED <<slot, forked, anew, child, doom, hung, alive, reader, cmd, queue, killer, stopper, holders, sends>>

\* The attachment resizes the PTY through the queue and keeps a sender.
AttachDone ==
  /\ apc = "use"
  /\ Offer(slot, "resize")
  /\ holders' = [holders EXCEPT ![slot] = @ + 1]
  /\ apc' = "idle"
  /\ UNCHANGED <<slot, forked, anew, child, doom, hung, alive, reader, cmd, killer, stopper, sends, joins>>

\* attach_view(): a sender too, and nothing else.
AttachView ==
  /\ apc = "idle" /\ slot # NoShell /\ alive[slot] /\ holders[slot] < MaxHolders
  /\ holders' = [holders EXCEPT ![slot] = @ + 1]
  /\ UNCHANGED <<slot, forked, apc, anew, child, doom, hung, alive, reader, cmd, queue, killer, stopper, sends, joins>>

----------------------------------------------------------------------------
(* Clients: input, resizes, and going away. *)

\* Input the queue refuses closes the connection, and its attachment with it.
ClientSend(e, x) ==
  /\ holders[e] > 0 /\ sends < MaxSends
  /\ Offer(e, x)
  /\ sends' = sends + 1
  /\ holders' = IF x = "input" /\ ~Accepts(e) THEN [holders EXCEPT ![e] = @ - 1] ELSE holders
  /\ UNCHANGED <<slot, forked, apc, anew, child, doom, hung, alive, reader, cmd, killer, stopper, joins>>

Detach(e) ==
  /\ holders[e] > 0
  /\ holders' = [holders EXCEPT ![e] = @ - 1]
  /\ UNCHANGED <<slot, forked, apc, anew, child, doom, hung, alive, reader, cmd, queue, killer, stopper, sends, joins>>

----------------------------------------------------------------------------
(* reset() and stop(). *)

ResetTake ==
  /\ apc = "idle" /\ slot # NoShell
  /\ stopper' = [stopper EXCEPT ![slot] = "hangup"]
  /\ slot' = NoShell
  /\ UNCHANGED <<forked, apc, anew, child, doom, hung, alive, reader, cmd, queue, killer, holders, sends, joins>>

\* Under the killer's lock: signal the child while the killer names it.
StopQueueOnly(e) ==
  /\ stopper[e] = "hangup"
  /\ stopper' = [stopper EXCEPT ![e] = "nudge"]
  /\ UNCHANGED <<slot, forked, apc, anew, child, doom, hung, alive, reader, cmd, queue, killer, holders, sends, joins>>
StopHangup(e) ==
  /\ stopper[e] = "hangup"
  /\ IF killer[e] THEN Hangup(e) ELSE UNCHANGED doom
  /\ stopper' = [stopper EXCEPT ![e] = "nudge"]
  /\ UNCHANGED <<slot, forked, apc, anew, child, hung, alive, reader, cmd, queue, killer, holders, sends, joins>>

\* The nudge, after which the Terminal is dropped.
StopNudge(e) ==
  /\ stopper[e] = "nudge"
  /\ Offer(e, "kill")
  /\ stopper' = [stopper EXCEPT ![e] = "none"]
  /\ UNCHANGED <<slot, forked, apc, anew, child, doom, hung, alive, reader, cmd, killer, holders, sends, joins>>

----------------------------------------------------------------------------
(* The reader thread. *)

ReaderEof(e) ==
  /\ reader[e] = "read" /\ hung[e]
  /\ alive' = [alive EXCEPT ![e] = FALSE]
  /\ reader' = [reader EXCEPT ![e] = "eof"]
  /\ UNCHANGED <<slot, forked, apc, anew, child, doom, hung, cmd, queue, killer, stopper, holders, sends, joins>>

ReaderSilent(e) ==
  /\ reader[e] = "eof"
  /\ reader' = [reader EXCEPT ![e] = "done"]
  /\ UNCHANGED <<slot, forked, apc, anew, child, doom, hung, alive, cmd, queue, killer, stopper, holders, sends, joins>>
\* The reader wakes the command thread, without waiting, and returns.
ReaderNudge(e) ==
  /\ reader[e] = "eof"
  /\ Offer(e, "kill")
  /\ reader' = [reader EXCEPT ![e] = "done"]
  /\ UNCHANGED <<slot, forked, apc, anew, child, doom, hung, alive, cmd, killer, stopper, holders, sends, joins>>

----------------------------------------------------------------------------
(* The command thread. *)

CmdRecv(e) ==
  /\ cmd[e] = "recv" /\ queue[e] # <<>>
  /\ queue' = [queue EXCEPT ![e] = Tail(@)]
  /\ cmd' = [cmd EXCEPT ![e] = CASE Head(queue[e]) = "input"  -> "write"
                                 [] Head(queue[e]) = "resize" -> "recv"
                                 [] Head(queue[e]) = "kill"   -> "kill"]
  /\ UNCHANGED <<slot, forked, apc, anew, child, doom, hung, alive, reader, killer, stopper, holders, sends, joins>>

\* recv() fails once the queue is drained and every sender is gone.
CmdDisconnected(e) ==
  /\ cmd[e] = "recv" /\ queue[e] = <<>> /\ ~HasSender(e)
  /\ cmd' = [cmd EXCEPT ![e] = "kill"]
  /\ UNCHANGED <<slot, forked, apc, anew, child, doom, hung, alive, reader, queue, killer, stopper, holders, sends, joins>>

\* write_all() returns when the program reads, or fails once the PTY is hung
\* up; until then it blocks.
CmdWrote(e) ==
  /\ cmd[e] = "write" /\ ~hung[e]
  /\ cmd' = [cmd EXCEPT ![e] = "recv"]
  /\ UNCHANGED <<slot, forked, apc, anew, child, doom, hung, alive, reader, queue, killer, stopper, holders, sends, joins>>

CmdWriteFails(e) ==
  /\ cmd[e] = "write" /\ hung[e]
  /\ cmd' = [cmd EXCEPT ![e] = "kill"]
  /\ UNCHANGED <<slot, forked, apc, anew, child, doom, hung, alive, reader, queue, killer, stopper, holders, sends, joins>>

\* child.kill(): SIGHUP, then five polls with try_wait(), 50 ms apart.  A poll
\* that finds the child dead reaps it.
CmdHangup(e) ==
  /\ cmd[e] = "kill"
  /\ Hangup(e)
  /\ cmd' = [cmd EXCEPT ![e] = "poll"]
  /\ UNCHANGED <<slot, forked, apc, anew, child, hung, alive, reader, queue, killer, stopper, holders, sends, joins>>

CmdPollReaps(e) ==
  /\ cmd[e] = "poll" /\ child[e] = "zombie"
  /\ child' = [child EXCEPT ![e] = "reaped"]
  /\ cmd' = [cmd EXCEPT ![e] = "retire"]
  /\ UNCHANGED <<slot, forked, apc, anew, doom, hung, alive, reader, queue, killer, stopper, holders, sends, joins>>

CmdPollGivesUp(e) ==
  /\ cmd[e] = "poll" /\ child[e] = "run"
  /\ cmd' = [cmd EXCEPT ![e] = "sigkill"]
  /\ UNCHANGED <<slot, forked, apc, anew, child, doom, hung, alive, reader, queue, killer, stopper, holders, sends, joins>>

CmdSigkill(e) ==
  /\ cmd[e] = "sigkill"
  /\ Kill(e)
  /\ cmd' = [cmd EXCEPT ![e] = "retire"]
  /\ UNCHANGED <<slot, forked, apc, anew, child, hung, alive, reader, queue, killer, stopper, holders, sends, joins>>

\* The killer is retired, under its lock, before wait().
CmdRetireNot(e) ==
  /\ cmd[e] = "retire"
  /\ cmd' = [cmd EXCEPT ![e] = "wait"]
  /\ UNCHANGED <<slot, forked, apc, anew, child, doom, hung, alive, reader, queue, killer, stopper, holders, sends, joins>>
CmdRetire(e) ==
  /\ cmd[e] = "retire"
  /\ killer' = [killer EXCEPT ![e] = FALSE]
  /\ cmd' = [cmd EXCEPT ![e] = "wait"]
  /\ UNCHANGED <<slot, forked, apc, anew, child, doom, hung, alive, reader, queue, stopper, holders, sends, joins>>

\* wait(), which returns at once for a child that a poll has reaped.
CmdReap(e) ==
  /\ cmd[e] = "wait" /\ child[e] \in {"zombie", "reaped"}
  /\ child' = [child EXCEPT ![e] = "reaped"]
  /\ cmd' = [cmd EXCEPT ![e] = "done"]
  /\ UNCHANGED <<slot, forked, apc, anew, doom, hung, alive, reader, queue, killer, stopper, holders, sends, joins>>

----------------------------------------------------------------------------
Init ==
  /\ slot = NoShell /\ forked = 0 /\ apc = "idle" /\ anew = NoShell
  /\ child = [e \in Shell |-> "none"]
  /\ doom = [e \in Shell |-> FALSE]
  /\ hung = [e \in Shell |-> FALSE]
  /\ alive = [e \in Shell |-> FALSE]
  /\ reader = [e \in Shell |-> "none"]
  /\ cmd = [e \in Shell |-> "none"]
  /\ queue = [e \in Shell |-> <<>>]
  /\ killer = [e \in Shell |-> FALSE]
  /\ stopper = [e \in Shell |-> "none"]
  /\ holders = [e \in Shell |-> 0]
  /\ sends = 0 /\ joins = 0

Attach ==
  \/ AttachTake \/ AttachEmpty \/ AttachStopped \/ ForkFail \/ Fork \/ HandlesFail
  \/ Abandon \/ Threads \/ AttachLive \/ AttachDone \/ AttachView

Stop(e)    == StopHangup(e) \/ StopNudge(e)
Reader(e)  == ReaderEof(e) \/ ReaderNudge(e)
CmdThread(e) ==
  \/ CmdRecv(e) \/ CmdDisconnected(e) \/ CmdWriteFails(e)
  \/ CmdHangup(e) \/ CmdPollReaps(e) \/ CmdPollGivesUp(e) \/ CmdSigkill(e)
  \/ CmdRetire(e) \/ CmdReap(e)

Environment(e) ==
  \/ ChildExit(e) \/ ChildDetach(e) \/ CmdWrote(e) \/ Detach(e)
  \/ \E x \in Command : ClientSend(e, x)

Next == Attach \/ ResetTake \/ \E e \in Shell : Stop(e) \/ Reader(e) \/ CmdThread(e) \/ Environment(e)

Spec == Init /\ [][Next]_vars

\* Threads run and signals are delivered; a program need not read its input,
\* nor a user ever detach.
Fairness ==
  /\ WF_vars(AttachStopped \/ Abandon \/ Threads \/ AttachDone)
  /\ \A e \in Shell :
       /\ WF_vars(Stop(e)) /\ WF_vars(Reader(e)) /\ WF_vars(CmdThread(e))
       /\ WF_vars(doom[e] /\ ChildExit(e))

FairSpec == Spec /\ Fairness

----------------------------------------------------------------------------
\* Every variable holds a value of the kind its Rust counterpart has.
TypeOK ==
  /\ slot \in 0..MaxShell /\ forked \in 0..MaxShell /\ anew \in 0..MaxShell
  /\ apc \in {"idle", "stop", "fork", "handles", "abandon", "use"}
  /\ child \in [Shell -> {"none", "run", "zombie", "reaped"}]
  /\ doom \in [Shell -> BOOLEAN] /\ hung \in [Shell -> BOOLEAN]
  /\ alive \in [Shell -> BOOLEAN] /\ killer \in [Shell -> BOOLEAN]
  /\ reader \in [Shell -> {"none", "read", "eof", "done"}]
  /\ cmd \in [Shell -> {"none", "recv", "write", "kill", "poll", "sigkill", "retire", "wait", "done"}]
  /\ queue \in [Shell -> Seq({"input", "resize", "kill"})]
  /\ stopper \in [Shell -> {"none", "hangup", "nudge"}]
  /\ holders \in [Shell -> Nat] /\ sends \in Nat /\ joins \in Nat

\* stop() never signals a child that was reaped ("the child is either still
\* unreaped when we signal it, or already cleared and we do nothing").
KillerFresh ==
  \A e \in Shell : stopper[e] = "hangup" /\ killer[e] => child[e] # "reaped"

\* However stop() and the unwinding command thread interleave, the shared killer
\* outlives its child only between the poll of Child::kill() that reaps it and
\* the take() after it: what wait() reaps has no killer left, and once the thread
\* is past take() no later stop() can reach a pid that is reused.
KillerRetired ==
  \A e \in Shell : killer[e] /\ child[e] = "reaped" => cmd[e] = "retire"

\* The child that attach() has forked but not yet put into the slot.
InSetup(e) == anew = e /\ apc \in {"handles", "abandon"}

\* Every child that is not reaped has somebody who will: the command thread,
\* or the attach() that is still setting it up or cleaning up after itself.
NoOrphan ==
  \A e \in Shell : child[e] \in {"run", "zombie"} => cmd[e] \notin {"none", "done"} \/ InSetup(e)

\* A shell that is in no slot is condemned: a reset or a respawn never leaves
\* the old shell running behind the new one, even if its queue is full.
Condemned ==
  \A e \in Shell : (child[e] = "run" /\ slot # e /\ ~InSetup(e)) => doom[e] \/ stopper[e] = "hangup"

\* An exited shell is reaped without anybody re-attaching or resetting its
\* slot ("Wake the command thread so it reaps the child NOW").
Reaped == \A e \in Shell : (child[e] = "zombie") ~> (child[e] = "reaped")

\* Stopping a shell ends it, though its input queue may be full and its
\* command thread blocked in write_all() ("Hanging the shell up is what
\* unblocks that write").
StopEnds == \A e \in Shell : (stopper[e] # "none") ~> (child[e] \in {"zombie", "reaped"})

\* A shell that the slot and every attachment have let go of.
LetGo(e) == slot # e /\ ~InSetup(e) /\ holders[e] = 0

\* What is left of both promises when the nudges of stop() and of the reader
\* were refused by a full queue: once the slot and the last attachment have let
\* go of a shell, one that exited or was condemned is reaped, whatever is still
\* queued and though its command thread is blocked in write_all().
LeftReaped ==
  \A e \in Shell :
    (LetGo(e) /\ (child[e] = "zombie" \/ (child[e] = "run" /\ doom[e]))) ~> (child[e] = "reaped")
=============================================================================
