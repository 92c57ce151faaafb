--------------------------- MODULE MuxConnection ---------------------------
(***************************************************************************)
(* The input half of the mux bridge (pty.rs, ws_handler() of main.rs): one *)
(* connection that carries several slots.  Frames of the client arrive in  *)
(* order and are handled one at a time; input goes to a slot's bounded     *)
(* command queue without waiting, and what ends the loop is read by        *)
(* select!, which looks at the arms in no fixed order.  The output half is *)
(* ShellStream; a command thread in detail is TerminalLife.                *)
(***************************************************************************)
EXTENDS Integers, Sequences, FiniteSets

CONSTANTS
  MuxSlot,     \* slots, counted from 1 here: 0 stands for none
  CmdCap,      \* commands a shell's queue holds (128)
  MaxMuxShell, \* bound: shells spawned
  MaxFrame     \* bound: frames the client sends

ASSUME MuxAssumption ==
  /\ 0 \notin MuxSlot
  /\ CmdCap \in Nat \ {0} /\ MaxMuxShell \in Nat /\ MaxFrame \in Nat

VARIABLES
  loop,      \* where mux_bridge() stands
  opening,   \* the slot whose hello it is sending, the shell it attached to, and ro
  channel,   \* channels: the shell whose queue each slot feeds, and read_only
  muxShell,  \* each shell: its slot, whether its command thread lives, its queue
  tenant,    \* each slot's shell, 0 for none
  wire,      \* frames in flight to the server
  frames,    \* frames sent so far
  view,      \* the client's side of each slot: open, read-only, inputs numbered so far
  gone,      \* the session has left the store
  seenGone,  \* it had when the bridge subscribed to its watch
  handler,   \* ws_handler() holds a clone of the session
  got        \* checking only: inputs each attachment has put into its shell's queue

muxVars == <<loop, opening, channel, muxShell, tenant, wire, frames, view, gone, seenGone, handler, got>>

MuxShell == 1..MaxMuxShell
NoChannel == [shell |-> 0, ro |-> FALSE]
NotOpening == [slot |-> 0, shell |-> 0, ro |-> FALSE]
Unopened == [open |-> FALSE, ro |-> FALSE, n |-> 0]
Unspawned == [slot |-> 0, up |-> FALSE, cmds |-> <<>>]

MuxInit ==
  /\ loop = "off" /\ opening = NotOpening /\ handler = FALSE
  /\ channel = [s \in MuxSlot |-> NoChannel]
  /\ muxShell = [g \in MuxShell |-> Unspawned] /\ tenant = [s \in MuxSlot |-> 0]
  /\ wire = <<>> /\ frames = 0 /\ view = [s \in MuxSlot |-> Unopened]
  /\ gone = FALSE /\ seenGone = FALSE
  /\ got = [s \in MuxSlot |-> <<>>]

----------------------------------------------------------------------------
(* The session, and the upgrade. *)

SessionGoes ==
  /\ ~gone /\ gone' = TRUE
  /\ UNCHANGED <<loop, opening, channel, muxShell, tenant, wire, frames, view, seenGone, handler, got>>

\* ws_handler(): a clone of a session that is still there ...
WsFinds ==
  /\ loop = "off" /\ ~handler /\ ~gone
  /\ handler' = TRUE
  /\ UNCHANGED <<loop, opening, channel, muxShell, tenant, wire, frames, view, gone, seenGone, got>>

\* ... whose watch counts the value it has now as seen.
WsSubscribes ==
  /\ handler /\ handler' = FALSE
  /\ loop' = "turn" /\ seenGone' = gone
  /\ UNCHANGED <<opening, channel, muxShell, tenant, wire, frames, view, gone, got>>

\* The bridge returns: attachments go, shells stay.
ConnEnds ==
  /\ loop' = "off" /\ opening' = NotOpening
  /\ channel' = [s \in MuxSlot |-> NoChannel]
  /\ wire' = <<>> /\ view' = [s \in MuxSlot |-> Unopened]
  /\ got' = [s \in MuxSlot |-> <<>>]
  /\ UNCHANGED <<tenant, frames, gone, seenGone, handler>>

\* The revocation arm is ready: the value changed, or all senders are gone.
RevokedByValue == gone /\ ~seenGone
Revoked == (gone /\ ~seenGone) \/ (gone /\ ~handler)

EndsRevoked == loop = "turn" /\ Revoked /\ ConnEnds /\ UNCHANGED muxShell

\* The deadline, or the peer closed, or a write to it failed.
EndsOtherwise == loop \in {"turn", "send"} /\ ConnEnds /\ UNCHANGED muxShell

----------------------------------------------------------------------------
(* What the client sends.  The inputs an attachment should deliver are      *)
(* numbered; one sent in read-only mode, or to a slot that is not open, is  *)
(* number 0.                                                                *)

Sends(f) ==
  /\ loop # "off" /\ frames < MaxFrame
  /\ frames' = frames + 1 /\ wire' = Append(wire, f)
  /\ UNCHANGED <<loop, opening, channel, muxShell, tenant, gone, seenGone, handler, got>>

ClientOpens(s, ro) ==
  /\ Sends([t |-> "open", slot |-> s, ro |-> ro, n |-> 0])
  /\ view' = [view EXCEPT ![s] = [open |-> TRUE, ro |-> ro, n |-> 0]]

ClientSwitches(s, ro) ==
  /\ Sends([t |-> "mode", slot |-> s, ro |-> ro, n |-> 0])
  /\ view' = [view EXCEPT ![s].ro = ro]

ClientCloses(s) ==
  /\ Sends([t |-> "close", slot |-> s, ro |-> FALSE, n |-> 0])
  /\ view' = [view EXCEPT ![s] = Unopened]

ClientTypes(s) ==
  LET v == view[s]
      n == IF v.open /\ ~v.ro THEN v.n + 1 ELSE 0
  IN /\ Sends([t |-> "input", slot |-> s, ro |-> v.ro, n |-> n])
     /\ view' = [view EXCEPT ![s].n = IF n = 0 THEN @ ELSE n]

ClientResizes(s) ==
  /\ Sends([t |-> "resize", slot |-> s, ro |-> FALSE, n |-> 0])
  /\ UNCHANGED view

----------------------------------------------------------------------------
(* The loop: one frame. *)

Arrives(t) == loop = "turn" /\ wire # <<>> /\ Head(wire).t = t
Handled == wire' = Tail(wire) /\ UNCHANGED <<frames, view, gone, seenGone, handler>>

\* try_send(): room, and somebody who receives.
TakesNow(g) == muxShell[g].up /\ Len(muxShell[g].cmds) < CmdCap
Queued(g, c) == muxShell' = [muxShell EXCEPT ![g].cmds = Append(@, c)]
Offered(g, c) == IF TakesNow(g) THEN Queued(g, c) ELSE UNCHANGED muxShell
Writable(s) == channel[s] # NoChannel /\ ~channel[s].ro

HandleInput ==
  LET s == Head(wire).slot
  IN /\ Arrives("input") /\ Writable(s) /\ TakesNow(channel[s].shell)
     /\ Queued(channel[s].shell, "input")
     /\ got' = [got EXCEPT ![s] = Append(@, Head(wire).n)]
     /\ Handled /\ UNCHANGED <<loop, opening, channel, tenant>>

\* An input that cannot be queued ends the connection; a version that goes on.
OverloadGoesOn ==
  /\ Arrives("input")
  /\ Writable(Head(wire).slot) /\ ~TakesNow(channel[Head(wire).slot].shell)
  /\ Handled /\ UNCHANGED <<loop, opening, channel, muxShell, tenant, got>>

Overload ==
  /\ Arrives("input")
  /\ Writable(Head(wire).slot) /\ ~TakesNow(channel[Head(wire).slot].shell)
  /\ ConnEnds /\ UNCHANGED muxShell

\* A resize that cannot is dropped.
HandleResize ==
  LET s == Head(wire).slot
  IN /\ Arrives("resize") /\ Writable(s)
     /\ Offered(channel[s].shell, "resize")
     /\ Handled /\ UNCHANGED <<loop, opening, channel, tenant, got>>

\* Not for a channel, or read-only.
HandleNothing ==
  /\ Arrives("input") \/ Arrives("resize")
  /\ ~Writable(Head(wire).slot)
  /\ Handled /\ UNCHANGED <<loop, opening, channel, muxShell, tenant, got>>

HandleMode ==
  LET s == Head(wire).slot
  IN /\ Arrives("mode")
     /\ channel' = IF channel[s] = NoChannel THEN channel ELSE [channel EXCEPT ![s].ro = Head(wire).ro]
     /\ Handled /\ UNCHANGED <<loop, opening, muxShell, tenant, got>>

HandleClose ==
  LET s == Head(wire).slot
  IN /\ Arrives("close")
     /\ channel' = [channel EXCEPT ![s] = NoChannel]
     /\ got' = [got EXCEPT ![s] = <<>>]
     /\ Handled /\ UNCHANGED <<loop, opening, muxShell, tenant>>

\* A re-open drops the old channel and attaches: to the slot's shell, to a new
\* one, or not at all; what it attaches to is offered the client's size.  Whether
\* the reader thread has noticed the death of the slot's shell, which decides
\* between the two, is left open (TerminalLife).
Spawned == {g \in MuxShell : muxShell[g] # Unspawned}

AttachesTo(s, g) ==
  /\ opening' = [slot |-> s, shell |-> g, ro |-> Head(wire).ro]
  /\ loop' = "send"

HandleOpen ==
  LET s == Head(wire).slot
      new == Cardinality(Spawned) + 1
  IN /\ Arrives("open")
     /\ channel' = [channel EXCEPT ![s] = NoChannel]
     /\ got' = [got EXCEPT ![s] = <<>>]
     /\ Handled
     /\ \/ /\ tenant[s] # 0 /\ AttachesTo(s, tenant[s])
           /\ Offered(tenant[s], "resize") /\ UNCHANGED tenant
        \/ /\ new \in MuxShell /\ AttachesTo(s, new)
           /\ muxShell' = [muxShell EXCEPT ![new] = [slot |-> s, up |-> TRUE, cmds |-> <<"resize">>]]
           /\ tenant' = [tenant EXCEPT ![s] = new]
        \/ UNCHANGED <<muxShell, tenant, opening, loop>>

\* ... and the channel is there once hello and replay are in the writer queue.
OpenDone ==
  /\ loop = "send" /\ loop' = "turn" /\ opening' = NotOpening
  /\ channel' = [channel EXCEPT ![opening.slot] = [shell |-> opening.shell, ro |-> opening.ro]]
  /\ UNCHANGED <<muxShell, tenant, wire, frames, view, gone, seenGone, handler, got>>

----------------------------------------------------------------------------
(* The shells, seen from here. *)

KeptByShells == UNCHANGED <<loop, opening, channel, wire, frames, view, gone, seenGone, handler, got>>

TakesCommand(g) ==
  /\ muxShell[g].up /\ muxShell[g].cmds # <<>>
  /\ muxShell' = [muxShell EXCEPT ![g].cmds = Tail(@)]
  /\ UNCHANGED tenant /\ KeptByShells

\* The shell exits or is killed, and its command thread with it.
MuxShellEnds(g) ==
  /\ muxShell[g].up
  /\ muxShell' = [muxShell EXCEPT ![g].up = FALSE, ![g].cmds = <<>>]
  /\ UNCHANGED tenant /\ KeptByShells

\* reset(): the slot lets go of a shell whose thread may still be there.
SlotReset(s) ==
  /\ tenant[s] # 0 /\ tenant' = [tenant EXCEPT ![s] = 0]
  /\ UNCHANGED muxShell /\ KeptByShells

MuxNext ==
  \/ SessionGoes \/ WsFinds \/ WsSubscribes \/ EndsRevoked \/ EndsOtherwise
  \/ HandleInput \/ Overload \/ HandleResize \/ HandleNothing
  \/ HandleMode \/ HandleClose \/ HandleOpen \/ OpenDone
  \/ \E s \in MuxSlot :
       \/ ClientCloses(s) \/ ClientTypes(s) \/ ClientResizes(s) \/ SlotReset(s)
       \/ \E ro \in BOOLEAN : ClientOpens(s, ro) \/ ClientSwitches(s, ro)
  \/ \E g \in MuxShell : TakesCommand(g) \/ MuxShellEnds(g)

MuxSpec == MuxInit /\ [][MuxNext]_muxVars

----------------------------------------------------------------------------
(* Properties. *)

\* Types; a channel feeds a shell of its own slot.
MuxTypeOK ==
  /\ loop \in {"off", "turn", "send"} /\ (loop = "send") = (opening # NotOpening)
  /\ opening.shell \in MuxShell \cup {0}
  /\ \A s \in MuxSlot :
       /\ channel[s] \in [shell : MuxShell \cup {0}, ro : BOOLEAN]
       /\ channel[s].shell # 0 => muxShell[channel[s].shell].slot = s
       /\ tenant[s] # 0 => muxShell[tenant[s]].slot = s
       /\ view[s] \in [open : BOOLEAN, ro : BOOLEAN, n : Nat]
  /\ \A g \in MuxShell : Len(muxShell[g].cmds) <= CmdCap
  /\ frames \in 0..MaxFrame /\ gone \in BOOLEAN /\ seenGone \in BOOLEAN /\ handler \in BOOLEAN

\* What an attachment delivers to its shell is what was typed into it: no key
\* is missing between two that arrived, however full the queue was and
\* whatever shell died, and none typed in read-only mode is among them,
\* whichever of the mode switches, re-opens and closes were in flight.
InputUnbroken == \A s \in MuxSlot : \A i \in 1..Len(got[s]) : got[s][i] = i

\* A connection whose session is gone is told so, even if it went between
\* ws_handler()'s look at the store and its subscription to the watch.
RevocationSeen == loop = "turn" /\ gone => Revoked
=============================================================================
