---------------------------- MODULE TerminalView ----------------------------
(***************************************************************************)
(* What a terminal slot promises its clients: a screen always shows one    *)
(* unbroken stretch of the output of one shell.  It is extended by the     *)
(* bytes that come next, in order and only once they were written, or it   *)
(* is cleared and starts again somewhere in the output of some shell.      *)
(***************************************************************************)
EXTENDS Integers

CONSTANTS
  Client,    \* the clients of the slot
  MaxEpoch,  \* bound: shells spawned into the slot
  MaxWrite   \* bound: bytes of one write

VARIABLES
  written,   \* bytes each shell has written
  view       \* the stretch each client shows; epoch 0 before the first

vars == <<written, view>>

Epoch == 1..MaxEpoch

Init ==
  /\ written = [e \in Epoch |-> 0]
  /\ view = [c \in Client |-> [e |-> 0, lo |-> 0, hi |-> 0]]

Write(e) ==
  /\ \E n \in 1..MaxWrite : written' = [written EXCEPT ![e] = @ + n]
  /\ UNCHANGED view

Extend(c) ==
  /\ view[c].e # 0
  /\ \E h \in (view[c].hi + 1)..written[view[c].e] : view' = [view EXCEPT ![c].hi = h]
  /\ UNCHANGED written

Restart(c) ==
  /\ \E e \in Epoch : \E p \in 0..written[e] :
       view' = [view EXCEPT ![c] = [e |-> e, lo |-> p, hi |-> p]]
  /\ UNCHANGED written

Next == (\E e \in Epoch : Write(e)) \/ (\E c \in Client : Extend(c) \/ Restart(c))

Spec == Init /\ [][Next]_vars
=============================================================================
