------------------------------- MODULE MCEnds -------------------------------
(* What must end, for TLC in one run: viewers whose lease has ended, and   *)
(* shells that were let go of.  As in MCParts, `part` is chosen at the     *)
(* start, and that part alone takes steps.  The fairness of the other asks *)
(* for nothing: initially none of the actions it names is enabled.         *)
EXTENDS ShareLink, Sequences

CONSTANTS QCap, MaxShell, MaxHolders, MaxSends, MaxJoins, Command, MayIgnore

VARIABLES
  part,
  slot, forked, apc, anew, child, doom, hung, alive, reader, cmd, queue, killer, stopper, holders,
  sends, joins

lifeVars == <<slot, forked, apc, anew, child, doom, hung, alive, reader, cmd, queue, killer, stopper,
              holders, sends, joins>>

Life == INSTANCE TerminalLife

EndsInit ==
  /\ part \in {"life", "share"}
  /\ Life!Init /\ Init
  /\ (part = "share" \/ \A g \in Id : token[g].user = CHOOSE u \in User : TRUE)

EndsNext ==
  /\ UNCHANGED part
  /\ \/ part = "life" /\ Life!Next /\ UNCHANGED vars
     \/ part = "share" /\ Next /\ UNCHANGED lifeVars

EndsSpec == EndsInit /\ [][EndsNext]_<<part, lifeVars, vars>> /\ Life!Fairness /\ Fairness

\* LeftReaped of TerminalLife: a shell that was let go of and is condemned or dead
\* is reaped by its command thread (terminals.rs).
LeftReaped == Life!LeftReaped
=============================================================================
