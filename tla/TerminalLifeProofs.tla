------------------------- MODULE TerminalLifeProofs -------------------------
(***************************************************************************)
(* Proofs about TerminalLife for every queue capacity, any number of       *)
(* shells, attachments and commands.                                       *)
(***************************************************************************)
EXTENDS TerminalLife, SequenceTheorems, TLAPS

\* Nothing is known yet of children that were not forked.
FreshInv ==
  \A e \in Shell : e > forked => child[e] = "none" /\ cmd[e] = "none" /\ ~killer[e]

\* What attach() holds the slot lock for.
SetupInv ==
  /\ apc = "use" => slot \in Shell
  /\ apc = "stop" => anew \in Shell
  /\ apc \in {"stop", "fork", "handles", "abandon"} => slot = NoShell
  /\ apc = "fork" => forked < MaxShell
  /\ apc = "stop" => forked < MaxShell
  /\ apc \in {"handles", "abandon"} =>
       anew \in Shell /\ anew <= forked /\ cmd[anew] = "none" /\ child[anew] \in {"run", "zombie"}
  /\ slot # NoShell => cmd[slot] # "none"

\* The command thread has its child until a poll or wait() reaps it, and its
\* killer until it retires it.
ThreadInv ==
  \A e \in Shell :
    /\ cmd[e] \in {"recv", "write", "kill", "poll", "sigkill"} => child[e] \in {"run", "zombie"}
    /\ cmd[e] \in {"retire", "wait"} => child[e] # "none"
    /\ cmd[e] \in {"retire", "wait"} /\ child[e] = "run" => doom[e]
    /\ cmd[e] \in {"wait", "done"} => ~killer[e]
    /\ cmd[e] = "done" => child[e] = "reaped"
    /\ child[e] = "run" /\ ~killer[e] => doom[e]
    /\ killer[e] => cmd[e] # "none" \/ InSetup(e)
    /\ killer[e] /\ child[e] = "reaped" => cmd[e] = "retire"

IInv == TypeOK /\ FreshInv /\ SetupInv /\ ThreadInv /\ NoOrphan

\* try_send() leaves a queue of commands, whether or not it had room.
LEMMA QueueOffer ==
  ASSUME TypeOK, NEW e \in Shell, NEW x \in {"input", "resize", "kill"}, Offer(e, x)
  PROVE  queue' \in [Shell -> Seq({"input", "resize", "kill"})]
<1>1. queue[e] \in Seq({"input", "resize", "kill"})
  BY DEF TypeOK
<1>2. Append(queue[e], x) \in Seq({"input", "resize", "kill"})
  BY <1>1, AppendProperties
<1>3. QED
  BY <1>2 DEF Offer, TypeOK

\* The inductive invariant holds of an empty slot.
LEMMA IInvInit == Init => IInv
<1> SUFFICES ASSUME Init PROVE IInv
  OBVIOUS
<1>1. TypeOK
  BY LifeAssumption DEF Init, TypeOK, NoShell
<1>2. FreshInv /\ SetupInv /\ ThreadInv /\ NoOrphan
  BY DEF Init, FreshInv, SetupInv, ThreadInv, NoOrphan, InSetup, NoShell
<1>3. QED
  BY <1>1, <1>2 DEF IInv

\* Every step of attach(), the threads, the child and the clients keeps the inductive invariant.
LEMMA IInvStep == IInv /\ [Next]_vars => IInv'
<1> SUFFICES ASSUME IInv, [Next]_vars PROVE IInv'
  OBVIOUS
<1> USE DEF IInv, InSetup
<1>1. CASE AttachTake
  <2>1. slot # NoShell => slot \in Shell
    BY DEF TypeOK, Shell, NoShell
  <2>2. TypeOK'
    BY <1>1, <2>1, LifeAssumption DEF AttachTake, TypeOK, SetupInv, NoShell, Kill
  <2>3. FreshInv'
    BY <1>1, <2>1 DEF AttachTake, FreshInv, SetupInv, TypeOK, NoShell
  <2>4. SetupInv'
    BY <1>1, <2>1 DEF AttachTake, FreshInv, SetupInv, ThreadInv, TypeOK, NoShell
  <2>5. ThreadInv'
    BY <1>1, <2>1 DEF AttachTake, FreshInv, SetupInv, ThreadInv, TypeOK, NoShell, Kill
  <2>6. NoOrphan'
    BY <1>1, <2>1 DEF AttachTake, FreshInv, SetupInv, ThreadInv, NoOrphan, TypeOK, NoShell
  <2>7. QED
    BY <2>2, <2>3, <2>4, <2>5, <2>6
<1>2. CASE AttachEmpty
  <2>1. slot # NoShell => slot \in Shell
    BY DEF TypeOK, Shell, NoShell
  <2>2. TypeOK'
    BY <1>2, <2>1, LifeAssumption DEF AttachEmpty, TypeOK, SetupInv, NoShell, Kill
  <2>3. FreshInv'
    BY <1>2, <2>1 DEF AttachEmpty, FreshInv, SetupInv, TypeOK, NoShell
  <2>4. SetupInv'
    BY <1>2, <2>1 DEF AttachEmpty, FreshInv, SetupInv, ThreadInv, TypeOK, NoShell
  <2>5. ThreadInv'
    BY <1>2, <2>1 DEF AttachEmpty, FreshInv, SetupInv, ThreadInv, TypeOK, NoShell, Kill
  <2>6. NoOrphan'
    BY <1>2, <2>1 DEF AttachEmpty, FreshInv, SetupInv, ThreadInv, NoOrphan, TypeOK, NoShell
  <2>7. QED
    BY <2>2, <2>3, <2>4, <2>5, <2>6
<1>3. CASE AttachStopped
  <2>1. slot # NoShell => slot \in Shell
    BY DEF TypeOK, Shell, NoShell
  <2>2. TypeOK'
    BY <1>3, <2>1, LifeAssumption DEF AttachStopped, TypeOK, SetupInv, NoShell, Kill
  <2>3. FreshInv'
    BY <1>3, <2>1 DEF AttachStopped, FreshInv, SetupInv, TypeOK, NoShell
  <2>4. SetupInv'
    BY <1>3, <2>1 DEF AttachStopped, FreshInv, SetupInv, ThreadInv, TypeOK, NoShell
  <2>5. ThreadInv'
    BY <1>3, <2>1 DEF AttachStopped, FreshInv, SetupInv, ThreadInv, TypeOK, NoShell, Kill
  <2>6. NoOrphan'
    BY <1>3, <2>1 DEF AttachStopped, FreshInv, SetupInv, ThreadInv, NoOrphan, TypeOK, NoShell
  <2>7. QED
    BY <2>2, <2>3, <2>4, <2>5, <2>6
<1>4. CASE ForkFail
  <2>1. slot # NoShell => slot \in Shell
    BY DEF TypeOK, Shell, NoShell
  <2>2. TypeOK'
    BY <1>4, <2>1, LifeAssumption DEF ForkFail, TypeOK, SetupInv, NoShell, Kill
  <2>3. FreshInv'
    BY <1>4, <2>1 DEF ForkFail, FreshInv, SetupInv, TypeOK, NoShell
  <2>4. SetupInv'
    BY <1>4, <2>1 DEF ForkFail, FreshInv, SetupInv, ThreadInv, TypeOK, NoShell
  <2>5. ThreadInv'
    BY <1>4, <2>1 DEF ForkFail, FreshInv, SetupInv, ThreadInv, TypeOK, NoShell, Kill
  <2>6. NoOrphan'
    BY <1>4, <2>1 DEF ForkFail, FreshInv, SetupInv, ThreadInv, NoOrphan, TypeOK, NoShell
  <2>7. QED
    BY <2>2, <2>3, <2>4, <2>5, <2>6
<1>5. CASE Fork
  <2>1. forked + 1 \in Shell /\ forked \in Nat /\ forked + 1 \in 0..MaxShell
    BY <1>5, LifeAssumption DEF Fork, SetupInv, TypeOK, Shell
  <2>2. TypeOK'
    BY <1>5, <2>1 DEF Fork, TypeOK
  <2>3. FreshInv'
    BY <1>5, <2>1 DEF Fork, FreshInv, SetupInv, TypeOK, Shell
  <2>4. SetupInv'
    BY <1>5, <2>1 DEF Fork, FreshInv, SetupInv, ThreadInv, TypeOK, NoShell
  <2>5. ThreadInv'
    BY <1>5, <2>1 DEF Fork, FreshInv, SetupInv, ThreadInv, TypeOK, NoShell, Kill
  <2>6. NoOrphan'
    BY <1>5, <2>1 DEF Fork, FreshInv, SetupInv, ThreadInv, NoOrphan, TypeOK, NoShell
  <2>7. QED
    BY <2>2, <2>3, <2>4, <2>5, <2>6
<1>6. CASE HandlesFail
  <2>1. slot # NoShell => slot \in Shell
    BY DEF TypeOK, Shell, NoShell
  <2>2. TypeOK'
    BY <1>6, <2>1, LifeAssumption DEF HandlesFail, TypeOK, SetupInv, NoShell, Kill
  <2>3. FreshInv'
    BY <1>6, <2>1 DEF HandlesFail, FreshInv, SetupInv, TypeOK, NoShell
  <2>4. SetupInv'
    BY <1>6, <2>1 DEF HandlesFail, FreshInv, SetupInv, ThreadInv, TypeOK, NoShell
  <2>5. ThreadInv'
    BY <1>6, <2>1 DEF HandlesFail, FreshInv, SetupInv, ThreadInv, TypeOK, NoShell, Kill
  <2>6. NoOrphan'
    BY <1>6, <2>1 DEF HandlesFail, FreshInv, SetupInv, ThreadInv, NoOrphan, TypeOK, NoShell
  <2>7. QED
    BY <2>2, <2>3, <2>4, <2>5, <2>6
<1>7. CASE Abandon
  <2>1. slot # NoShell => slot \in Shell
    BY DEF TypeOK, Shell, NoShell
  <2>2. TypeOK'
    BY <1>7, <2>1, LifeAssumption DEF Abandon, TypeOK, SetupInv, NoShell, Kill
  <2>3. FreshInv'
    BY <1>7, <2>1 DEF Abandon, FreshInv, SetupInv, TypeOK, NoShell
  <2>4. SetupInv'
    BY <1>7, <2>1 DEF Abandon, FreshInv, SetupInv, ThreadInv, TypeOK, NoShell
  <2>5. ThreadInv'
    BY <1>7, <2>1 DEF Abandon, FreshInv, SetupInv, ThreadInv, TypeOK, NoShell, Kill
  <2>6. NoOrphan'
    BY <1>7, <2>1 DEF Abandon, FreshInv, SetupInv, ThreadInv, NoOrphan, TypeOK, NoShell
  <2>7. QED
    BY <2>2, <2>3, <2>4, <2>5, <2>6
<1>8. CASE Threads
  <2>1. slot # NoShell => slot \in Shell
    BY DEF TypeOK, Shell, NoShell
  <2>2. TypeOK'
    BY <1>8, <2>1, LifeAssumption DEF Threads, TypeOK, SetupInv, NoShell, Kill
  <2>3. FreshInv'
    BY <1>8, <2>1 DEF Threads, FreshInv, SetupInv, TypeOK, NoShell
  <2>4. SetupInv'
    BY <1>8, <2>1 DEF Threads, FreshInv, SetupInv, ThreadInv, TypeOK, NoShell
  <2>5. ThreadInv'
    BY <1>8, <2>1 DEF Threads, FreshInv, SetupInv, ThreadInv, TypeOK, NoShell, Kill
  <2>6. NoOrphan'
    BY <1>8, <2>1 DEF Threads, FreshInv, SetupInv, ThreadInv, NoOrphan, TypeOK, NoShell
  <2>7. QED
    BY <2>2, <2>3, <2>4, <2>5, <2>6
<1>9. CASE AttachLive
  <2>1. slot # NoShell => slot \in Shell
    BY DEF TypeOK, Shell, NoShell
  <2>2. TypeOK'
    BY <1>9, <2>1, LifeAssumption DEF AttachLive, TypeOK, SetupInv, NoShell, Kill
  <2>3. FreshInv'
    BY <1>9, <2>1 DEF AttachLive, FreshInv, SetupInv, TypeOK, NoShell
  <2>4. SetupInv'
    BY <1>9, <2>1 DEF AttachLive, FreshInv, SetupInv, ThreadInv, TypeOK, NoShell
  <2>5. ThreadInv'
    BY <1>9, <2>1 DEF AttachLive, FreshInv, SetupInv, ThreadInv, TypeOK, NoShell, Kill
  <2>6. NoOrphan'
    BY <1>9, <2>1 DEF AttachLive, FreshInv, SetupInv, ThreadInv, NoOrphan, TypeOK, NoShell
  <2>7. QED
    BY <2>2, <2>3, <2>4, <2>5, <2>6
<1>10. CASE AttachDone
  <2>1. slot \in Shell
    BY <1>10 DEF AttachDone, SetupInv
  <2>2. TypeOK'
    <3>1. queue' \in [Shell -> Seq({"input", "resize", "kill"})]
      BY <1>10, <2>1, QueueOffer DEF AttachDone
    <3>2. holders' \in [Shell -> Nat]
      BY <1>10, <2>1 DEF AttachDone, TypeOK
    <3>3. QED
      BY <1>10, <3>1, <3>2 DEF AttachDone, TypeOK
  <2>3. FreshInv'
    BY <1>10, <2>1 DEF AttachDone, FreshInv, SetupInv, TypeOK, NoShell
  <2>4. SetupInv'
    BY <1>10, <2>1 DEF AttachDone, FreshInv, SetupInv, ThreadInv, TypeOK, NoShell
  <2>5. ThreadInv'
    BY <1>10, <2>1 DEF AttachDone, FreshInv, SetupInv, ThreadInv, TypeOK, NoShell, Kill
  <2>6. NoOrphan'
    BY <1>10, <2>1 DEF AttachDone, FreshInv, SetupInv, ThreadInv, NoOrphan, TypeOK, NoShell
  <2>7. QED
    BY <2>2, <2>3, <2>4, <2>5, <2>6
<1>11. CASE AttachView
  <2>1. slot # NoShell => slot \in Shell
    BY DEF TypeOK, Shell, NoShell
  <2>2. TypeOK'
    BY <1>11, <2>1, LifeAssumption DEF AttachView, TypeOK, SetupInv, NoShell, Kill
  <2>3. FreshInv'
    BY <1>11, <2>1 DEF AttachView, FreshInv, SetupInv, TypeOK, NoShell
  <2>4. SetupInv'
    BY <1>11, <2>1 DEF AttachView, FreshInv, SetupInv, ThreadInv, TypeOK, NoShell
  <2>5. ThreadInv'
    BY <1>11, <2>1 DEF AttachView, FreshInv, SetupInv, ThreadInv, TypeOK, NoShell, Kill
  <2>6. NoOrphan'
    BY <1>11, <2>1 DEF AttachView, FreshInv, SetupInv, ThreadInv, NoOrphan, TypeOK, NoShell
  <2>7. QED
    BY <2>2, <2>3, <2>4, <2>5, <2>6
<1>12. CASE ResetTake
  <2>1. slot # NoShell => slot \in Shell
    BY DEF TypeOK, Shell, NoShell
  <2>2. TypeOK'
    BY <1>12, <2>1, LifeAssumption DEF ResetTake, TypeOK, SetupInv, NoShell, Kill
  <2>3. FreshInv'
    BY <1>12, <2>1 DEF ResetTake, FreshInv, SetupInv, TypeOK, NoShell
  <2>4. SetupInv'
    BY <1>12, <2>1 DEF ResetTake, FreshInv, SetupInv, ThreadInv, TypeOK, NoShell
  <2>5. ThreadInv'
    BY <1>12, <2>1 DEF ResetTake, FreshInv, SetupInv, ThreadInv, TypeOK, NoShell, Kill
  <2>6. NoOrphan'
    BY <1>12, <2>1 DEF ResetTake, FreshInv, SetupInv, ThreadInv, NoOrphan, TypeOK, NoShell
  <2>7. QED
    BY <2>2, <2>3, <2>4, <2>5, <2>6
<1>13. ASSUME NEW e \in Shell, StopHangup(e) PROVE IInv'
  <2>2. TypeOK'
    BY <1>13 DEF StopHangup, TypeOK, Hangup, Kill
  <2>3. FreshInv'
    BY <1>13 DEF StopHangup, FreshInv, ThreadInv, TypeOK
  <2>4. SetupInv'
    BY <1>13 DEF StopHangup, SetupInv, TypeOK
  <2>5. ThreadInv'
    BY <1>13 DEF StopHangup, ThreadInv, TypeOK, Hangup, Kill
  <2>6. NoOrphan'
    BY <1>13 DEF StopHangup, ThreadInv, NoOrphan, TypeOK
  <2>7. QED
    BY <2>2, <2>3, <2>4, <2>5, <2>6
<1>14. ASSUME NEW e \in Shell, StopNudge(e) PROVE IInv'
  <2>1. queue' \in [Shell -> Seq({"input", "resize", "kill"})]
    BY <1>14, QueueOffer, LifeAssumption DEF StopNudge
  <2>2. TypeOK'
    BY <1>14, <2>1 DEF StopNudge, TypeOK
  <2>3. FreshInv'
    BY <1>14 DEF StopNudge, FreshInv, ThreadInv, TypeOK
  <2>4. SetupInv'
    BY <1>14 DEF StopNudge, SetupInv, TypeOK
  <2>5. ThreadInv'
    BY <1>14 DEF StopNudge, ThreadInv, TypeOK, Hangup, Kill
  <2>6. NoOrphan'
    BY <1>14 DEF StopNudge, ThreadInv, NoOrphan, TypeOK
  <2>7. QED
    BY <2>2, <2>3, <2>4, <2>5, <2>6
<1>15. ASSUME NEW e \in Shell, ReaderEof(e) PROVE IInv'
  <2>2. TypeOK'
    BY <1>15 DEF ReaderEof, TypeOK, Hangup, Kill
  <2>3. FreshInv'
    BY <1>15 DEF ReaderEof, FreshInv, ThreadInv, TypeOK
  <2>4. SetupInv'
    BY <1>15 DEF ReaderEof, SetupInv, TypeOK
  <2>5. ThreadInv'
    BY <1>15 DEF ReaderEof, ThreadInv, TypeOK, Hangup, Kill
  <2>6. NoOrphan'
    BY <1>15 DEF ReaderEof, ThreadInv, NoOrphan, TypeOK
  <2>7. QED
    BY <2>2, <2>3, <2>4, <2>5, <2>6
<1>16. ASSUME NEW e \in Shell, ReaderNudge(e) PROVE IInv'
  <2>1. queue' \in [Shell -> Seq({"input", "resize", "kill"})]
    BY <1>16, QueueOffer, LifeAssumption DEF ReaderNudge
  <2>2. TypeOK'
    BY <1>16, <2>1 DEF ReaderNudge, TypeOK
  <2>3. FreshInv'
    BY <1>16 DEF ReaderNudge, FreshInv, ThreadInv, TypeOK
  <2>4. SetupInv'
    BY <1>16 DEF ReaderNudge, SetupInv, TypeOK
  <2>5. ThreadInv'
    BY <1>16 DEF ReaderNudge, ThreadInv, TypeOK, Hangup, Kill
  <2>6. NoOrphan'
    BY <1>16 DEF ReaderNudge, ThreadInv, NoOrphan, TypeOK
  <2>7. QED
    BY <2>2, <2>3, <2>4, <2>5, <2>6
<1>17. ASSUME NEW e \in Shell, CmdRecv(e) PROVE IInv'
  <2>0. queue[e] \in Seq({"input", "resize", "kill"}) /\ queue[e] # <<>>
    BY <1>17 DEF CmdRecv, TypeOK
  <2>1. Head(queue[e]) \in {"input", "resize", "kill"} /\ Tail(queue[e]) \in Seq({"input", "resize", "kill"})
    BY <2>0, HeadTailProperties
  <2>2. TypeOK'
    BY <1>17, <2>1 DEF CmdRecv, TypeOK
  <2>3. FreshInv'
    BY <1>17, <2>1 DEF CmdRecv, FreshInv, ThreadInv, TypeOK
  <2>4. SetupInv'
    BY <1>17, <2>1 DEF CmdRecv, SetupInv, TypeOK
  <2>5. ThreadInv'
    BY <1>17, <2>1 DEF CmdRecv, ThreadInv, TypeOK, Hangup, Kill
  <2>6. NoOrphan'
    BY <1>17, <2>1 DEF CmdRecv, ThreadInv, NoOrphan, TypeOK
  <2>7. QED
    BY <2>2, <2>3, <2>4, <2>5, <2>6
<1>18. ASSUME NEW e \in Shell, CmdDisconnected(e) PROVE IInv'
  <2>2. TypeOK'
    BY <1>18 DEF CmdDisconnected, TypeOK, Hangup, Kill
  <2>3. FreshInv'
    BY <1>18 DEF CmdDisconnected, FreshInv, ThreadInv, TypeOK
  <2>4. SetupInv'
    BY <1>18 DEF CmdDisconnected, SetupInv, TypeOK
  <2>5. ThreadInv'
    BY <1>18 DEF CmdDisconnected, ThreadInv, TypeOK, Hangup, Kill
  <2>6. NoOrphan'
    BY <1>18 DEF CmdDisconnected, ThreadInv, NoOrphan, TypeOK
  <2>7. QED
    BY <2>2, <2>3, <2>4, <2>5, <2>6
<1>19. ASSUME NEW e \in Shell, CmdWrote(e) PROVE IInv'
  <2>2. TypeOK'
    BY <1>19 DEF CmdWrote, TypeOK, Hangup, Kill
  <2>3. FreshInv'
    BY <1>19 DEF CmdWrote, FreshInv, ThreadInv, TypeOK
  <2>4. SetupInv'
    BY <1>19 DEF CmdWrote, SetupInv, TypeOK
  <2>5. ThreadInv'
    BY <1>19 DEF CmdWrote, ThreadInv, TypeOK, Hangup, Kill
  <2>6. NoOrphan'
    BY <1>19 DEF CmdWrote, ThreadInv, NoOrphan, TypeOK
  <2>7. QED
    BY <2>2, <2>3, <2>4, <2>5, <2>6
<1>20. ASSUME NEW e \in Shell, CmdWriteFails(e) PROVE IInv'
  <2>2. TypeOK'
    BY <1>20 DEF CmdWriteFails, TypeOK, Hangup, Kill
  <2>3. FreshInv'
    BY <1>20 DEF CmdWriteFails, FreshInv, ThreadInv, TypeOK
  <2>4. SetupInv'
    BY <1>20 DEF CmdWriteFails, SetupInv, TypeOK
  <2>5. ThreadInv'
    BY <1>20 DEF CmdWriteFails, ThreadInv, TypeOK, Hangup, Kill
  <2>6. NoOrphan'
    BY <1>20 DEF CmdWriteFails, ThreadInv, NoOrphan, TypeOK
  <2>7. QED
    BY <2>2, <2>3, <2>4, <2>5, <2>6
<1>21. ASSUME NEW e \in Shell, CmdHangup(e) PROVE IInv'
  <2>2. TypeOK'
    BY <1>21 DEF CmdHangup, TypeOK, Hangup, Kill
  <2>3. FreshInv'
    BY <1>21 DEF CmdHangup, FreshInv, ThreadInv, TypeOK
  <2>4. SetupInv'
    BY <1>21 DEF CmdHangup, SetupInv, TypeOK
  <2>5. ThreadInv'
    BY <1>21 DEF CmdHangup, ThreadInv, TypeOK, Hangup, Kill
  <2>6. NoOrphan'
    BY <1>21 DEF CmdHangup, ThreadInv, NoOrphan, TypeOK
  <2>7. QED
    BY <2>2, <2>3, <2>4, <2>5, <2>6
<1>30. ASSUME NEW e \in Shell, CmdPollReaps(e) PROVE IInv'
  <2>2. TypeOK'
    BY <1>30 DEF CmdPollReaps, TypeOK, Hangup, Kill
  <2>3. FreshInv'
    BY <1>30 DEF CmdPollReaps, FreshInv, ThreadInv, TypeOK
  <2>4. SetupInv'
    BY <1>30 DEF CmdPollReaps, SetupInv, TypeOK
  <2>5. ThreadInv'
    BY <1>30 DEF CmdPollReaps, ThreadInv, TypeOK, Hangup, Kill
  <2>6. NoOrphan'
    BY <1>30 DEF CmdPollReaps, ThreadInv, NoOrphan, TypeOK
  <2>7. QED
    BY <2>2, <2>3, <2>4, <2>5, <2>6
<1>31. ASSUME NEW e \in Shell, CmdPollGivesUp(e) PROVE IInv'
  <2>2. TypeOK'
    BY <1>31 DEF CmdPollGivesUp, TypeOK, Hangup, Kill
  <2>3. FreshInv'
    BY <1>31 DEF CmdPollGivesUp, FreshInv, ThreadInv, TypeOK
  <2>4. SetupInv'
    BY <1>31 DEF CmdPollGivesUp, SetupInv, TypeOK
  <2>5. ThreadInv'
    BY <1>31 DEF CmdPollGivesUp, ThreadInv, TypeOK, Hangup, Kill
  <2>6. NoOrphan'
    BY <1>31 DEF CmdPollGivesUp, ThreadInv, NoOrphan, TypeOK
  <2>7. QED
    BY <2>2, <2>3, <2>4, <2>5, <2>6
<1>32. ASSUME NEW e \in Shell, CmdSigkill(e) PROVE IInv'
  <2>2. TypeOK'
    BY <1>32 DEF CmdSigkill, TypeOK, Hangup, Kill
  <2>3. FreshInv'
    BY <1>32 DEF CmdSigkill, FreshInv, ThreadInv, TypeOK
  <2>4. SetupInv'
    BY <1>32 DEF CmdSigkill, SetupInv, TypeOK
  <2>5. ThreadInv'
    BY <1>32 DEF CmdSigkill, ThreadInv, TypeOK, Hangup, Kill
  <2>6. NoOrphan'
    BY <1>32 DEF CmdSigkill, ThreadInv, NoOrphan, TypeOK
  <2>7. QED
    BY <2>2, <2>3, <2>4, <2>5, <2>6
<1>22. ASSUME NEW e \in Shell, CmdRetire(e) PROVE IInv'
  <2>2. TypeOK'
    BY <1>22 DEF CmdRetire, TypeOK, Hangup, Kill
  <2>3. FreshInv'
    BY <1>22 DEF CmdRetire, FreshInv, ThreadInv, TypeOK
  <2>4. SetupInv'
    BY <1>22 DEF CmdRetire, SetupInv, TypeOK
  <2>5. ThreadInv'
    BY <1>22 DEF CmdRetire, ThreadInv, TypeOK, Hangup, Kill
  <2>6. NoOrphan'
    BY <1>22 DEF CmdRetire, ThreadInv, NoOrphan, TypeOK
  <2>7. QED
    BY <2>2, <2>3, <2>4, <2>5, <2>6
<1>23. ASSUME NEW e \in Shell, CmdReap(e) PROVE IInv'
  <2>2. TypeOK'
    BY <1>23 DEF CmdReap, TypeOK, Hangup, Kill
  <2>3. FreshInv'
    BY <1>23 DEF CmdReap, FreshInv, ThreadInv, TypeOK
  <2>4. SetupInv'
    BY <1>23 DEF CmdReap, SetupInv, TypeOK
  <2>5. ThreadInv'
    BY <1>23 DEF CmdReap, ThreadInv, TypeOK, Hangup, Kill
  <2>6. NoOrphan'
    BY <1>23 DEF CmdReap, ThreadInv, NoOrphan, TypeOK
  <2>7. QED
    BY <2>2, <2>3, <2>4, <2>5, <2>6
<1>24. ASSUME NEW e \in Shell, ChildExit(e) PROVE IInv'
  <2>2. TypeOK'
    BY <1>24 DEF ChildExit, TypeOK, Hangup, Kill
  <2>3. FreshInv'
    BY <1>24 DEF ChildExit, FreshInv, ThreadInv, TypeOK
  <2>4. SetupInv'
    BY <1>24 DEF ChildExit, SetupInv, TypeOK
  <2>5. ThreadInv'
    BY <1>24 DEF ChildExit, ThreadInv, TypeOK, Hangup, Kill
  <2>6. NoOrphan'
    BY <1>24 DEF ChildExit, ThreadInv, NoOrphan, TypeOK
  <2>7. QED
    BY <2>2, <2>3, <2>4, <2>5, <2>6
<1>25. ASSUME NEW e \in Shell, ChildDetach(e) PROVE IInv'
  <2>2. TypeOK'
    BY <1>25 DEF ChildDetach, TypeOK, Hangup, Kill
  <2>3. FreshInv'
    BY <1>25 DEF ChildDetach, FreshInv, ThreadInv, TypeOK
  <2>4. SetupInv'
    BY <1>25 DEF ChildDetach, SetupInv, TypeOK
  <2>5. ThreadInv'
    BY <1>25 DEF ChildDetach, ThreadInv, TypeOK, Hangup, Kill
  <2>6. NoOrphan'
    BY <1>25 DEF ChildDetach, ThreadInv, NoOrphan, TypeOK
  <2>7. QED
    BY <2>2, <2>3, <2>4, <2>5, <2>6
<1>26. ASSUME NEW e \in Shell, Detach(e) PROVE IInv'
  <2>2. TypeOK'
    BY <1>26 DEF Detach, TypeOK, Hangup, Kill
  <2>3. FreshInv'
    BY <1>26 DEF Detach, FreshInv, ThreadInv, TypeOK
  <2>4. SetupInv'
    BY <1>26 DEF Detach, SetupInv, TypeOK
  <2>5. ThreadInv'
    BY <1>26 DEF Detach, ThreadInv, TypeOK, Hangup, Kill
  <2>6. NoOrphan'
    BY <1>26 DEF Detach, ThreadInv, NoOrphan, TypeOK
  <2>7. QED
    BY <2>2, <2>3, <2>4, <2>5, <2>6
<1>27. ASSUME NEW e \in Shell, NEW x \in Command, ClientSend(e, x) PROVE IInv'
  <2>1. queue' \in [Shell -> Seq({"input", "resize", "kill"})]
    BY <1>27, QueueOffer, LifeAssumption DEF ClientSend
  <2>2. TypeOK'
    BY <1>27, <2>1 DEF ClientSend, TypeOK
  <2>3. FreshInv'
    BY <1>27 DEF ClientSend, FreshInv, ThreadInv, TypeOK
  <2>4. SetupInv'
    BY <1>27 DEF ClientSend, SetupInv, TypeOK
  <2>5. ThreadInv'
    BY <1>27 DEF ClientSend, ThreadInv, TypeOK, Hangup, Kill
  <2>6. NoOrphan'
    BY <1>27 DEF ClientSend, ThreadInv, NoOrphan, TypeOK
  <2>7. QED
    BY <2>2, <2>3, <2>4, <2>5, <2>6
<1>28. CASE UNCHANGED vars
  BY <1>28 DEF vars, TypeOK, FreshInv, SetupInv, ThreadInv, NoOrphan
<1>29. QED
  BY <1>1, <1>2, <1>3, <1>4, <1>5, <1>6, <1>7, <1>8, <1>9, <1>10, <1>11, <1>12, <1>13, <1>14, <1>15, <1>16, <1>17, <1>18, <1>19, <1>20, <1>21, <1>22, <1>23, <1>24, <1>25, <1>26, <1>27, <1>28, <1>30, <1>31, <1>32
     DEF Next, Attach, Stop, Reader, CmdThread, Environment

\* The inductive invariant holds throughout.
LEMMA Inductive == Spec => []IInv
BY IInvInit, IInvStep, PTL DEF Spec

\* Every variable of the slot's machinery keeps its type.
THEOREM TypeCorrect == Spec => []TypeOK
<1>1. IInv => TypeOK
  BY DEF IInv
<1>2. QED
  BY <1>1, Inductive, PTL

\* The shared killer outlives the child it names only from the poll of
\* Child::kill() that reaps it to the take() that follows: nothing is signalled
\* once the command thread is past the take(), and wait() reaps nothing that
\* stop() could still reach (Terminal.killer).
THEOREM KillerRetiredHolds == Spec => []KillerRetired
<1>1. IInv => KillerRetired
  BY DEF IInv, KillerRetired, ThreadInv
<1>2. QED
  BY <1>1, Inductive, PTL

\* No child process is ever left without the thread that reaps it, the error
\* paths of spawn_terminal included.
THEOREM NoOrphanHolds == Spec => []NoOrphan
<1>1. IInv => NoOrphan
  BY DEF IInv
<1>2. QED
  BY <1>1, Inductive, PTL

\* stop() hangs the shell up before the Terminal is gone, and a shell whose
\* killer was retired is being killed already.
LEMMA CondemnedStep ==
  ASSUME MayIgnore = FALSE, IInv, Condemned, [Next]_vars
  PROVE  Condemned'
<1> USE DEF IInv, InSetup
<1>1. CASE AttachTake \/ ResetTake
  BY <1>1 DEF AttachTake, ResetTake, Condemned, TypeOK
<1>2. CASE AttachEmpty \/ AttachStopped \/ ForkFail \/ AttachLive \/ AttachDone \/ AttachView
  BY <1>2 DEF AttachEmpty, AttachStopped, ForkFail, AttachLive, AttachDone, AttachView, Condemned, TypeOK
<1>3. CASE Fork
  BY <1>3 DEF Fork, Condemned, TypeOK, SetupInv
<1>4. CASE HandlesFail \/ Abandon \/ Threads
  <2>1. anew \in Shell /\ slot = NoShell /\ NoShell \notin Shell
    BY <1>4 DEF HandlesFail, Abandon, Threads, SetupInv, Shell, NoShell
  <2>2. CASE HandlesFail
    BY <2>1, <2>2 DEF HandlesFail, Kill, Condemned, TypeOK
  <2>3. CASE Abandon
    BY <2>1, <2>3 DEF Abandon, Condemned, TypeOK
  <2>4. CASE Threads
    BY <2>1, <2>4 DEF Threads, Condemned, TypeOK
  <2>5. QED
    BY <1>4, <2>2, <2>3, <2>4
<1>5. ASSUME NEW e \in Shell, StopHangup(e) PROVE Condemned'
  BY <1>5 DEF StopHangup, Hangup, Condemned, TypeOK, ThreadInv
<1>6. ASSUME NEW e \in Shell, StopNudge(e) \/ ReaderEof(e) \/ ReaderNudge(e) PROVE Condemned'
  BY <1>6 DEF StopNudge, ReaderEof, ReaderNudge, Condemned, TypeOK
<1>7. ASSUME NEW e \in Shell, CmdThread(e) PROVE Condemned'
  BY <1>7 DEF CmdThread, CmdRecv, CmdDisconnected, CmdWriteFails, CmdHangup, CmdPollReaps, CmdPollGivesUp,
     CmdSigkill, CmdRetire, CmdReap, Hangup, Kill,
     Condemned, TypeOK
<1>8. ASSUME NEW e \in Shell, Environment(e) PROVE Condemned'
  BY <1>8 DEF Environment, ChildExit, ChildDetach, CmdWrote, Detach, ClientSend, Condemned, TypeOK
<1>9. CASE UNCHANGED vars
  BY <1>9 DEF vars, Condemned
<1>10. QED
  BY <1>1, <1>2, <1>3, <1>4, <1>5, <1>6, <1>7, <1>8, <1>9 DEF Next, Attach, Stop, Reader

\* As long as no program survives SIGHUP, a shell that a reset or a respawn
\* took out of its slot is condemned, whatever is in its queue and wherever its
\* command thread is blocked (Terminal::stop).
THEOREM CondemnedHolds ==
  ASSUME MayIgnore = FALSE
  PROVE  Spec => []Condemned
<1>1. Init => Condemned
  BY DEF Init, Condemned
<1>2. IInv /\ Condemned /\ [Next]_vars => Condemned'
  BY CondemnedStep
<1>3. QED
  BY <1>1, <1>2, Inductive, PTL DEF Spec
=============================================================================
