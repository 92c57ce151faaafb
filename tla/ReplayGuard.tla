----------------------------- MODULE ReplayGuard -----------------------------
(***************************************************************************)
(* One-time codes (totp.rs): which codes verify() takes at a moment, and   *)
(* the guard that remembers those it accepted.  A code is the time step it *)
(* was computed for; that two steps may show the same six digits is left   *)
(* out.  Both functions read the same wall clock, which only goes forward. *)
(***************************************************************************)
EXTENDS Integers, Sequences, SequencesExt

CONSTANTS
  StepLen,       \* seconds in a time step (30)
  ReplayMemory,  \* REPLAY_MEMORY
  ReplayWindow,  \* REPLAY_WINDOW_SECS
  MaxCodeTime,   \* bound: seconds on the clock
  MaxAccepted    \* bound: codes accepted

ASSUME ReplayAssumption ==
  /\ StepLen \in Nat \ {0} /\ ReplayMemory \in Nat \ {0}
  /\ ReplayWindow \in Nat /\ ReplayWindow >= 3 * StepLen
  /\ MaxCodeTime \in Nat /\ MaxAccepted \in Nat

VARIABLES
  codeNow,    \* SystemTime, in seconds
  seen,       \* what the guard remembers, newest last
  accepted    \* checking only: every code accepted, in order

replayVars == <<codeNow, seen, accepted>>

Code == 0..(MaxCodeTime \div StepLen + 1)

\* verify(): the current step and one either side.
Step == codeNow \div StepLen
Verifies(c) == c \in {IF Step = 0 THEN 0 ELSE Step - 1, Step, Step + 1}

ReplayInit == codeNow = 0 /\ seen = <<>> /\ accepted = <<>>

\* accept_at(): forget what no longer verifies, refuse what is remembered,
\* make room, remember.
KeepFresh(kept, r) == IF codeNow - r.at < ReplayWindow THEN Append(kept, r) ELSE kept
Remembered == FoldLeft(KeepFresh, <<>>, seen)

MakeRoomEarly(S) == IF Len(S) + 1 >= ReplayMemory THEN Tail(S) ELSE S
MakeRoom(S) == IF Len(S) = ReplayMemory THEN Tail(S) ELSE S

Unused(c) == \A i \in 1..Len(Remembered) : Remembered[i].code # c

Accept(c) ==
  /\ Verifies(c) /\ Unused(c)
  /\ Len(accepted) < MaxAccepted
  /\ seen' = Append(MakeRoom(Remembered), [code |-> c, at |-> codeNow])
  /\ accepted' = Append(accepted, c)
  /\ UNCHANGED codeNow

\* A repeat is refused, and what expired is forgotten all the same.
RefuseRepeat(c) ==
  /\ Verifies(c) /\ ~Unused(c)
  /\ seen' = Remembered
  /\ UNCHANGED <<codeNow, accepted>>

CodeTick ==
  /\ codeNow < MaxCodeTime
  /\ codeNow' = codeNow + 1
  /\ UNCHANGED <<seen, accepted>>

ReplayNext == CodeTick \/ \E c \in Code : Accept(c) \/ RefuseRepeat(c)

ReplaySpec == ReplayInit /\ [][ReplayNext]_replayVars

----------------------------------------------------------------------------
(* Properties. *)

\* Types, and the bound on what is remembered.
ReplayTypeOK ==
  /\ codeNow \in 0..MaxCodeTime
  /\ seen \in Seq([code : Code, at : 0..MaxCodeTime]) /\ Len(seen) <= ReplayMemory
  /\ accepted \in Seq(Code)

\* What the guard promises with its memory: a code is taken a second time
\* only after ReplayMemory others were taken since.
RepeatIsFar ==
  \A i, j \in 1..Len(accepted) : i < j /\ accepted[i] = accepted[j] => j - i > ReplayMemory

\* "Codes are single-use": refused "for as long as it could still verify".
\* The code remembers three, and a code can see four others before it lapses.
SingleUse ==
  \A i, j \in 1..Len(accepted) : i # j => accepted[i] # accepted[j]
=============================================================================
