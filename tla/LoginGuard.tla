----------------------------- MODULE LoginGuard -----------------------------
(***************************************************************************)
(* The throttle of main.rs: a tarpit that makes the attempts of one bucket *)
(* take turns and wait longer after each recent failure, and a lockout     *)
(* after every GuardStrikes wrong codes in a row.  Time is a clock that    *)
(* may move between any two steps.                                         *)
(*                                                                         *)
(* A verdict, the count of the bucket and the count of the lockout are one *)
(* step: between attempt.failed(), which frees the bucket, and             *)
(* mfa_failed() there is no await, and the attempt let in next first       *)
(* sleeps out the failure just counted.                                    *)
(***************************************************************************)
EXTENDS Integers, Sequences, SequencesExt

CONSTANTS
  Attempt,      \* requests that try to log in
  Bucket,       \* an identity's bucket, for its password or for its codes
  GuardDecay,   \* seconds after which failures no longer delay (60)
  GuardDelay,   \* seconds one failure adds (0.3)
  GuardDelayMax,\* the longest delay (5)
  GuardStrikes, \* MFA_MAX_STRIKES
  LockBase,     \* MFA_LOCKOUT_BASE
  LockMax,      \* MFA_LOCKOUT_MAX
  StrikeMemory, \* MFA_STRIKE_MEMORY
  MaxTries,     \* bound: attempts made
  MaxGuardTime  \* bound: seconds on the clock

ASSUME GuardAssumption ==
  /\ GuardDecay \in Nat /\ GuardDelay \in Nat /\ GuardDelayMax \in Nat
  /\ GuardDelayMax <= GuardDecay
  /\ GuardStrikes \in Nat \ {0} /\ LockBase \in Nat \ {0} /\ LockMax \in Nat /\ LockBase <= LockMax
  /\ StrikeMemory \in Nat /\ LockMax <= StrikeMemory
  /\ MaxTries \in Nat /\ MaxGuardTime \in Nat

VARIABLES
  guardNow,   \* Instant::now()
  attempt,    \* where each request stands, the bucket it is for, when its delay ends
  waiting,    \* requests queued for each bucket's mutex, in order
  recent,     \* each bucket's failure count and when it changed
  strikes,    \* each bucket's run of wrong codes: count, last, end of its lock
  tries       \* attempts made so far

guardVars == <<guardNow, attempt, waiting, recent, strikes, tries>>

NoBucket == "no bucket"
Idle == [at |-> "idle", bucket |-> NoBucket, wake |-> 0]
NoRun == [count |-> 0, last |-> 0, until |-> 0]

LowerOf(a, b) == IF a <= b THEN a ELSE b

RecentFailures(b) == IF guardNow - recent[b].last > GuardDecay THEN 0 ELSE recent[b].count
TarpitDelay(n) == LowerOf(n * GuardDelay, GuardDelayMax)

\* Attempts that hold the mutex of b.
Holding(b) == {a \in Attempt : attempt[a].bucket = b /\ attempt[a].at \in {"asleep", "in"}}

MfaLocked(b) == guardNow < strikes[b].until

GuardInit ==
  /\ guardNow = 0 /\ tries = 0
  /\ attempt = [a \in Attempt |-> Idle]
  /\ waiting = [b \in Bucket |-> <<>>]
  /\ recent = [b \in Bucket |-> [count |-> 0, last |-> 0]]
  /\ strikes = [b \in Bucket |-> NoRun]

----------------------------------------------------------------------------
(* enter(): the mutex in order of arrival, then the delay. *)

GuardEnter(a, b) ==
  /\ attempt[a] = Idle /\ tries < MaxTries
  /\ attempt' = [attempt EXCEPT ![a] = [at |-> "queued", bucket |-> b, wake |-> 0]]
  /\ waiting' = [waiting EXCEPT ![b] = Append(@, a)]
  /\ tries' = tries + 1
  /\ UNCHANGED <<guardNow, recent, strikes>>

\* A delay slept before the mutex is taken.
GuardTurnAnyTime(a) ==
  LET b == attempt[a].bucket
  IN /\ attempt[a].at = "queued" /\ Head(waiting[b]) = a
     /\ attempt' = [attempt EXCEPT ![a].at = "asleep", ![a].wake = guardNow + TarpitDelay(RecentFailures(b))]
     /\ waiting' = [waiting EXCEPT ![b] = Tail(@)]
     /\ UNCHANGED <<guardNow, recent, strikes, tries>>

GuardTurn(a) ==
  LET b == attempt[a].bucket
  IN /\ attempt[a].at = "queued" /\ Head(waiting[b]) = a
     /\ Holding(b) = {}
     /\ attempt' = [attempt EXCEPT ![a].at = "asleep", ![a].wake = guardNow + TarpitDelay(RecentFailures(b))]
     /\ waiting' = [waiting EXCEPT ![b] = Tail(@)]
     /\ UNCHANGED <<guardNow, recent, strikes, tries>>

GuardWake(a) ==
  /\ attempt[a].at = "asleep" /\ guardNow >= attempt[a].wake
  /\ attempt' = [attempt EXCEPT ![a].at = "in"]
  /\ UNCHANGED <<guardNow, waiting, recent, strikes, tries>>

\* A queue that keeps those who left.
GuardAbandonQueued(a) ==
  /\ attempt[a].at \in {"queued", "asleep"}
  /\ attempt' = [attempt EXCEPT ![a] = Idle]
  /\ UNCHANGED <<guardNow, waiting, recent, strikes, tries>>

\* The peer has gone, and the handler is dropped at its await.
GuardAbandon(a) ==
  LET b == attempt[a].bucket
  IN /\ attempt' = [attempt EXCEPT ![a] = Idle]
     /\ \/ attempt[a].at = "asleep" /\ UNCHANGED waiting
        \/ /\ attempt[a].at = "queued"
           /\ \E i \in 1..Len(waiting[b]) :
                waiting[b][i] = a /\ waiting' = [waiting EXCEPT ![b] = RemoveAt(@, i)]
     /\ UNCHANGED <<guardNow, recent, strikes, tries>>

----------------------------------------------------------------------------
(* Outcomes: each frees the bucket. *)

GuardFree(a) == attempt' = [attempt EXCEPT ![a] = Idle] /\ UNCHANGED <<guardNow, waiting, tries>>

CountFailure(b) == recent' = [recent EXCEPT ![b] = [count |-> RecentFailures(b) + 1, last |-> guardNow]]
ClearFailures(b) == recent' = [recent EXCEPT ![b] = [count |-> 0, last |-> guardNow]]

\* Neither counted nor cleared: a server error, or a second factor to come.
GuardDrop(a) ==
  /\ attempt[a].at = "in"
  /\ GuardFree(a) /\ UNCHANGED <<recent, strikes>>

\* A wrong password, an unlisted name, a code that was used before.
GuardFailed(a) ==
  /\ attempt[a].at = "in" /\ ~MfaLocked(attempt[a].bucket)
  /\ CountFailure(attempt[a].bucket)
  /\ GuardFree(a) /\ UNCHANGED strikes

GuardSucceeded(a) ==
  LET b == attempt[a].bucket
  IN /\ attempt[a].at = "in" /\ ~MfaLocked(b)
     /\ ClearFailures(b)
     /\ strikes' = [strikes EXCEPT ![b] = NoRun]
     /\ GuardFree(a)

\* The lock that ends round n of strikes, counted from 0: a shift of 32 bits.
Shifted(n) == IF n < 32 THEN 2^n ELSE 2^32 - 1
LockOf(n) == LowerOf(LockBase * Shifted(n), LockMax)

RunSoFar(r) == IF guardNow - r.last > StrikeMemory THEN 0 ELSE r.count

\* mfa_failed().
MfaFailed(b) ==
  LET n == RunSoFar(strikes[b]) + 1
      until == IF n % GuardStrikes = 0 THEN guardNow + LockOf(n \div GuardStrikes - 1)
               ELSE strikes[b].until
  IN  strikes' = [strikes EXCEPT ![b] = [count |-> n, last |-> guardNow, until |-> until]]

\* A code judged on the strength of a look at the lock before the wait.
GuardWrongUnlocked(a) ==
  /\ attempt[a].at = "in"
  /\ MfaFailed(attempt[a].bucket) /\ CountFailure(attempt[a].bucket)
  /\ GuardFree(a)

\* A wrong code, when the second factor is not locked ...
GuardWrong(a) ==
  /\ attempt[a].at = "in" /\ ~MfaLocked(attempt[a].bucket)
  /\ MfaFailed(attempt[a].bucket) /\ CountFailure(attempt[a].bucket)
  /\ GuardFree(a)

\* ... and any code, when it is.
GuardLockedOut(a) ==
  /\ attempt[a].at = "in" /\ MfaLocked(attempt[a].bucket)
  /\ GuardFree(a) /\ UNCHANGED <<recent, strikes>>

GuardTick ==
  /\ guardNow < MaxGuardTime
  /\ guardNow' = guardNow + 1
  /\ UNCHANGED <<attempt, waiting, recent, strikes, tries>>

GuardNext ==
  \/ GuardTick
  \/ \E a \in Attempt, b \in Bucket : GuardEnter(a, b)
  \/ \E a \in Attempt :
       \/ GuardTurn(a) \/ GuardWake(a) \/ GuardAbandon(a)
       \/ GuardDrop(a) \/ GuardFailed(a) \/ GuardSucceeded(a) \/ GuardWrong(a) \/ GuardLockedOut(a)

GuardSpec == GuardInit /\ [][GuardNext]_guardVars

----------------------------------------------------------------------------
(* Properties. *)

\* Types; exactly the attempts that wait are queued, each in its own bucket.
GuardTypeOK ==
  /\ guardNow \in Nat /\ tries \in Nat
  /\ attempt \in [Attempt -> [at : {"idle", "queued", "asleep", "in"}, bucket : Bucket \cup {NoBucket}, wake : Nat]]
  /\ waiting \in [Bucket -> Seq(Attempt)]
  /\ \A b \in Bucket : {waiting[b][i] : i \in 1..Len(waiting[b])}
                         = {a \in Attempt : attempt[a].at = "queued" /\ attempt[a].bucket = b}
  /\ recent \in [Bucket -> [count : Nat, last : Nat]]
  /\ strikes \in [Bucket -> [count : Nat, last : Nat, until : Nat]]

\* "Concurrency cannot outrun the delay": whenever an attempt is let in, the
\* delay earned by the failures before it has passed since the last of them,
\* however many attempts were queued when, were dropped, or had decayed.
Paced ==
  \A a \in Attempt : attempt[a].at = "in" =>
    LET r == recent[attempt[a].bucket] IN guardNow - r.last >= TarpitDelay(r.count)

\* All the time k lockouts take, from the first.
LockSum == LET f[k \in Nat] == IF k = 0 THEN 0 ELSE f[k - 1] + LockOf(k - 1) IN f

\* A run of wrong codes cannot outrun its lockouts: the code after round k is
\* judged only when all k locks have been waited out.
GuessBudget ==
  \A b \in Bucket : \A k \in 0..MaxTries :
    strikes[b].count > k * GuardStrikes => strikes[b].last >= LockSum[k]
=============================================================================
