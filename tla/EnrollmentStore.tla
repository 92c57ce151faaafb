--------------------------- MODULE EnrollmentStore ---------------------------
(***************************************************************************)
(* The enrollment store of enrollment.rs: per identity the issuer's        *)
(* subject pinned at the first login and the TOTP secret once enrolled, in *)
(* memory and in a file.  Every mutation writes the whole map while it     *)
(* holds the lock; a failed write is reported and not rolled back.         *)
(***************************************************************************)
EXTENDS Integers, FiniteSets

CONSTANTS
  EnrUser,      \* identities
  EnrSub,       \* subjects the issuer hands out
  EnrSecret,    \* TOTP secrets
  MaxEnrTime,   \* bound: seconds on the clock
  EnrMayFail    \* whether a write may fail

ASSUME EnrollmentAssumption ==
  /\ MaxEnrTime \in Nat /\ EnrMayFail \in BOOLEAN

VARIABLES
  enr,       \* the map: a record for every identity
  enrFile,   \* the same, as last written
  enrNow     \* SystemTime, in seconds

enrVars == <<enr, enrFile, enrNow>>

NoSub == "no subject"
NoSecret == "no secret"
EnrRec == [sub : EnrSub \cup {NoSub}, secret : EnrSecret \cup {NoSecret}, at : Nat]
NoRecord == [sub |-> NoSub, secret |-> NoSecret, at |-> 0]

EnrEnrolled(u) == enr[u].secret # NoSecret

EnrInit ==
  /\ enr = [u \in EnrUser |-> NoRecord] /\ enrFile = enr /\ enrNow = 0

EnrWrites == IF EnrMayFail THEN BOOLEAN ELSE {TRUE}
EnrWrite(M, ok) == enrFile' = IF ok THEN M ELSE enrFile

----------------------------------------------------------------------------
(* The operations. *)

\* pin_subject() takes the first subject it sees ...
EnrPinNew(u, s, ok) ==
  /\ enr[u].sub = NoSub
  /\ enr' = [enr EXCEPT ![u].sub = s]
  /\ EnrWrite(enr', ok)
  /\ UNCHANGED enrNow

\* ... and admits that one alone ever after, without writing again.
EnrPinKnown(u, s) == enr[u].sub = s /\ UNCHANGED enrVars

\* enroll(): the secret replaces whatever was there.
EnrEnroll(u, secret, ok) ==
  /\ enr' = [enr EXCEPT ![u].secret = secret, ![u].at = enrNow]
  /\ EnrWrite(enr', ok)
  /\ UNCHANGED enrNow

\* load().
EnrRestart ==
  /\ enr' = enrFile
  /\ UNCHANGED <<enrFile, enrNow>>

\* The operator stops the server, deletes the mfa_secret line of an identity
\* (the README's recovery path) and starts it again, a second later at least.
EnrReset(u) ==
  /\ enrNow < MaxEnrTime /\ enrNow' = enrNow + 1
  /\ enrFile' = [enrFile EXCEPT ![u].secret = NoSecret]
  /\ enr' = enrFile'

EnrTick ==
  /\ enrNow < MaxEnrTime
  /\ enrNow' = enrNow + 1
  /\ UNCHANGED <<enr, enrFile>>

EnrNext ==
  \/ EnrRestart \/ EnrTick
  \/ \E u \in EnrUser : EnrReset(u)
  \/ \E u \in EnrUser, s \in EnrSub : EnrPinKnown(u, s)
  \/ \E u \in EnrUser, s \in EnrSub : \E ok \in EnrWrites : EnrPinNew(u, s, ok)
  \/ \E u \in EnrUser, x \in EnrSecret : \E ok \in EnrWrites : EnrEnroll(u, x, ok)

EnrSpec == EnrInit /\ [][EnrNext]_enrVars

----------------------------------------------------------------------------
(* Properties. *)

\* Types; no secret is from the future, and a subject pinned on disk is the one
\* pinned in memory.
EnrTypeOK ==
  /\ enr \in [EnrUser -> EnrRec] /\ enrFile \in [EnrUser -> EnrRec]
  /\ enrNow \in Nat
  /\ \A u \in EnrUser : enr[u].at <= enrNow /\ enrFile[u].at <= enrNow
  /\ \A u \in EnrUser : enrFile[u].sub \in {NoSub, enr[u].sub}
=============================================================================
