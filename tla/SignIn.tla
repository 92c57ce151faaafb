------------------------------- MODULE SignIn -------------------------------
(***************************************************************************)
(* Signing in (main.rs): the handlers that lead from a fresh cookie to an  *)
(* authenticated session, composed with the session, device and enrollment *)
(* stores.  A handler is cut into steps at its awaits and where it frees   *)
(* its bucket; what it read before, it still holds after.  The locks it    *)
(* takes in a row between two cuts are one step: a secret is set only      *)
(* where there is none, and a session or a device taken away between two   *)
(* of them is one taken away before the first or after the last.  A        *)
(* browser is not modelled: a request presents any session and any device  *)
(* ever handed out.  MFA is required and devices may be remembered: the    *)
(* settings with the most steps. Time passes only while the operator edits *)
(* the enrollment file: what expires is the subject of the stores' own     *)
(* modules.  When a wrong code locks, and for how long, is left open       *)
(* (LoginGuard).                                                           *)
(***************************************************************************)
EXTENDS SessionStore, DeviceStore, EnrollmentStore

CONSTANTS
  Req,        \* requests in flight
  MaxVisits   \* bound: ids minted when the last browser comes without one

ASSUME SignAssumption ==
  /\ SessUser = DevUser /\ SessUser = EnrUser /\ MaxVisits \in Nat
  /\ DevStamp = 0..MaxEnrTime /\ SessPreTtl > 0 /\ SessAuthTtl > 0

VARIABLES
  localUser,   \* identities with a password (local:name); the others are the issuer's
  req,         \* each request: where it awaits, and what it has read
  locked,      \* identities whose second factor is locked
  spared,      \* checking only: sessions that were pending when a lock began
  devSecret,   \* checking only: the secret on disk when each device was earned
  account      \* checking only: the account each session was vouched for by

signVars == <<sessVars, devVars, enrVars, localUser, req, locked, spared, devSecret, account>>

Stage == {"idle", "password", "flow", "vouch", "queued", "in", "passed", "ended"}
Quiet == [at |-> "idle", sess |-> 0, user |-> NoUser, secret |-> NoSecret]
Presented == 0..devMinted    \* a device cookie, 0 for none

SignInit ==
  /\ SessInit /\ DevInit /\ EnrInit
  /\ localUser \in SUBSET SessUser
  /\ req = [r \in Req |-> Quiet]
  /\ locked = {} /\ spared = {}
  /\ devSecret = [d \in DevId |-> NoSecret]
  /\ account = [i \in SessId |-> NoSub]

----------------------------------------------------------------------------
(* Parts of the handlers. *)

At(r, stage) == req[r].at = stage
Goes(r, stage) == req' = [req EXCEPT ![r].at = stage]
Answers(r) == req' = [req EXCEPT ![r] = Quiet]

\* A request that found session i takes its id to the next await.
Carries(r, stage, i, u) == At(r, "idle") /\ req' = [req EXCEPT ![r] = [Quiet EXCEPT !.at = stage, !.sess = i, !.user = u]]

KeptLocks == UNCHANGED <<locked, spared, localUser>>
KeptGhosts == UNCHANGED <<devSecret, account>>

\* remove() of a session that may be gone.
SessDrop(i) == IF i \in SessLive THEN SessRemove(i) ELSE UNCHANGED sessVars

\* The session now minted is that of account s, if the pin is on disk.
Holder(u, s) == account' = [account EXCEPT ![sessMinted'] = IF enrFile'[u].sub = NoSub THEN NoSub ELSE s]

\* trusted_device(): one that holds for the secret enrolled now.
SkipsAnySecret(d, u) == EnrEnrolled(u) /\ d \in DevOf(dev, u)
Skips(d, u) == EnrEnrolled(u) /\ d # 0 /\ DevTrusted(d, u, enr[u].at)

\* What both first factors end with: a trusted device skips the code, and one
\* of this identity that no longer helps is forgotten.
FirstFactor(i, u, d, s) ==
  /\ \/ Skips(d, u) /\ DevAuthorize(d, u, enr[u].at) /\ SessLogin(i, u)
     \/ /\ ~Skips(d, u)
        /\ IF d \in DevOf(dev, u) THEN DevRevoke(u, d) ELSE UNCHANGED devVars
        /\ SessBeginMfa(i, u)
  /\ Holder(u, s)

----------------------------------------------------------------------------
(* The first factor. *)

\* login_page(): a browser without a session gets one.
LoginPage ==
  /\ sessMinted < MaxVisits /\ SessCreate
  /\ UNCHANGED <<devVars, enrVars, req>> /\ KeptLocks /\ KeptGhosts

\* local_login() as far as the tarpit and the password check ...
LocalLogin(r, i, u) ==
  /\ SessFound(i) /\ u \in localUser
  /\ Carries(r, "password", i, u)
  /\ UNCHANGED <<sessVars, devVars, enrVars>> /\ KeptLocks /\ KeptGhosts

\* ... and with its outcome.
PasswordRight(r, d) ==
  /\ At(r, "password") /\ Answers(r)
  /\ UNCHANGED <<enrVars, devSecret>> /\ KeptLocks
  /\ FirstFactor(req[r].sess, req[r].user, d, NoSub)

\* A wrong password, a declined or failed exchange, an unlisted identity.
Refused(r) ==
  /\ req[r].at \in {"password", "vouch"} /\ Answers(r)
  /\ UNCHANGED <<sessVars, devVars, enrVars>> /\ KeptLocks /\ KeptGhosts

OauthStart(i, f) ==
  /\ SessFound(i)
  /\ SessSetOauth(i, f)
  /\ UNCHANGED <<devVars, enrVars, req>> /\ KeptLocks /\ KeptGhosts

\* oauth_callback() reads the flow, then takes it off the session (which may
\* have gone), then asks the issuer.
CallbackReads(r, i) ==
  /\ SessFound(i) /\ sess[i].flow # NoFlow
  /\ Carries(r, "flow", i, NoUser)
  /\ UNCHANGED <<sessVars, devVars, enrVars>> /\ KeptLocks /\ KeptGhosts

CallbackTakes(r) ==
  /\ At(r, "flow") /\ Goes(r, "vouch")
  /\ IF req[r].sess \in SessLive THEN SessSetOauth(req[r].sess, NoFlow) ELSE UNCHANGED sessVars
  /\ UNCHANGED <<devVars, enrVars>> /\ KeptLocks /\ KeptGhosts

\* The issuer vouches for account s as identity u; the pin must agree, and be
\* written if it is new.
CallbackAnyAccount(r, u, s, d) ==
  /\ At(r, "vouch") /\ u \notin localUser /\ Answers(r)
  /\ EnrPinKnown(u, s) \/ EnrPinNew(u, s, TRUE) \/ UNCHANGED enrVars
  /\ FirstFactor(req[r].sess, u, d, s)
  /\ UNCHANGED devSecret /\ KeptLocks

CallbackVouched(r, u, s, d) ==
  /\ At(r, "vouch") /\ u \notin localUser /\ Answers(r)
  /\ EnrPinKnown(u, s) \/ EnrPinNew(u, s, TRUE)
  /\ FirstFactor(req[r].sess, u, d, s)
  /\ UNCHANGED devSecret /\ KeptLocks

CallbackUnwritten(r, u, s) ==
  /\ EnrMayFail
  /\ At(r, "vouch") /\ u \notin localUser /\ Answers(r)
  /\ EnrPinNew(u, s, FALSE)
  /\ UNCHANGED <<sessVars, devVars>> /\ KeptLocks /\ KeptGhosts

----------------------------------------------------------------------------
(* The second factor: mfa_submit(). *)

MfaSubmit(r, i) ==
  /\ SessFound(i) /\ sess[i].kind = "mfa"
  /\ Carries(r, "queued", i, sess[i].user)
  /\ UNCHANGED <<sessVars, devVars, enrVars>> /\ KeptLocks /\ KeptGhosts

\* Those of an identity take turns; the record is read inside.
InBucket(u) == {r \in Req : At(r, "in") /\ req[r].user = u}

MfaEntersFreely(r) ==
  /\ At(r, "queued") /\ req[r].user \notin locked
  /\ req' = [req EXCEPT ![r].at = "in", ![r].secret = enr[req[r].user].secret]
  /\ UNCHANGED <<sessVars, devVars, enrVars>> /\ KeptLocks /\ KeptGhosts

MfaEnters(r) ==
  /\ At(r, "queued") /\ req[r].user \notin locked /\ InBucket(req[r].user) = {}
  /\ req' = [req EXCEPT ![r].at = "in", ![r].secret = enr[req[r].user].secret]
  /\ UNCHANGED <<sessVars, devVars, enrVars>> /\ KeptLocks /\ KeptGhosts

\* mfa_locked_out(): the session ends, and the browser is given a new one.
MfaLockedOut(r) ==
  /\ At(r, "queued") /\ req[r].user \in locked /\ InBucket(req[r].user) = {}
  /\ SessDrop(req[r].sess) /\ Goes(r, "ended")
  /\ UNCHANGED <<devVars, enrVars>> /\ KeptLocks /\ KeptGhosts

MfaAnew(r) ==
  /\ At(r, "ended") /\ Answers(r)
  /\ SessCreate
  /\ UNCHANGED <<devVars, enrVars>> /\ KeptLocks /\ KeptGhosts

\* A wrong code, or one used before; a wrong one may lock.
MfaWrong(r) ==
  /\ At(r, "in") /\ Answers(r)
  /\ UNCHANGED <<sessVars, devVars, enrVars>> /\ KeptLocks /\ KeptGhosts

MfaLocks(r) ==
  LET u == req[r].user
  IN /\ At(r, "in") /\ Goes(r, "ended")
     /\ locked' = locked \cup {u}
     /\ SessDrop(req[r].sess)
     /\ spared' = spared \cup {i \in SessLive : i # req[r].sess /\ sess[i].kind = "mfa" /\ sess[i].user = u}
     /\ UNCHANGED <<devVars, enrVars, localUser>> /\ KeptGhosts

LockLapses(u) ==
  /\ u \in locked /\ locked' = locked \ {u}
  /\ UNCHANGED <<sessVars, devVars, enrVars, req, spared, localUser>> /\ KeptGhosts

Clears(r) == locked' = locked \ {req[r].user} /\ UNCHANGED <<spared, localUser>>

\* A right code for the secret on record ...
MfaVerifies(r) ==
  /\ At(r, "in") /\ req[r].secret # NoSecret
  /\ Goes(r, "passed") /\ Clears(r)
  /\ UNCHANGED <<sessVars, devVars, enrVars>> /\ KeptGhosts

\* ... or for the one that came with the form, when there was none: it is
\* stored, and every device of the identity goes.
MfaEnrolls(r, x) ==
  LET u == req[r].user
  IN /\ At(r, "in") /\ req[r].secret = NoSecret
     /\ EnrEnroll(u, x, TRUE)
     /\ IF DevOf(dev, u) # {} THEN DevRevokeAll(u) ELSE UNCHANGED devVars
     /\ Goes(r, "passed") /\ Clears(r)
     /\ UNCHANGED sessVars /\ KeptGhosts

MfaEnrollUnwritten(r, x) ==
  /\ EnrMayFail
  /\ At(r, "in") /\ req[r].secret = NoSecret
  /\ EnrEnroll(req[r].user, x, FALSE)
  /\ Answers(r)
  /\ UNCHANGED <<sessVars, devVars>> /\ KeptLocks /\ KeptGhosts

\* The bucket is free again by now.  The session is promoted whether or not
\* it is still there, and the browser trusted if it asked for it, but not on
\* the strength of an enrollment.
MfaRemembers(r) ==
  LET u == req[r].user
  IN /\ req[r].secret # NoSecret /\ EnrEnrolled(u)
     /\ \E ok \in DevWrites : DevMint(u, enr[u].at, ok)
     /\ devSecret' = [devSecret EXCEPT ![devMinted'] = enrFile[u].secret]

MfaLogsIn(r) ==
  /\ At(r, "passed") /\ Answers(r)
  /\ SessLogin(req[r].sess, req[r].user)
  /\ MfaRemembers(r) \/ UNCHANGED <<devVars, devSecret>>
  /\ UNCHANGED enrVars /\ KeptLocks
  /\ Holder(req[r].user, account[req[r].sess])

----------------------------------------------------------------------------
(* Leaving, and the devices dialog. *)

MfaCancel(i) ==
  /\ SessFound(i) /\ sess[i].kind = "mfa" /\ SessRemove(i)
  /\ UNCHANGED <<devVars, enrVars, req>> /\ KeptLocks /\ KeptGhosts

\* Plain, or forgetting this browser as well.
Logout(i, d) ==
  /\ SessFound(i) /\ SessRemove(i)
  /\ IF d \in DevIn(dev) THEN DevRevokeToken(d) ELSE UNCHANGED devVars
  /\ UNCHANGED <<enrVars, req>> /\ KeptLocks /\ KeptGhosts

RevokeDevice(i, d) ==
  /\ SessFound(i) /\ sess[i].kind = "auth"
  /\ DevRevoke(sess[i].user, d) \/ DevRevokeAll(sess[i].user)
  /\ UNCHANGED <<sessVars, enrVars, req>> /\ KeptLocks /\ KeptGhosts

----------------------------------------------------------------------------
(* The process ends and starts again, and the operator may meanwhile have   *)
(* deleted an mfa_secret line: requests and locks are gone.                 *)

Restart ==
  /\ SessRestart /\ DevRestart
  /\ EnrRestart \/ \E u \in EnrUser : EnrReset(u)
  /\ req' = [r \in Req |-> Quiet]
  /\ locked' = {} /\ spared' = {} /\ UNCHANGED localUser
  /\ KeptGhosts

SignNext ==
  \/ LoginPage \/ Restart
  \/ \E u \in SessUser : LockLapses(u)
  \/ \E i \in SessLive : \/ MfaCancel(i)
                         \/ \E f \in SessFlow : OauthStart(i, f)
                         \/ \E d \in Presented : Logout(i, d) \/ RevokeDevice(i, d)
  \/ \E r \in Req :
       \/ Refused(r) \/ CallbackTakes(r)
       \/ MfaEnters(r) \/ MfaLockedOut(r) \/ MfaAnew(r)
       \/ MfaWrong(r) \/ MfaLocks(r) \/ MfaVerifies(r) \/ MfaLogsIn(r)
       \/ \E i \in SessLive : CallbackReads(r, i) \/ MfaSubmit(r, i)
       \/ \E i \in SessLive, u \in SessUser : LocalLogin(r, i, u)
       \/ \E d \in Presented : PasswordRight(r, d)
       \/ \E u \in SessUser, s \in EnrSub, d \in Presented : CallbackVouched(r, u, s, d)
       \/ \E u \in SessUser, s \in EnrSub : CallbackUnwritten(r, u, s)
       \/ \E x \in EnrSecret : MfaEnrolls(r, x) \/ MfaEnrollUnwritten(r, x)

SignSpec == SignInit /\ [][SignNext]_signVars

----------------------------------------------------------------------------
(* Properties. *)

\* A secret is enrolled once: whichever pages, tabs and sessions race to
\* enroll an identity, a secret in use is never replaced by another one.  Only
\* the operator takes it away, while the server is down.
EnrollOnce ==
  [][\A u \in EnrUser : EnrEnrolled(u) /\ enr'[u].secret # NoSecret
       => enr'[u].secret = enr[u].secret]_signVars

\* "Re-enrolling a TOTP secret revokes every device": a device that would skip
\* the code now was earned with a code of the secret enrolled now, if that
\* secret was on disk (TrustLanded), even where the write of a new secret
\* fails and no device is revoked.
TrustCurrent ==
  \A d \in DevIn(dev) : 
    Skips(d, dev[d].user) => devSecret[d] \in {NoSecret, enr[dev[d].user].secret}

\* An address keeps to one account: once its pin is on disk, all sessions of
\* an issuer's identity, half way in or signed in, were vouched for by the
\* account that is pinned, whichever callbacks of two accounts were in the
\* exchange at once.
OneAccount ==
  \A i \in SessLive : sess[i].kind # "anon" /\ sess[i].user \notin localUser
    => account[i] \in {NoSub, enr[sess[i].user].sub}

\* "A device is never trusted on the strength of a code that did not fully
\* land": the secret of a remembered device is on disk.
TrustLanded == \A d \in DevIn(dev) : enrFile[dev[d].user].secret # NoSecret

\* "Wrong codes lock the second factor", "so the password (or Google sign-in)
\* has to be passed again first": no code is judged on a session that was half
\* way in when its identity was locked.
LockCostsFirstFactor ==
  \A r \in Req : At(r, "in") => req[r].sess \notin spared
=============================================================================
