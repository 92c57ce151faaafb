---------------------------- MODULE SignInProofs ----------------------------
(***************************************************************************)
(* Proofs about SignIn: that the handlers use the three stores as their    *)
(* own modules describe, whatever their interleaving, and that trust,      *)
(* accounts and enrollments stay consistent across the stores.             *)
(***************************************************************************)
EXTENDS SignIn, SessionStoreProofs, DeviceStoreProofs

----------------------------------------------------------------------------
(* The inductive invariant. *)

EnrTypes ==
  /\ enr \in [EnrUser -> EnrRec] /\ enrFile \in [EnrUser -> EnrRec] /\ enrNow \in 0..MaxEnrTime
  /\ \A u \in EnrUser : enr[u].at <= enrNow /\ enrFile[u].at <= enrNow

GhostTypes ==
  /\ localUser \subseteq SessUser
  /\ devSecret \in [DevId -> EnrSecret \cup {NoSecret}]
  /\ account \in [SessId -> EnrSub \cup {NoSub}]

ReqRec == [at : Stage, sess : 0..sessMinted, user : SessUser \cup {NoUser}, secret : EnrSecret \cup {NoSecret}]

\* What the file says of an identity, memory says too.
FileBehind ==
  \A u \in EnrUser :
    /\ enrFile[u].sub \in {NoSub, enr[u].sub}
    /\ enrFile[u].secret # NoSecret =>
         enrFile[u].secret = enr[u].secret /\ enrFile[u].at = enr[u].at

\* Identities that sign in, in memory or on disk.
SessHas(i, u) ==
  \E s \in {sess[i], sessFile[i]} : s.kind \in {"mfa", "auth"} /\ s.user = u
DevHas(d, u, t) ==
  \E r \in {dev[d], devFile[d]} : r.user # NoDevUser /\ r.user = u /\ r.stamp = t

\* A session half way in or signed in names an identity; an issuer's was
\* vouched for by the account on disk.
Vouched(i, u) == u \in SessUser /\ (u \in localUser \/ account[i] \in {NoSub, enrFile[u].sub})
AccountInv == \A i \in SessId : \A u \in SessUser \cup {NoUser} : SessHas(i, u) => Vouched(i, u)

\* So was the session that a request in the second factor carries, and what it
\* read of the secret inside its bucket, where it is alone, still holds.
ReqOK(r) ==
  /\ ~At(r, "idle") => req[r].sess # 0
  /\ At(r, "password") => req[r].user \in localUser
  /\ req[r].at \in {"queued", "in", "passed"} => Vouched(req[r].sess, req[r].user)
  /\ At(r, "in") => req[r].secret = enr[req[r].user].secret
Alone == \A r, q \in Req : At(r, "in") /\ At(q, "in") /\ req[q].user = req[r].user => q = r

\* A secret that was on disk at time t is there now, or it has gone and
\* whatever was enrolled since came later.
Held(u, x, t) ==
  \/ enrFile[u].secret = x /\ enrFile[u].at = t
  \/ /\ t < enrNow
     /\ enr[u].secret # NoSecret => enr[u].at > t
     /\ enrFile[u].secret # NoSecret => enrFile[u].at > t

\* A device carries the time of the secret it was earned with.
DeviceInv ==
  \A d \in DevId : \A u \in EnrUser : \A t \in Nat :
    DevHas(d, u, t) /\ devSecret[d] # NoSecret => Held(u, devSecret[d], t)

StoreInv == SessInd /\ DevInd /\ EnrTypes /\ GhostTypes /\ FileBehind /\ AccountInv /\ DeviceInv
ReqInv == req \in [Req -> ReqRec] /\ (\A r \in Req : ReqOK(r)) /\ Alone
SignInv == StoreInv /\ ReqInv

----------------------------------------------------------------------------
(* The enrollment store. *)

\* Everything that changes the enrollments while requests are in flight, and
\* the restarts: a secret is enrolled only where there is none.
EnrMoves ==
  \/ UNCHANGED enrVars
  \/ \E u \in EnrUser, s \in EnrSub : \E ok \in EnrWrites : EnrPinNew(u, s, ok)
  \/ \E u \in EnrUser, x \in EnrSecret : enr[u].secret = NoSecret /\ \E ok \in EnrWrites : EnrEnroll(u, x, ok)
  \/ EnrRestart
  \/ \E u \in EnrUser : EnrReset(u)

\* Every step moves each store as the store's own module describes.
StoreNext == [SessNext]_sessVars /\ [DevNext]_devVars /\ EnrMoves

\* What a step leaves of the enrollments.
EnrKept ==
  /\ \A u \in EnrUser : enrFile[u].sub # NoSub => enrFile'[u].sub = enrFile[u].sub
  /\ \A u \in EnrUser : enr[u].secret # NoSecret /\ enr'[u].secret # NoSecret => enr'[u].secret = enr[u].secret
  /\ \A u \in EnrUser, x \in EnrSecret \ {NoSecret}, t \in Nat : Held(u, x, t) => Held(u, x, t)'

\* The store keeps its types, its file behind its memory, and its promises.
LEMMA EnrStep ==
  ASSUME EnrTypes, FileBehind, EnrMoves
  PROVE  EnrTypes' /\ FileBehind' /\ EnrKept
<1>1. MaxEnrTime \in Nat /\ enrNow \in Nat
  BY EnrollmentAssumption DEF EnrTypes
<1>2. CASE UNCHANGED enrVars
  BY <1>2 DEF enrVars, EnrTypes, FileBehind, EnrKept, Held
<1>3. ASSUME NEW u \in EnrUser, NEW s \in EnrSub, NEW ok \in EnrWrites, EnrPinNew(u, s, ok)
      PROVE  EnrTypes' /\ FileBehind' /\ EnrKept
  <2>1. /\ enr' = [enr EXCEPT ![u].sub = s] /\ enr[u].sub = NoSub /\ enrNow' = enrNow
        /\ enrFile' = (IF ok THEN enr' ELSE enrFile)
    BY <1>3 DEF EnrPinNew, EnrWrite, EnrWrites
  <2>2. enr' \in [EnrUser -> EnrRec]
    BY <2>1 DEF EnrTypes, EnrRec
  <2>3. \A v \in EnrUser : /\ enr'[v].secret = enr[v].secret /\ enr'[v].at = enr[v].at
                           /\ enr'[v].sub = IF v = u THEN s ELSE enr[v].sub
    BY <2>1 DEF EnrTypes, EnrRec
  <2>4. EnrTypes'
    BY <1>1, <2>1, <2>2, <2>3 DEF EnrTypes
  <2>5. FileBehind'
    BY <2>1, <2>3 DEF FileBehind
  <2>6. \A v \in EnrUser : enrFile[v].sub # NoSub => enrFile'[v].sub = enrFile[v].sub
    BY <2>1, <2>3 DEF FileBehind
  <2>7. ASSUME NEW v \in EnrUser, NEW x \in EnrSecret \ {NoSecret}, NEW t \in Nat, Held(v, x, t) PROVE Held(v, x, t)'
    <3>1. CASE ~ok
      BY <2>1, <2>3, <2>7, <3>1 DEF Held
    <3>2. CASE ok /\ enrFile[v].secret # NoSecret
      BY <2>1, <2>3, <2>7, <3>2 DEF Held, FileBehind
    <3>3. CASE ok /\ enrFile[v].secret = NoSecret
      <4>1. enrFile'[v].secret = enr[v].secret /\ enrFile'[v].at = enr[v].at
        BY <2>1, <2>3, <3>3
      <4>2. CASE enrFile[v].secret = x /\ enrFile[v].at = t
        BY <2>1, <2>3, <2>7, <3>3, <4>1, <4>2 DEF Held
      <4>3. CASE t < enrNow /\ (enr[v].secret # NoSecret => enr[v].at > t)
        BY <2>1, <2>3, <4>1, <4>3 DEF Held
      <4>4. QED
        BY <2>7, <4>2, <4>3 DEF Held
    <3>4. QED
      BY <3>1, <3>2, <3>3
  <2>8. QED
    BY <2>3, <2>4, <2>5, <2>6, <2>7 DEF EnrKept
<1>4. ASSUME NEW u \in EnrUser, NEW x \in EnrSecret, NEW ok \in EnrWrites,
             enr[u].secret = NoSecret, EnrEnroll(u, x, ok)
      PROVE  EnrTypes' /\ FileBehind' /\ EnrKept
  <2>1. /\ enr' = [enr EXCEPT ![u].secret = x, ![u].at = enrNow] /\ enrNow' = enrNow
        /\ enrFile' = (IF ok THEN enr' ELSE enrFile)
    BY <1>4 DEF EnrEnroll, EnrWrite, EnrWrites
  <2>2. enr' \in [EnrUser -> EnrRec]
    BY <1>1, <2>1 DEF EnrTypes, EnrRec
  <2>3. \A v \in EnrUser : /\ enr'[v].sub = enr[v].sub
                           /\ enr'[v].secret = IF v = u THEN x ELSE enr[v].secret
                           /\ enr'[v].at = IF v = u THEN enrNow ELSE enr[v].at
    BY <2>1 DEF EnrTypes, EnrRec
  <2>4. EnrTypes'
    BY <1>1, <2>1, <2>2, <2>3 DEF EnrTypes
  <2>5. enrFile[u].secret = NoSecret
    BY <1>4 DEF FileBehind
  <2>6. FileBehind'
    BY <2>1, <2>3, <2>5 DEF FileBehind
  <2>7. \A v \in EnrUser : enrFile[v].sub # NoSub => enrFile'[v].sub = enrFile[v].sub
    BY <2>1, <2>3 DEF FileBehind
  <2>8. \A v \in EnrUser : enr[v].secret # NoSecret => enr'[v].secret = enr[v].secret
    BY <1>4, <2>3
  <2>9. ASSUME NEW v \in EnrUser, NEW y \in EnrSecret \ {NoSecret}, NEW t \in Nat, Held(v, y, t) PROVE Held(v, y, t)'
    <3>1. CASE v = u
      BY <1>1, <2>1, <2>3, <2>5, <2>9, <3>1 DEF Held
    <3>2. CASE v # u
      <4>1. enr'[v].secret = enr[v].secret /\ enr'[v].at = enr[v].at /\ enrNow' = enrNow
        BY <2>1, <2>3, <3>2
      <4>2. CASE enrFile'[v].secret = enrFile[v].secret /\ enrFile'[v].at = enrFile[v].at
        BY <2>9, <4>1, <4>2 DEF Held
      <4>3. CASE ok /\ enrFile[v].secret = NoSecret
        BY <2>1, <2>9, <4>1, <4>3 DEF Held
      <4>4. CASE ok /\ enrFile[v].secret # NoSecret
        BY <2>1, <4>1, <4>2, <4>4 DEF FileBehind
      <4>5. QED
        BY <2>1, <4>2, <4>3, <4>4
    <3>3. QED
      BY <3>1, <3>2
  <2>10. QED
    BY <2>4, <2>6, <2>7, <2>8, <2>9 DEF EnrKept
<1>5. CASE EnrRestart
  <2>1. enr' = enrFile /\ enrFile' = enrFile /\ enrNow' = enrNow
    BY <1>5 DEF EnrRestart
  <2>2. EnrTypes' /\ FileBehind'
    BY <2>1 DEF EnrTypes, FileBehind
  <2>3. EnrKept
    BY <2>1 DEF EnrKept, FileBehind, Held
  <2>4. QED
    BY <2>2, <2>3
<1>6. ASSUME NEW u \in EnrUser, EnrReset(u) PROVE EnrTypes' /\ FileBehind' /\ EnrKept
  <2>1. /\ enrFile' = [enrFile EXCEPT ![u].secret = NoSecret] /\ enr' = enrFile'
        /\ enrNow' = enrNow + 1 /\ enrNow < MaxEnrTime
    BY <1>6 DEF EnrReset
  <2>2. enrFile' \in [EnrUser -> EnrRec]
    BY <2>1 DEF EnrTypes, EnrRec
  <2>3. \A v \in EnrUser : /\ enrFile'[v].sub = enrFile[v].sub /\ enrFile'[v].at = enrFile[v].at
                           /\ enrFile'[v].secret = IF v = u THEN NoSecret ELSE enrFile[v].secret
    BY <2>1 DEF EnrTypes, EnrRec
  <2>4. \A v \in EnrUser : enrFile[v].at \in Nat /\ enrFile[v].at <= enrNow
    BY DEF EnrTypes, EnrRec
  <2>5. EnrTypes'
    BY <1>1, <2>1, <2>2, <2>3, <2>4 DEF EnrTypes
  <2>6. FileBehind'
    BY <2>1 DEF FileBehind
  <2>7. EnrKept
    BY <1>1, <2>1, <2>3, <2>4 DEF EnrKept, FileBehind, Held
  <2>8. QED
    BY <2>5, <2>6, <2>7
<1>7. QED
  BY <1>2, <1>3, <1>4, <1>5, <1>6 DEF EnrMoves

----------------------------------------------------------------------------
(* The session store. *)

\* Only a restart brings a session back, and only from the file.
LEMMA SessReturns ==
  ASSUME SessInd, [SessNext]_sessVars, NEW i \in SessId, i <= sessMinted, sess'[i].kind # "none"
  PROVE  sess[i].kind # "none" \/ sess'[i] = SessReloaded(sessFile[i])
<1>1. /\ SessTypes /\ sessMinted \in Nat /\ NoSess.kind = "none" /\ sessMinted + 1 # i
  BY DEF SessInd, SessTypes, NoSess
<1>2. CASE UNCHANGED sessVars
  BY <1>2 DEF sessVars
<1>3. ASSUME NEW G, NEW r, sessMinted' = sessMinted + 1, sessMinted < MaxSess,
             sess' = [SessWithout(sess, G) EXCEPT ![sessMinted'] = r]
      PROVE  sess[i].kind # "none"
  BY <1>1, <1>3 DEF SessWithout
<1>4. CASE SessCreate
  BY <1>3, <1>4 DEF SessCreate
<1>5. CASE \E j \in 1..sessMinted, u \in SessUser : SessLogin(j, u) \/ SessBeginMfa(j, u)
  BY <1>3, <1>5 DEF SessLogin, SessBeginMfa, SessPromote
<1>6. CASE SessSweep \/ \E j \in SessId : SessGetExpired(j) \/ SessRemove(j)
  <2>1. PICK G : sess' = SessWithout(sess, G)
    BY <1>6 DEF SessSweep, SessGetExpired, SessRemove
  <2>2. QED
    BY <1>1, <2>1 DEF SessWithout
<1>7. CASE SessTick
  BY <1>7 DEF SessTick
<1>8. CASE \E j \in SessId, f \in SessFlow \cup {NoFlow} : SessSetOauth(j, f)
  <2>1. PICK j \in SessId, f \in SessFlow \cup {NoFlow} : SessSetOauth(j, f)
    BY <1>8
  <2>2. sess' = [sess EXCEPT ![j].flow = f]
    BY <2>1 DEF SessSetOauth
  <2>3. sess'[i].kind = sess[i].kind
    BY <1>1, <2>2 DEF SessTypes, SessRec
  <2>4. QED
    BY <2>3
<1>9. CASE SessRestart
  BY <1>1, <1>9 DEF SessRestart
<1>10. QED
  BY <1>2, <1>4, <1>5, <1>6, <1>7, <1>8, <1>9 DEF SessNext

\* The file has of a session what it had or what memory has.
LEMMA SessWrote ==
  ASSUME SessInd, [SessNext]_sessVars, SessInd', NEW i \in SessId
  PROVE  \/ sessFile'[i] = sessFile[i] \/ sessFile'[i] = NoSess
         \/ sessFile'[i].kind = sess'[i].kind /\ sessFile'[i].user = sess'[i].user
<1>1. sessFile' = sessFile \/ \E ok \in BOOLEAN : SessPersist(sess', ok)
  BY DEF SessNext, sessVars, SessCreate, SessSweep, SessRestart, SessTick, SessGetExpired, SessRemove, SessSetOauth,
     SessLogin, SessBeginMfa, SessPromote, SessWrites
<1>2. sess'[i] \in SessRec
  BY DEF SessInd, SessTypes
<1>3. ASSUME NEW ok \in BOOLEAN, SessPersist(sess', ok)
      PROVE  \/ sessFile'[i] = sessFile[i] \/ sessFile'[i] = NoSess
             \/ sessFile'[i].kind = sess'[i].kind /\ sessFile'[i].user = sess'[i].user
  BY <1>2, <1>3, SessPersisted DEF SessRec
<1>4. QED
  BY <1>1, <1>3

\* An id that was minted before names nobody it did not name already.
LEMMA SessMoved ==
  ASSUME SessInd, [SessNext]_sessVars, NEW i \in SessId, i <= sessMinted, NEW u, SessHas(i, u)'
  PROVE  SessHas(i, u)
<1>1. SessInd' /\ SessRightsStep
  BY SessIndStep
<1>2. sess[i] \in SessRec /\ sessFile[i] \in SessRec /\ sess'[i] \in SessRec /\ sessFile'[i] \in SessRec
  BY <1>1 DEF SessInd, SessTypes
<1>3. CASE sess'[i].kind \in {"mfa", "auth"} /\ sess'[i].user = u
  <2>1. CASE sess[i].kind # "none"
    BY <1>1, <1>3, <2>1 DEF SessRightsStep, SessLive, SessHas
  <2>2. CASE sess'[i] = SessReloaded(sessFile[i])
    BY <1>2, <1>3, <2>2 DEF SessReloaded, SessRec, SessHas
  <2>3. QED
    BY <1>3, <2>1, <2>2, SessReturns
<1>4. CASE sessFile'[i].kind \in {"mfa", "auth"} /\ sessFile'[i].user = u
  BY <1>1, <1>3, <1>4, SessWrote DEF SessHas, NoSess
<1>5. QED
  BY <1>3, <1>4 DEF SessHas

\* A new id names the identity it was minted for.
LEMMA SessMinted ==
  ASSUME SessInd, NEW k \in {"mfa", "auth"}, NEW old, NEW v, SessPromote(old, k, v), [SessNext]_sessVars,
         NEW i \in SessId, i = sessMinted + 1, NEW u, SessHas(i, u)'
  PROVE  u = v
<1>1. SessInd' /\ SessTypes
  BY SessIndStep DEF SessInd
<1>2. sess \in [SessId -> SessRec] /\ sessMinted \in Nat
  BY <1>1 DEF SessTypes
<1>3. i = sessMinted' /\ i > sessMinted
  BY <1>2 DEF SessPromote
<1>4. sess'[i] = SessFresh(k, v)
  BY <1>3 DEF SessPromote, SessWithout
<1>5. sess'[i].user = v /\ sess'[i].kind = k
  BY <1>4 DEF SessFresh
<1>6. sessFile[i] = NoSess
  BY <1>1, <1>3 DEF SessInd, SessListed, SessTypes
<1>7. \/ sessFile'[i] = NoSess \/ sessFile'[i].user = v
  BY <1>1, <1>5, <1>6, SessWrote
<1>8. QED
  BY <1>3, <1>5, <1>7 DEF SessHas, NoSess

\* A browser that was just given a session is nobody yet.
LEMMA SessCreated ==
  ASSUME SessInd, SessCreate, NEW i \in SessId, i = sessMinted + 1, NEW u
  PROVE  ~SessHas(i, u)'
<1>1. sess \in [SessId -> SessRec] /\ sessFile \in [SessId -> SessRec] /\ sessMinted \in Nat /\ i > sessMinted
  BY DEF SessInd, SessTypes
<1>2. sess'[i] = SessFresh("anon", NoUser)
  BY DEF SessCreate, SessWithout
<1>3. sess'[i].kind = "anon"
  BY <1>2 DEF SessFresh
<1>4. sessFile'[i] = NoSess
  BY <1>1 DEF SessInd, SessListed, SessCreate
<1>5. QED
  BY <1>3, <1>4 DEF SessHas, NoSess

\* Ids not minted yet name nobody.
LEMMA SessUnmintedAfter ==
  ASSUME SessInd', NEW i \in SessId, i > sessMinted', NEW u
  PROVE  ~SessHas(i, u)'
<1>1. sessMinted' \in Nat /\ i \in Nat /\ ~(i <= sessMinted')
  BY DEF SessInd, SessTypes, SessId
<1>2. QED
  BY <1>1 DEF SessInd, SessListed, SessHas, NoSess

----------------------------------------------------------------------------
(* The device store. *)

\* A token that was drawn before belongs to nobody it did not belong to, and
\* keeps the time it was earned under.
LEMMA DevMoved ==
  ASSUME DevInd, [DevNext]_devVars, NEW d \in DevId, d <= devMinted, NEW u, NEW t, DevHas(d, u, t)'
  PROVE  DevHas(d, u, t)
<1>1. /\ dev \in [DevId -> DevRec] /\ devFile \in [DevId -> DevRec] /\ devMinted \in Nat
      /\ NoDev.user = NoDevUser /\ d # devMinted + 1
  BY DevNoneTyped DEF DevInd, DevTypes, DevId
<1>2. PICK r : r \in {dev'[d], devFile'[d]} /\ r.user # NoDevUser /\ r.user = u /\ r.stamp = t
  BY DEF DevHas
<1>3. CASE UNCHANGED devVars
  BY <1>2, <1>3 DEF devVars, DevHas
<1>4. ASSUME NEW G, DevEnd(G) PROVE DevHas(d, u, t)
  <2>1. dev'[d] \in {NoDev, dev[d]} /\ devFile'[d] \in {dev'[d], devFile[d]}
    BY <1>1, <1>4 DEF DevEnd, DevWithout, DevWrite
  <2>2. QED
    BY <1>1, <1>2, <2>1 DEF DevHas
<1>5. CASE DevSweep \/ (\E v \in DevUser : DevRevokeAll(v)) \/ (\E e \in DevId : DevRevokeToken(e))
           \/ \E v \in DevUser, e \in DevId : DevRevoke(v, e)
  BY <1>4, <1>5 DEF DevSweep, DevRevokeAll, DevRevokeToken, DevRevoke
<1>6. ASSUME NEW v \in DevUser, NEW s \in DevStamp, NEW ok \in BOOLEAN, DevMint(v, s, ok) PROVE DevHas(d, u, t)
  <2>1. PICK G : LET kept == DevWithout(dev, DevStale \cup G)
                     full == [kept EXCEPT ![devMinted'] = DevNew(v, s)]
                 IN dev' = (IF ok THEN full ELSE kept) /\ DevWrite(full, ok)
    BY <1>6 DEF DevMint
  <2>2. devMinted' = devMinted + 1
    BY <1>6 DEF DevMint
  <2>3. dev'[d] \in {NoDev, dev[d]} /\ devFile'[d] \in {NoDev, dev[d], devFile[d]}
    BY <1>1, <2>1, <2>2 DEF DevWithout, DevWrite
  <2>4. QED
    BY <1>1, <1>2, <2>3 DEF DevHas
<1>7. ASSUME NEW v \in DevUser, NEW e \in DevId, NEW s \in DevStamp, DevAuthorize(e, v, s) PROVE DevHas(d, u, t)
  <2>1. dev' = [dev EXCEPT ![e].used = devNow] /\ (devFile' = dev' \/ devFile' = devFile)
    BY <1>7 DEF DevAuthorize, DevWrite
  <2>2. dev[d] \in DevRec /\ (dev'[d] = dev[d] \/ dev'[d] = [dev[d] EXCEPT !.used = devNow])
    BY <1>1, <2>1
  <2>3. dev'[d].user = dev[d].user /\ dev'[d].stamp = dev[d].stamp
    BY <2>2 DEF DevRec
  <2>4. QED
    BY <1>2, <2>1, <2>3 DEF DevHas
<1>8. CASE DevRestart
  BY <1>1, <1>2, <1>8 DEF DevRestart, DevWithout, DevHas
<1>9. CASE DevTick
  BY <1>2, <1>9 DEF DevTick, DevHas
<1>10. QED
  BY <1>3, <1>5, <1>6, <1>7, <1>8, <1>9 DEF DevNext, DevWrites

\* A new token belongs to whom it was minted for, under the time given.
LEMMA DevMinted ==
  ASSUME DevInd, NEW v \in DevUser, NEW s \in DevStamp, NEW ok \in BOOLEAN, DevMint(v, s, ok),
         NEW d \in DevId, d = devMinted + 1, NEW u, NEW t, DevHas(d, u, t)'
  PROVE  u = v /\ t = s
<1>1. /\ dev \in [DevId -> DevRec] /\ devFile \in [DevId -> DevRec] /\ devMinted \in Nat
      /\ NoDev.user = NoDevUser /\ d > devMinted
  BY DevNoneTyped DEF DevInd, DevTypes
<1>2. dev[d] = NoDev /\ devFile[d] = NoDev
  BY <1>1 DEF DevInd, DevListed
<1>3. PICK G : LET kept == DevWithout(dev, DevStale \cup G)
                   full == [kept EXCEPT ![devMinted'] = DevNew(v, s)]
               IN dev' = (IF ok THEN full ELSE kept) /\ DevWrite(full, ok)
  BY DEF DevMint
<1>4. devMinted' = d
  BY DEF DevMint
<1>5. dev'[d] \in {NoDev, DevNew(v, s)} /\ devFile'[d] \in {NoDev, DevNew(v, s)}
  BY <1>2, <1>3, <1>4 DEF DevWithout, DevWrite
<1>6. QED
  BY <1>1, <1>5 DEF DevHas, DevNew

\* Tokens not drawn yet belong to nobody.
LEMMA DevUnmintedAfter ==
  ASSUME DevInd', NEW d \in DevId, d > devMinted', NEW u, NEW t
  PROVE  ~DevHas(d, u, t)'
BY DevNoneTyped DEF DevInd, DevListed, DevHas

----------------------------------------------------------------------------
(* What a step of the stores leaves. *)

\* Sessions that were vouched for still are.
VouchKept ==
  \A i \in SessId : \A u \in SessUser : i <= sessMinted /\ Vouched(i, u) => Vouched(i, u)'

\* The three stores and the ghosts stay consistent if what is new in them is.
LEMMA StoreKept ==
  ASSUME StoreInv, [SessNext]_sessVars, [DevNext]_devVars, EnrMoves, UNCHANGED localUser, GhostTypes',
         \A i \in SessId : i <= sessMinted => account'[i] = account[i],
         \A d \in DevId : d <= devMinted => devSecret'[d] = devSecret[d],
         \A i \in SessId : \A u \in SessUser \cup {NoUser} :
            i > sessMinted /\ i <= sessMinted' /\ SessHas(i, u)' => Vouched(i, u)',
         \A d \in DevId : \A u \in EnrUser : \A t \in Nat :
            d > devMinted /\ d <= devMinted' /\ DevHas(d, u, t)' /\ devSecret'[d] # NoSecret
              => Held(u, devSecret[d], t)'
  PROVE  StoreInv' /\ EnrKept /\ VouchKept
<1>1. SessInd' /\ DevInd' /\ EnrTypes' /\ FileBehind' /\ EnrKept
  BY SessIndStep, DevIndStep, EnrStep DEF StoreInv
<1>2. VouchKept
  <2>1. SUFFICES ASSUME NEW i \in SessId, NEW u \in SessUser, i <= sessMinted, Vouched(i, u)
                 PROVE  Vouched(i, u)'
    BY DEF VouchKept
  <2>2. account'[i] = account[i] /\ u \in EnrUser /\ localUser' = localUser
    BY <2>1, SignAssumption
  <2>3. enrFile[u].sub # NoSub => enrFile'[u].sub = enrFile[u].sub
    BY <1>1, <2>2 DEF EnrKept
  <2>4. QED
    BY <2>1, <2>2, <2>3 DEF Vouched
<1>3. AccountInv'
  <2>1. SUFFICES ASSUME NEW i \in SessId, NEW u \in SessUser \cup {NoUser}, SessHas(i, u)'
                 PROVE  Vouched(i, u)'
    BY DEF AccountInv
  <2>2. CASE i <= sessMinted
    <3>1. SessHas(i, u)
      BY <2>1, <2>2, SessMoved DEF StoreInv
    <3>2. Vouched(i, u)
      BY <3>1 DEF StoreInv, AccountInv
    <3>3. QED
      BY <1>2, <2>2, <3>2 DEF VouchKept, Vouched
  <2>3. CASE i > sessMinted
    <3>1. ~(i > sessMinted')
      BY <1>1, <2>1, SessUnmintedAfter
    <3>2. sessMinted' \in Int /\ i \in Int
      BY <1>1 DEF SessInd, SessTypes, SessId
    <3>3. QED
      BY <2>1, <2>3, <3>1, <3>2
  <2>4. i <= sessMinted \/ i > sessMinted
    BY DEF StoreInv, SessInd, SessTypes, SessId
  <2>5. QED
    BY <2>2, <2>3, <2>4
<1>4. DeviceInv'
  <2>1. SUFFICES ASSUME NEW d \in DevId, NEW u \in EnrUser, NEW t \in Nat, DevHas(d, u, t)', devSecret'[d] # NoSecret
                 PROVE  Held(u, devSecret[d], t)'
    BY DEF DeviceInv
  <2>2. CASE d <= devMinted
    <3>1. DevHas(d, u, t) /\ devSecret'[d] = devSecret[d]
      BY <2>1, <2>2, DevMoved DEF StoreInv
    <3>2. PICK x \in EnrSecret \ {NoSecret} : x = devSecret[d] /\ x = devSecret'[d]
      BY <2>1, <3>1 DEF StoreInv, GhostTypes
    <3>3. Held(u, x, t)
      BY <2>1, <3>1, <3>2 DEF StoreInv, DeviceInv
    <3>4. Held(u, x, t)'
      BY <1>1, <3>3 DEF EnrKept
    <3>5. QED
      BY <3>2, <3>4
  <2>3. CASE d > devMinted
    <3>1. ~(d > devMinted')
      BY <1>1, <2>1, DevUnmintedAfter
    <3>2. devMinted' \in Int /\ d \in Int
      BY <1>1, DeviceAssumption DEF DevInd, DevTypes, DevId
    <3>3. QED
      BY <2>1, <2>3, <3>1, <3>2
  <2>4. d <= devMinted \/ d > devMinted
    BY DeviceAssumption DEF StoreInv, DevInd, DevTypes, DevId
  <2>5. QED
    BY <2>2, <2>3, <2>4
<1>5. QED
  BY <1>1, <1>2, <1>3, <1>4 DEF StoreInv

\* Steps that let nobody in and trust no new browser.
LEMMA StoreQuiet ==
  ASSUME StoreInv, [SessNext]_sessVars, sessMinted' = sessMinted \/ SessCreate,
         [DevNext]_devVars, devMinted' = devMinted, EnrMoves, UNCHANGED <<localUser, devSecret, account>>
  PROVE  StoreInv' /\ EnrKept /\ VouchKept
<1>1. GhostTypes'
  BY DEF StoreInv, GhostTypes
<1>2. SessInd /\ DevInd /\ sessMinted \in Int /\ devMinted \in Int
  BY DeviceAssumption DEF StoreInv, SessInd, SessTypes, DevInd, DevTypes
<1>3. ASSUME NEW i \in SessId, NEW u, i > sessMinted, i <= sessMinted' PROVE ~SessHas(i, u)'
  <2>1. i \in Int
    BY DEF SessId
  <2>2. SessCreate /\ i = sessMinted + 1
    <3>1. sessMinted' # sessMinted
      BY <1>2, <1>3, <2>1
    <3>2. SessCreate /\ sessMinted' = sessMinted + 1
      BY <3>1 DEF SessCreate
    <3>3. QED
      BY <1>2, <1>3, <2>1, <3>2
  <2>3. QED
    BY <1>2, <2>2, SessCreated
<1>4. \A d \in DevId : ~(d > devMinted /\ d <= devMinted')
  BY <1>2 DEF DevId
<1>5. QED
  BY <1>1, <1>3, <1>4, StoreKept

----------------------------------------------------------------------------
(* What a step leaves of the requests. *)

\* Requests whose bucket's secret is not touched stay sound.
LEMMA ReqStays ==
  ASSUME SignInv, VouchKept, StoreInv', sessMinted <= sessMinted', UNCHANGED localUser,
         NEW r \in Req, req'[r] = req[r],
         At(r, "in") => enr'[req[r].user].secret = enr[req[r].user].secret
  PROVE  ReqOK(r)' /\ req'[r] \in ReqRec'
<1>1. req[r] \in ReqRec /\ ReqOK(r) /\ sessMinted \in Nat /\ sessMinted' \in Nat
  BY DEF SignInv, ReqInv, StoreInv, SessInd, SessTypes
<1>2. req'[r] \in ReqRec'
  BY <1>1 DEF ReqRec
<1>3. req[r].at \in {"queued", "in", "passed"} => Vouched(req[r].sess, req[r].user)'
  <2>1. SUFFICES ASSUME req[r].at \in {"queued", "in", "passed"}
                 PROVE  Vouched(req[r].sess, req[r].user)'
    OBVIOUS
  <2>2. PICK i, u : i = req[r].sess /\ u = req[r].user /\ Vouched(i, u)
    BY <1>1, <2>1 DEF ReqOK
  <2>3. i # 0 /\ i \in 0..sessMinted /\ u \in SessUser
    BY <1>1, <2>1, <2>2 DEF ReqOK, ReqRec, Vouched, At
  <2>4. i \in SessId /\ i <= sessMinted
    BY <1>1, <2>3, SessAssumption DEF SignInv, StoreInv, SessInd, SessTypes, SessId
  <2>5. Vouched(i, u)'
    BY <2>2, <2>3, <2>4 DEF VouchKept
  <2>6. QED
    BY <2>2, <2>5
<1>4. (~At(r, "idle") => req[r].sess # 0)' /\ (At(r, "password") => req[r].user \in localUser)'
  BY <1>1 DEF ReqOK, At
<1>5. (At(r, "in") => req[r].secret = enr[req[r].user].secret)'
  BY <1>1 DEF ReqOK, At
<1>6. req'[r].at \in {"queued", "in", "passed"} => Vouched(req[r].sess, req[r].user)'
  BY <1>3
<1>7. ReqOK(r)'
  BY <1>4, <1>5, <1>6 DEF ReqOK
<1>8. QED
  BY <1>2, <1>7

\* One request takes a step: it must be sound after it, and alone in its bucket.
LEMMA ReqMoves ==
  ASSUME SignInv, VouchKept, StoreInv', sessMinted <= sessMinted', UNCHANGED localUser,
         NEW r \in Req, NEW x, req' = [req EXCEPT ![r] = x], x \in ReqRec', ReqOK(r)',
         \A q \in Req : q # r /\ At(q, "in") => enr'[req[q].user].secret = enr[req[q].user].secret,
         x.at = "in" => \A q \in Req : At(q, "in") => req[q].user # x.user
  PROVE  ReqInv'
<1>1. req \in [Req -> ReqRec] /\ Alone
  BY DEF SignInv, ReqInv
<1>2. req'[r] = x /\ \A q \in Req : q # r => req'[q] = req[q]
  BY <1>1
<1>3. \A q \in Req : ReqOK(q)' /\ req'[q] \in ReqRec'
  BY <1>2, ReqStays
<1>4. req' \in [Req -> ReqRec']
  BY <1>1, <1>3
<1>5. Alone'
  <2>1. SUFFICES ASSUME NEW p \in Req, NEW q \in Req, At(p, "in")', At(q, "in")', req'[q].user = req'[p].user
                 PROVE  q = p
    BY DEF Alone
  <2>2. CASE p # r /\ q # r
    BY <1>1, <1>2, <2>1, <2>2 DEF Alone, At
  <2>3. CASE p = r /\ q # r
    BY <1>2, <2>1, <2>3 DEF At
  <2>4. CASE p # r /\ q = r
    BY <1>2, <2>1, <2>4 DEF At
  <2>5. QED
    BY <2>2, <2>3, <2>4
<1>6. QED
  BY <1>3, <1>4, <1>5 DEF ReqInv

\* A request that answers leaves nothing to be sound.
LEMMA ReqAnswers ==
  ASSUME SignInv, VouchKept, StoreInv', sessMinted <= sessMinted', UNCHANGED localUser,
         NEW r \in Req, Answers(r),
         \A q \in Req : q # r /\ At(q, "in") => enr'[req[q].user].secret = enr[req[q].user].secret
  PROVE  ReqInv'
<1>1. sessMinted' \in Nat
  BY DEF StoreInv, SessInd, SessTypes
<1>2. PICK x : x = Quiet
  OBVIOUS
<1>3. x \in ReqRec' /\ x.at = "idle"
  BY <1>1, <1>2 DEF Quiet, ReqRec, Stage
<1>4. req' = [req EXCEPT ![r] = x] /\ req'[r] = x
  BY <1>2 DEF Answers, SignInv, ReqInv
<1>5. ReqOK(r)'
  BY <1>3, <1>4 DEF ReqOK, At
<1>6. QED
  BY <1>3, <1>4, <1>5, ReqMoves

\* All requests stand where they stood.
LEMMA ReqWaits ==
  ASSUME SignInv, VouchKept, StoreInv', sessMinted <= sessMinted', UNCHANGED <<localUser, req, enr>>
  PROVE  ReqInv'
<1>1. \A q \in Req : ReqOK(q)' /\ req'[q] \in ReqRec'
  BY ReqStays
<1>2. req' \in [Req -> ReqRec'] /\ Alone'
  BY <1>1 DEF SignInv, ReqInv, Alone, At
<1>3. QED
  BY <1>1, <1>2 DEF ReqInv

----------------------------------------------------------------------------
(* The steps of the specification: each leaves the invariant and keeps what *)
(* was enrolled.                                                            *)

\* Ids are only ever added.
LEMMA SessGrows == ASSUME SessInd, [SessNext]_sessVars PROVE sessMinted <= sessMinted'
<1>1. sessMinted' = sessMinted \/ sessMinted' = sessMinted + 1
  <2>1. CASE UNCHANGED sessVars \/ SessCreate \/ SessSweep \/ SessRestart \/ SessTick
    BY <2>1 DEF sessVars, SessCreate, SessSweep, SessRestart, SessTick
  <2>2. CASE \/ \E i \in SessId : SessGetExpired(i) \/ SessRemove(i)
             \/ \E i \in SessId, f \in SessFlow \cup {NoFlow} : SessSetOauth(i, f)
    BY <2>2 DEF SessGetExpired, SessRemove, SessSetOauth
  <2>3. CASE \E i \in 1..sessMinted, u \in SessUser : SessLogin(i, u) \/ SessBeginMfa(i, u)
    BY <2>3 DEF SessLogin, SessBeginMfa, SessPromote
  <2>4. QED
    BY <2>1, <2>2, <2>3 DEF SessNext
<1>2. sessMinted \in Int
  BY DEF SessInd, SessTypes
<1>3. QED
  BY <1>1, <1>2

\* All stores start empty, and no request is in flight.
LEMMA SignIndInit == SignInit => SignInv
<1> SUFFICES ASSUME SignInit PROVE SignInv
  OBVIOUS
<1>1. SessInd /\ DevInd
  BY SessIndInit, DevIndInit DEF SignInit
<1>2. EnrTypes /\ FileBehind
  BY EnrollmentAssumption DEF SignInit, EnrInit, EnrTypes, FileBehind, NoRecord, EnrRec
<1>3. GhostTypes
  BY DEF SignInit, GhostTypes
<1>4. \A i \in SessId : sess[i].kind = "none" /\ sessFile[i].kind = "none"
  BY DEF SignInit, SessInit, NoSess
<1>5. AccountInv
  BY <1>4 DEF AccountInv, SessHas
<1>6. DeviceInv
  BY DEF SignInit, DeviceInv
<1>7. req = [r \in Req |-> Quiet] /\ sessMinted = 0
  BY DEF SignInit, SessInit
<1>8. Quiet \in ReqRec /\ Quiet.at = "idle"
  BY <1>7 DEF Quiet, ReqRec, Stage
<1>9. ReqInv
  BY <1>7, <1>8 DEF ReqInv, ReqOK, At, Alone
<1>10. QED
  BY <1>1, <1>2, <1>3, <1>5, <1>6, <1>9 DEF SignInv, StoreInv

\* The stores after a step that lets nobody in, and the requests with it.
LEMMA QuietStep ==
  ASSUME SignInv, [SessNext]_sessVars, sessMinted' = sessMinted \/ SessCreate,
         [DevNext]_devVars, devMinted' = devMinted, EnrMoves, UNCHANGED <<localUser, devSecret, account>>
  PROVE  StoreInv' /\ EnrKept /\ VouchKept /\ sessMinted <= sessMinted'
BY StoreQuiet, SessGrows DEF SignInv, StoreInv

\* The stores after a step that promotes a session: the identity is a local
\* one, or its account is the one on disk; and a device that is new was earned
\* with the secret on disk.
LEMMA PromoteStep ==
  ASSUME SignInv, NEW i \in 1..sessMinted, NEW u \in SessUser, NEW s \in EnrSub \cup {NoSub},
         SessLogin(i, u) \/ SessBeginMfa(i, u), Holder(u, s),
         u \in localUser \/ s = NoSub \/ enrFile'[u].sub \in {NoSub, s},
         [DevNext]_devVars, EnrMoves, UNCHANGED localUser,
         devSecret' \in [DevId -> EnrSecret \cup {NoSecret}],
         \A d \in DevId : d <= devMinted => devSecret'[d] = devSecret[d],
         \A d \in DevId : \A v \in EnrUser : \A t \in Nat :
            d > devMinted /\ d <= devMinted' /\ DevHas(d, v, t)' /\ devSecret'[d] # NoSecret
              => Held(v, devSecret[d], t)'
  PROVE  StoreInv' /\ EnrKept /\ VouchKept /\ sessMinted <= sessMinted'
<1>1. StoreInv /\ SessInd /\ account \in [SessId -> EnrSub \cup {NoSub}] /\ localUser \subseteq SessUser
  BY DEF SignInv, StoreInv, GhostTypes
<1>2. SessNext
  BY DEF SessNext
<1>3. PICK k \in {"mfa", "auth"} : SessPromote(i, k, u)
  BY DEF SessLogin, SessBeginMfa
<1>4. PICK n : n = sessMinted + 1
  OBVIOUS
<1>5. n = sessMinted' /\ sessMinted \in 0..MaxSess /\ sessMinted < MaxSess /\ MaxSess \in Nat
  BY <1>1, <1>3, <1>4, SessAssumption DEF SessPromote, SessInd, SessTypes
<1>6. n \in SessId /\ sessMinted \in Int /\ n > sessMinted
  BY <1>4, <1>5 DEF SessId
<1>7. account' = [account EXCEPT ![n] = IF enrFile'[u].sub = NoSub THEN NoSub ELSE s]
  BY <1>5 DEF Holder
<1>8. account' \in [SessId -> EnrSub \cup {NoSub}] /\ \A j \in SessId : j # n => account'[j] = account[j]
  BY <1>1, <1>7
<1>9. GhostTypes'
  BY <1>1, <1>8 DEF GhostTypes
<1>10. \A j \in SessId : j <= sessMinted => account'[j] = account[j]
  BY <1>6, <1>8 DEF SessId
<1>11. Vouched(n, u)'
  BY <1>1, <1>6, <1>7 DEF Vouched
<1>12. ASSUME NEW j \in SessId, NEW v \in SessUser \cup {NoUser}, j > sessMinted, j <= sessMinted', SessHas(j, v)'
       PROVE  Vouched(j, v)'
  <2>1. j = n
    BY <1>4, <1>5, <1>6, <1>12 DEF SessId
  <2>2. v = u
    BY <1>1, <1>2, <1>3, <1>4, <1>12, <2>1, SessMinted
  <2>3. QED
    BY <1>11, <2>1, <2>2
<1>13. StoreInv' /\ EnrKept /\ VouchKept
  BY <1>1, <1>2, <1>9, <1>10, <1>12, StoreKept
<1>14. QED
  BY <1>1, <1>2, <1>13, SessGrows

\* Requests wait while a session, a device or a lock comes and goes.
LEMMA LeavingStep ==
  ASSUME SignInv,
         \/ LoginPage \/ \E u \in SessUser : LockLapses(u)
         \/ \E i \in SessLive : \/ MfaCancel(i)
                                \/ \E f \in SessFlow : OauthStart(i, f)
                                \/ \E d \in Presented : Logout(i, d) \/ RevokeDevice(i, d)
  PROVE  SignInv' /\ EnrKept /\ StoreNext
<1>1. UNCHANGED enrVars /\ UNCHANGED <<req, localUser, devSecret, account>>
  <2>1. CASE LoginPage \/ \E u \in SessUser : LockLapses(u)
    BY <2>1 DEF LoginPage, LockLapses, KeptLocks, KeptGhosts
  <2>2. CASE \E i \in SessLive : \/ MfaCancel(i)
                                 \/ \E f \in SessFlow : OauthStart(i, f)
                                 \/ \E d \in Presented : Logout(i, d) \/ RevokeDevice(i, d)
    BY <2>2 DEF MfaCancel, OauthStart, Logout, RevokeDevice, KeptLocks, KeptGhosts
  <2>3. QED
    BY <2>1, <2>2
<1>2. SessInd /\ DevInd /\ SessLive \subseteq SessId /\ DevIn(dev) \subseteq DevId
  BY DEF SignInv, StoreInv, SessLive, DevIn
<1>3. [SessNext]_sessVars /\ (sessMinted' = sessMinted \/ SessCreate)
  <2>1. CASE LoginPage
    BY <2>1 DEF LoginPage, SessNext
  <2>2. CASE \E u \in SessUser : LockLapses(u)
    BY <2>2 DEF LockLapses, sessVars
  <2>3. ASSUME NEW i \in SessLive, MfaCancel(i) \/ \E d \in Presented : Logout(i, d) \/ RevokeDevice(i, d)
        PROVE  [SessNext]_sessVars /\ sessMinted' = sessMinted
    <3>1. SessRemove(i) \/ UNCHANGED sessVars
      BY <2>3 DEF MfaCancel, Logout, RevokeDevice
    <3>2. QED
      BY <1>2, <3>1 DEF SessNext, SessRemove, sessVars
  <2>4. ASSUME NEW i \in SessLive, NEW f \in SessFlow, OauthStart(i, f)
        PROVE  [SessNext]_sessVars /\ sessMinted' = sessMinted
    BY <1>2, <2>4 DEF OauthStart, SessNext, SessSetOauth
  <2>5. QED
    BY <2>1, <2>2, <2>3, <2>4
<1>4. [DevNext]_devVars /\ devMinted' = devMinted
  <2>1. CASE UNCHANGED devVars
    BY <2>1 DEF devVars
  <2>2. ASSUME NEW d \in DevId, DevRevokeToken(d) PROVE [DevNext]_devVars /\ devMinted' = devMinted
    BY <2>2 DEF DevNext, DevRevokeToken
  <2>3. ASSUME NEW i \in SessLive, NEW d \in Presented, RevokeDevice(i, d)
        PROVE  [DevNext]_devVars /\ devMinted' = devMinted
    <3>1. PICK u : u = sess[i].user
      OBVIOUS
    <3>2. DevRevoke(u, d) \/ DevRevokeAll(u)
      BY <2>3, <3>1 DEF RevokeDevice
    <3>3. u \in DevUser /\ (DevRevoke(u, d) => d \in DevId)
      <4>1. sess[i] \in SessRec /\ dev \in [DevId -> DevRec]
        BY <1>2 DEF SessInd, SessTypes, DevInd, DevTypes
      <4>2. PICK e \in DevId : dev[e].user # NoDevUser /\ dev[e].user = u
        BY <3>2 DEF DevRevoke, DevRevokeAll, DevOf, DevIn
      <4>3. u \in DevUser
        BY <4>1, <4>2 DEF DevRec
      <4>4. QED
        BY <4>3 DEF DevRevoke, DevOf, DevIn
    <3>4. QED
      BY <3>2, <3>3 DEF DevNext, DevRevoke, DevRevokeAll
  <2>4. QED
    BY <1>2, <2>1, <2>2, <2>3 DEF LoginPage, LockLapses, MfaCancel, OauthStart, Logout
<1>5. EnrMoves /\ UNCHANGED <<localUser, req, enr>>
  BY <1>1 DEF EnrMoves, enrVars
<1>6. StoreInv' /\ EnrKept /\ VouchKept /\ sessMinted <= sessMinted'
  BY <1>1, <1>3, <1>4, <1>5, QuietStep
<1>7. ReqInv'
  BY <1>5, <1>6, ReqWaits
<1>8. QED
  BY <1>3, <1>4, <1>5, <1>6, <1>7 DEF SignInv, StoreNext

\* The process ends, with whatever its requests were doing.
LEMMA RestartStep == ASSUME SignInv, Restart PROVE SignInv' /\ EnrKept /\ StoreNext
<1>1. /\ SessRestart /\ DevRestart /\ (EnrRestart \/ \E u \in EnrUser : EnrReset(u))
      /\ req' = [r \in Req |-> Quiet] /\ UNCHANGED <<localUser, devSecret, account>>
  BY DEF Restart, KeptGhosts
<1>2. /\ [SessNext]_sessVars /\ sessMinted' = sessMinted
      /\ [DevNext]_devVars /\ devMinted' = devMinted /\ EnrMoves
  BY <1>1 DEF SessNext, SessRestart, DevNext, DevRestart, EnrMoves
<1>3. StoreInv' /\ EnrKept
  BY <1>1, <1>2, QuietStep
<1>4. sessMinted' \in Nat
  BY <1>3 DEF StoreInv, SessInd, SessTypes
<1>5. Quiet \in ReqRec' /\ Quiet.at = "idle"
  BY <1>4 DEF Quiet, ReqRec, Stage
<1>6. ReqInv'
  BY <1>1, <1>5 DEF ReqInv, ReqOK, At, Alone
<1>7. QED
  BY <1>2, <1>3, <1>6 DEF SignInv, StoreNext

\* A request takes up a session it found, of which it may know the identity.
LEMMA CarriesStep ==
  ASSUME SignInv, NEW r \in Req, NEW i \in SessLive, NEW u \in SessUser \cup {NoUser}, NEW g \in {"password", "flow", "queued"},
         Carries(r, g, i, u), g = "password" => u \in localUser, g = "queued" => Vouched(i, u),
         UNCHANGED sessVars, UNCHANGED devVars, UNCHANGED enrVars, UNCHANGED localUser, KeptGhosts
  PROVE  SignInv' /\ EnrKept /\ StoreNext
<1>1. /\ [SessNext]_sessVars /\ sessMinted' = sessMinted
      /\ [DevNext]_devVars /\ devMinted' = devMinted /\ EnrMoves /\ enr' = enr /\ enrFile' = enrFile
  BY DEF sessVars, devVars, enrVars, EnrMoves
<1>2. StoreInv' /\ EnrKept /\ VouchKept /\ sessMinted <= sessMinted'
  BY <1>1, QuietStep DEF KeptGhosts
<1>3. i \in 1..sessMinted
  BY DEF SignInv, StoreInv, SessInd, SessListed, SessTypes, SessLive, SessId
<1>4. PICK x : x = [Quiet EXCEPT !.at = g, !.sess = i, !.user = u]
  OBVIOUS
<1>5. req' = [req EXCEPT ![r] = x] /\ req'[r] = x
  BY <1>4 DEF Carries, SignInv, ReqInv
<1>6. x = [at |-> g, sess |-> i, user |-> u, secret |-> NoSecret]
  BY <1>4 DEF Quiet
<1>7. x \in ReqRec' /\ x.at = g /\ x.sess = i /\ x.user = u
  BY <1>1, <1>3, <1>6 DEF ReqRec, Stage
<1>8. g = "queued" => Vouched(i, u)'
  BY <1>1 DEF Vouched, KeptGhosts
<1>9. ReqOK(r)'
  BY <1>3, <1>5, <1>7, <1>8 DEF ReqOK, At
<1>10. ReqInv'
  BY <1>1, <1>2, <1>5, <1>7, <1>9, ReqMoves
<1>11. QED
  BY <1>1, <1>2, <1>10 DEF SignInv, StoreNext

\* A request goes on to a stage outside the buckets.
LEMMA GoesStep ==
  ASSUME SignInv, StoreInv', EnrKept, VouchKept, sessMinted <= sessMinted', UNCHANGED localUser,
         NEW r \in Req, NEW g \in {"vouch", "passed", "ended"}, Goes(r, g), ~At(r, "idle"),
         g = "passed" => At(r, "in"),
         \A q \in Req : q # r /\ At(q, "in") => enr'[req[q].user].secret = enr[req[q].user].secret
  PROVE  SignInv' /\ EnrKept
<1>1. req[r] \in ReqRec /\ ReqOK(r) /\ sessMinted \in Nat /\ sessMinted' \in Nat
  BY DEF SignInv, ReqInv, StoreInv, SessInd, SessTypes
<1>2. PICK x : x = [req[r] EXCEPT !.at = g]
  OBVIOUS
<1>3. req' = [req EXCEPT ![r] = x] /\ req'[r] = x
  BY <1>2 DEF Goes, SignInv, ReqInv
<1>4. x \in ReqRec' /\ x.at = g /\ x.sess = req[r].sess /\ x.user = req[r].user
  BY <1>1, <1>2 DEF ReqRec, Stage
<1>5. g = "passed" => Vouched(x.sess, x.user)'
  <2>1. SUFFICES ASSUME g = "passed" PROVE Vouched(x.sess, x.user)'
    OBVIOUS
  <2>2. PICK i, u : i = req[r].sess /\ u = req[r].user /\ Vouched(i, u)
    BY <1>1, <2>1 DEF ReqOK, At
  <2>3. i # 0 /\ i \in 0..sessMinted /\ u \in SessUser
    BY <1>1, <2>1, <2>2 DEF ReqOK, ReqRec, Vouched, At
  <2>4. i \in SessId /\ i <= sessMinted
    BY <1>1, <2>3, SessAssumption DEF SignInv, StoreInv, SessInd, SessTypes, SessId
  <2>5. Vouched(i, u)'
    BY <2>2, <2>3, <2>4 DEF VouchKept
  <2>6. QED
    BY <1>4, <2>2, <2>5
<1>6. ReqOK(r)'
  BY <1>1, <1>3, <1>4, <1>5 DEF ReqOK, At
<1>7. ReqInv'
  BY <1>3, <1>4, <1>6, ReqMoves
<1>8. QED
  BY <1>7 DEF SignInv

\* A handler finds a session, a flow, or an identity half way in.
LEMMA FindingStep ==
  ASSUME SignInv, NEW r \in Req, NEW i \in SessLive,
         CallbackReads(r, i) \/ MfaSubmit(r, i) \/ \E u \in SessUser : LocalLogin(r, i, u)
  PROVE  SignInv' /\ EnrKept /\ StoreNext
<1>1. CASE CallbackReads(r, i)
  <2>1. Carries(r, "flow", i, NoUser) /\ UNCHANGED <<sessVars, devVars, enrVars>> /\ UNCHANGED localUser /\ KeptGhosts
    BY <1>1 DEF CallbackReads, KeptLocks
  <2>2. QED
    BY <2>1, CarriesStep
<1>2. CASE MfaSubmit(r, i)
  <2>1. /\ Carries(r, "queued", i, sess[i].user) /\ UNCHANGED <<sessVars, devVars, enrVars>> /\ UNCHANGED localUser
        /\ KeptGhosts /\ sess[i].kind = "mfa"
    BY <1>2 DEF MfaSubmit, KeptLocks
  <2>2. PICK u : u = sess[i].user
    OBVIOUS
  <2>3. u \in SessUser \cup {NoUser} /\ i \in SessId
    BY <2>2 DEF SignInv, StoreInv, SessInd, SessTypes, SessRec, SessLive
  <2>4. Vouched(i, u)
    BY <2>1, <2>2, <2>3 DEF SignInv, StoreInv, AccountInv, SessHas
  <2>5. QED
    BY <2>1, <2>2, <2>3, <2>4, CarriesStep
<1>3. ASSUME NEW u \in SessUser, LocalLogin(r, i, u) PROVE SignInv' /\ EnrKept /\ StoreNext
  <2>1. /\ Carries(r, "password", i, u) /\ UNCHANGED <<sessVars, devVars, enrVars>> /\ UNCHANGED localUser
        /\ KeptGhosts /\ u \in localUser
    BY <1>3 DEF LocalLogin, KeptLocks
  <2>2. QED
    BY <2>1, CarriesStep
<1>4. QED
  BY <1>1, <1>2, <1>3

\* A request is refused, or its code is wrong.
LEMMA RefusedStep ==
  ASSUME SignInv, NEW r \in Req, Refused(r) \/ MfaWrong(r)
  PROVE  SignInv' /\ EnrKept /\ StoreNext
<1>1. Answers(r) /\ UNCHANGED <<sessVars, devVars, enrVars>> /\ UNCHANGED <<localUser, devSecret, account>>
  BY DEF Refused, MfaWrong, KeptLocks, KeptGhosts
<1>2. /\ [SessNext]_sessVars /\ sessMinted' = sessMinted
      /\ [DevNext]_devVars /\ devMinted' = devMinted /\ EnrMoves /\ enr' = enr
  BY <1>1 DEF sessVars, devVars, enrVars, EnrMoves
<1>3. StoreInv' /\ EnrKept /\ VouchKept /\ sessMinted <= sessMinted'
  BY <1>1, <1>2, QuietStep
<1>4. ReqInv'
  BY <1>1, <1>2, <1>3, ReqAnswers
<1>5. QED
  BY <1>2, <1>3, <1>4 DEF SignInv, StoreNext

\* A session is removed or its flow is taken, if it is still there.
LEMMA SessGone ==
  ASSUME SignInv, NEW r \in Req,
         \/ SessDrop(req[r].sess)
         \/ IF req[r].sess \in SessLive THEN SessSetOauth(req[r].sess, NoFlow) ELSE UNCHANGED sessVars
  PROVE  [SessNext]_sessVars /\ sessMinted' = sessMinted
<1>1. PICK i : i = req[r].sess
  OBVIOUS
<1>2. CASE UNCHANGED sessVars
  BY <1>2 DEF sessVars
<1>3. CASE i \in SessId /\ (SessRemove(i) \/ SessSetOauth(i, NoFlow))
  BY <1>3 DEF SessNext, SessRemove, SessSetOauth
<1>4. QED
  BY <1>1, <1>2, <1>3 DEF SessDrop, SessLive

\* A handler goes on past its flow, its code or its lock.
LEMMA PassingStep ==
  ASSUME SignInv, NEW r \in Req, CallbackTakes(r) \/ MfaLockedOut(r) \/ MfaLocks(r) \/ MfaVerifies(r)
  PROVE  SignInv' /\ EnrKept /\ StoreNext
<1>1. PICK g \in {"vouch", "passed", "ended"} : Goes(r, g) /\ ~At(r, "idle") /\ (g = "passed" => At(r, "in"))
  BY DEF CallbackTakes, MfaLockedOut, MfaLocks, MfaVerifies, At
<1>2. UNCHANGED devVars /\ UNCHANGED enrVars /\ UNCHANGED <<localUser, devSecret, account>>
  BY DEF CallbackTakes, MfaLockedOut, MfaLocks, MfaVerifies, KeptLocks, KeptGhosts, Clears
<1>3. [SessNext]_sessVars /\ sessMinted' = sessMinted
  <2>1. CASE CallbackTakes(r)
    BY <2>1, SessGone DEF CallbackTakes
  <2>2. CASE MfaLockedOut(r) \/ MfaLocks(r)
    BY <2>2, SessGone DEF MfaLockedOut, MfaLocks
  <2>3. CASE MfaVerifies(r)
    BY <2>3 DEF MfaVerifies, sessVars
  <2>4. QED
    BY <2>1, <2>2, <2>3
<1>4. [DevNext]_devVars /\ devMinted' = devMinted /\ EnrMoves /\ enr' = enr
  BY <1>2 DEF devVars, enrVars, EnrMoves
<1>5. StoreInv' /\ EnrKept /\ VouchKept /\ sessMinted <= sessMinted'
  BY <1>2, <1>3, <1>4, QuietStep
<1>6. QED
  BY <1>1, <1>2, <1>3, <1>4, <1>5, GoesStep DEF StoreNext

\* The browser that was locked out gets a new session.
LEMMA AnewStep ==
  ASSUME SignInv, NEW r \in Req, MfaAnew(r)
  PROVE  SignInv' /\ EnrKept /\ StoreNext
<1>1. Answers(r) /\ SessCreate /\ UNCHANGED devVars /\ UNCHANGED enrVars /\ UNCHANGED <<localUser, devSecret, account>>
  BY DEF MfaAnew, KeptLocks, KeptGhosts
<1>2. /\ [SessNext]_sessVars /\ [DevNext]_devVars /\ devMinted' = devMinted /\ EnrMoves /\ enr' = enr
  BY <1>1 DEF SessNext, devVars, enrVars, EnrMoves
<1>3. StoreInv' /\ EnrKept /\ VouchKept /\ sessMinted <= sessMinted'
  BY <1>1, <1>2, QuietStep
<1>4. ReqInv'
  BY <1>1, <1>2, <1>3, ReqAnswers
<1>5. QED
  BY <1>2, <1>3, <1>4 DEF SignInv, StoreNext

\* A request enters its identity's bucket, which is empty, and reads the
\* secret there.
LEMMA EntersStep == ASSUME SignInv, NEW r \in Req, MfaEnters(r) PROVE SignInv' /\ EnrKept /\ StoreNext
<1>1. /\ At(r, "queued") /\ InBucket(req[r].user) = {} /\ UNCHANGED sessVars /\ UNCHANGED devVars /\ UNCHANGED enrVars
      /\ UNCHANGED <<localUser, devSecret, account>>
      /\ req' = [req EXCEPT ![r].at = "in", ![r].secret = enr[req[r].user].secret]
  BY DEF MfaEnters, KeptLocks, KeptGhosts
<1>2. /\ [SessNext]_sessVars /\ sessMinted' = sessMinted
      /\ [DevNext]_devVars /\ devMinted' = devMinted /\ EnrMoves /\ enr' = enr /\ enrFile' = enrFile
  BY <1>1 DEF sessVars, devVars, enrVars, EnrMoves
<1>3. StoreInv' /\ EnrKept /\ VouchKept /\ sessMinted <= sessMinted'
  BY <1>1, <1>2, QuietStep
<1>4. req[r] \in ReqRec /\ ReqOK(r) /\ Vouched(req[r].sess, req[r].user) /\ req[r].sess # 0
  BY <1>1 DEF SignInv, ReqInv, ReqOK, At
<1>5. req[r].user \in EnrUser /\ enr \in [EnrUser -> EnrRec]
  BY <1>4, SignAssumption DEF Vouched, SignInv, StoreInv, EnrTypes
<1>6. enr[req[r].user].secret \in EnrSecret \cup {NoSecret}
  BY <1>5 DEF EnrRec
<1>7. PICK x : x = [req[r] EXCEPT !.at = "in", !.secret = enr[req[r].user].secret]
  OBVIOUS
<1>8. req' = [req EXCEPT ![r] = x] /\ req'[r] = x
  BY <1>1, <1>7 DEF SignInv, ReqInv
<1>9. /\ x \in ReqRec' /\ x.at = "in" /\ x.sess = req[r].sess /\ x.user = req[r].user
      /\ x.secret = enr[req[r].user].secret
  BY <1>2, <1>4, <1>6, <1>7 DEF ReqRec, Stage
<1>10. Vouched(x.sess, x.user)'
  BY <1>1, <1>2, <1>4, <1>9 DEF Vouched
<1>11. ReqOK(r)'
  BY <1>2, <1>4, <1>8, <1>9, <1>10 DEF ReqOK, At
<1>12. \A q \in Req : At(q, "in") => req[q].user # x.user
  BY <1>1, <1>9 DEF InBucket
<1>13. ReqInv'
  BY <1>1, <1>2, <1>3, <1>8, <1>9, <1>11, <1>12, ReqMoves
<1>14. QED
  BY <1>2, <1>3, <1>13 DEF SignInv, StoreNext

\* An enrollment changes the secret of the bucket's identity alone, and of one
\* that had none.
LEMMA EnrollsStep ==
  ASSUME SignInv, NEW r \in Req, NEW x \in EnrSecret, MfaEnrolls(r, x) \/ MfaEnrollUnwritten(r, x)
  PROVE  SignInv' /\ EnrKept /\ StoreNext
<1>0. PICK u : u = req[r].user
  OBVIOUS
<1>1. /\ \E ok \in EnrWrites : EnrEnroll(u, x, ok)
      /\ At(r, "in") /\ req[r].secret = NoSecret
      /\ Goes(r, "passed") \/ Answers(r)
      /\ DevRevokeAll(u) \/ UNCHANGED devVars
      /\ UNCHANGED sessVars /\ UNCHANGED <<localUser, devSecret, account>>
  <2>1. CASE MfaEnrolls(r, x)
    BY <1>0, <2>1 DEF MfaEnrolls, KeptGhosts, Clears, EnrWrites
  <2>2. CASE MfaEnrollUnwritten(r, x)
    BY <1>0, <2>2 DEF MfaEnrollUnwritten, KeptLocks, KeptGhosts, EnrWrites
  <2>3. QED
    BY <2>1, <2>2
<1>2. req[r] \in ReqRec /\ ReqOK(r) /\ Vouched(req[r].sess, u) /\ enr[u].secret = NoSecret
  BY <1>0, <1>1 DEF SignInv, ReqInv, ReqOK, At
<1>3. u \in EnrUser /\ u \in DevUser /\ enr \in [EnrUser -> EnrRec]
  BY <1>2, SignAssumption DEF Vouched, SignInv, StoreInv, EnrTypes
<1>4. EnrMoves
  BY <1>1, <1>2, <1>3 DEF EnrMoves
<1>5. [SessNext]_sessVars /\ sessMinted' = sessMinted
  BY <1>1 DEF sessVars
<1>6. [DevNext]_devVars /\ devMinted' = devMinted
  BY <1>1, <1>3 DEF DevNext, DevRevokeAll, devVars
<1>7. StoreInv' /\ EnrKept /\ VouchKept /\ sessMinted <= sessMinted'
  BY <1>1, <1>4, <1>5, <1>6, QuietStep
<1>8. \A q \in Req : q # r /\ At(q, "in") => req[q].user # u
  BY <1>0, <1>1 DEF SignInv, ReqInv, Alone
<1>9. \A v : v # u => enr'[v] = enr[v] \/ v \notin EnrUser
  BY <1>1, <1>3 DEF EnrEnroll
<1>10. \A q \in Req : q # r /\ At(q, "in") => enr'[req[q].user].secret = enr[req[q].user].secret
  <2>1. SUFFICES ASSUME NEW q \in Req, q # r, At(q, "in")
                 PROVE  enr'[req[q].user].secret = enr[req[q].user].secret
    OBVIOUS
  <2>2. req[q].user \in EnrUser
    BY <2>1, SignAssumption DEF SignInv, ReqInv, ReqOK, At, Vouched
  <2>3. QED
    BY <1>8, <1>9, <2>1, <2>2
<1>11. CASE Goes(r, "passed")
  <2>1. ~At(r, "idle")
    BY <1>1 DEF At
  <2>2. QED
    BY <1>1, <1>4, <1>5, <1>6, <1>7, <1>10, <1>11, <2>1, GoesStep DEF StoreNext
<1>12. CASE Answers(r)
  BY <1>1, <1>4, <1>5, <1>6, <1>7, <1>10, <1>12, ReqAnswers DEF SignInv, StoreNext
<1>13. QED
  BY <1>1, <1>11, <1>12

\* What both first factors end with.
LEMMA FirstFactorStep ==
  ASSUME SignInv, NEW r \in Req, ~At(r, "idle"), NEW u \in SessUser, NEW d \in Presented, NEW s \in EnrSub \cup {NoSub},
         FirstFactor(req[r].sess, u, d, s), Answers(r), EnrMoves, UNCHANGED <<localUser, devSecret>>,
         u \in localUser \/ s = NoSub \/ enrFile'[u].sub \in {NoSub, s},
         \A q \in Req : q # r /\ At(q, "in") => enr'[req[q].user].secret = enr[req[q].user].secret
  PROVE  SignInv' /\ EnrKept /\ StoreNext
<1>1. PICK i : i = req[r].sess
  OBVIOUS
<1>2. i \in 1..sessMinted
  <2>1. i # 0 /\ i \in 0..sessMinted /\ sessMinted \in Int
    BY <1>1 DEF SignInv, ReqInv, ReqOK, ReqRec, StoreInv, SessInd, SessTypes
  <2>2. QED
    BY <2>1
<1>3. /\ u \in EnrUser /\ u \in DevUser /\ enr[u].at \in DevStamp /\ DevOf(dev, u) \subseteq DevId
      /\ devSecret \in [DevId -> EnrSecret \cup {NoSecret}]
  <2>1. u \in EnrUser /\ u \in DevUser
    BY SignAssumption
  <2>2. enr[u].at \in Nat /\ enr[u].at <= enrNow /\ enrNow \in 0..MaxEnrTime /\ MaxEnrTime \in Nat
    BY <2>1, EnrollmentAssumption DEF SignInv, StoreInv, EnrTypes, EnrRec
  <2>3. enr[u].at \in 0..MaxEnrTime
    BY <2>2
  <2>4. QED
    BY <2>1, <2>3, SignAssumption DEF DevOf, DevIn, SignInv, StoreInv, GhostTypes
<1>4. SessLogin(i, u) \/ SessBeginMfa(i, u)
  BY <1>1 DEF FirstFactor
<1>5. Holder(u, s)
  BY DEF FirstFactor
<1>6. [DevNext]_devVars /\ devMinted' = devMinted
  <2>1. CASE d \in DevOf(dev, u) /\ DevAuthorize(d, u, enr[u].at)
    <3>1. PICK t \in DevStamp : DevAuthorize(d, u, t)
      BY <1>3, <2>1
    <3>2. QED
      BY <1>3, <2>1, <3>1 DEF DevNext, DevAuthorize
  <2>2. CASE d \in DevOf(dev, u) /\ DevRevoke(u, d)
    BY <1>3, <2>2 DEF DevNext, DevRevoke
  <2>3. CASE UNCHANGED devVars
    BY <2>3 DEF devVars
  <2>4. QED
    BY <2>1, <2>2, <2>3 DEF FirstFactor, Skips, DevTrusted
<1>7. StoreInv' /\ EnrKept /\ VouchKept /\ sessMinted <= sessMinted'
  <2>1. \A e \in DevId : ~(e > devMinted /\ e <= devMinted')
    BY <1>6 DEF SignInv, StoreInv, DevInd, DevTypes, DevId
  <2>2. QED
    BY <1>2, <1>3, <1>4, <1>5, <1>6, <2>1, PromoteStep
<1>8. SessNext
  BY <1>2, <1>4 DEF SessNext
<1>9. ReqInv'
  BY <1>7, ReqAnswers
<1>10. QED
  BY <1>6, <1>7, <1>8, <1>9 DEF SignInv, StoreNext

\* The password was right, or the issuer has vouched and the pin agrees or was
\* written; or its write failed, and nobody is let in.
LEMMA FactorStep ==
  ASSUME SignInv, NEW r \in Req,
         \/ \E d \in Presented : PasswordRight(r, d)
         \/ \E u \in SessUser, s \in EnrSub, d \in Presented : CallbackVouched(r, u, s, d)
         \/ \E u \in SessUser, s \in EnrSub : CallbackUnwritten(r, u, s)
  PROVE  SignInv' /\ EnrKept /\ StoreNext
<1>1. ASSUME NEW d \in Presented, PasswordRight(r, d) PROVE SignInv' /\ EnrKept /\ StoreNext
  <2>1. /\ At(r, "password") /\ Answers(r) /\ FirstFactor(req[r].sess, req[r].user, d, NoSub)
        /\ UNCHANGED enrVars /\ UNCHANGED <<localUser, devSecret>>
    BY <1>1 DEF PasswordRight, KeptLocks
  <2>2. PICK u \in SessUser : u = req[r].user
    BY <2>1 DEF SignInv, ReqInv, ReqOK, StoreInv, GhostTypes
  <2>3. EnrMoves /\ enr' = enr /\ ~At(r, "idle")
    BY <2>1 DEF EnrMoves, enrVars, At
  <2>4. QED
    BY <2>1, <2>2, <2>3, FirstFactorStep
<1>2. ASSUME NEW u \in SessUser, NEW s \in EnrSub, NEW d \in Presented, CallbackVouched(r, u, s, d)
      PROVE  SignInv' /\ EnrKept /\ StoreNext
  <2>1. /\ ~At(r, "idle") /\ Answers(r) /\ FirstFactor(req[r].sess, u, d, s) /\ UNCHANGED <<localUser, devSecret>>
        /\ EnrPinKnown(u, s) \/ EnrPinNew(u, s, TRUE)
    BY <1>2 DEF CallbackVouched, KeptLocks, At
  <2>2. /\ enr \in [EnrUser -> EnrRec] /\ enrFile \in [EnrUser -> EnrRec] /\ u \in EnrUser
        /\ enrFile[u].sub \in {NoSub, enr[u].sub}
    BY SignAssumption DEF SignInv, StoreInv, EnrTypes, FileBehind
  <2>3. EnrMoves
    BY <2>1, <2>2 DEF EnrMoves, EnrPinKnown, EnrWrites
  <2>4. enrFile'[u].sub \in {NoSub, s} /\ \A v \in EnrUser : enr'[v].secret = enr[v].secret
    <3>1. CASE EnrPinKnown(u, s)
      BY <2>2, <3>1 DEF EnrPinKnown, enrVars
    <3>2. CASE EnrPinNew(u, s, TRUE)
      <4>1. enr' = [enr EXCEPT ![u].sub = s] /\ enrFile' = enr'
        BY <3>2 DEF EnrPinNew, EnrWrite
      <4>2. QED
        BY <2>2, <4>1 DEF EnrRec
    <3>3. QED
      BY <2>1, <3>1, <3>2
  <2>5. \A q \in Req : q # r /\ At(q, "in") => enr'[req[q].user].secret = enr[req[q].user].secret
    BY <2>4, SignAssumption DEF SignInv, ReqInv, ReqOK, At, Vouched
  <2>6. QED
    BY <2>1, <2>3, <2>4, <2>5, FirstFactorStep
<1>3. ASSUME NEW u \in SessUser, NEW s \in EnrSub, CallbackUnwritten(r, u, s) PROVE SignInv' /\ EnrKept /\ StoreNext
  <2>1. /\ Answers(r) /\ EnrPinNew(u, s, FALSE) /\ FALSE \in EnrWrites /\ UNCHANGED sessVars /\ UNCHANGED devVars
        /\ UNCHANGED <<localUser, devSecret, account>>
    BY <1>3 DEF CallbackUnwritten, KeptLocks, KeptGhosts, EnrWrites
  <2>2. enr \in [EnrUser -> EnrRec] /\ u \in EnrUser
    BY SignAssumption DEF SignInv, StoreInv, EnrTypes
  <2>3. /\ [SessNext]_sessVars /\ sessMinted' = sessMinted
        /\ [DevNext]_devVars /\ devMinted' = devMinted /\ EnrMoves
    BY <2>1, <2>2 DEF sessVars, devVars, EnrMoves
  <2>4. StoreInv' /\ EnrKept /\ VouchKept /\ sessMinted <= sessMinted'
    BY <2>1, <2>3, QuietStep
  <2>5. \A v \in EnrUser : enr'[v].secret = enr[v].secret
    BY <2>1, <2>2 DEF EnrPinNew, EnrRec
  <2>6. \A q \in Req : q # r /\ At(q, "in") => enr'[req[q].user].secret = enr[req[q].user].secret
    BY <2>5, SignAssumption DEF SignInv, ReqInv, ReqOK, At, Vouched
  <2>7. QED
    BY <2>1, <2>3, <2>4, <2>6, ReqAnswers DEF SignInv, StoreNext
<1>4. QED
  BY <1>1, <1>2, <1>3

\* The second factor is passed: the session keeps the account it was vouched
\* for by, and the browser may be remembered under the secret on disk now.
LEMMA LogsInStep == ASSUME SignInv, NEW r \in Req, MfaLogsIn(r) PROVE SignInv' /\ EnrKept /\ StoreNext
<1>1. /\ At(r, "passed") /\ Answers(r) /\ SessLogin(req[r].sess, req[r].user)
      /\ MfaRemembers(r) \/ UNCHANGED <<devVars, devSecret>>
      /\ UNCHANGED enrVars /\ UNCHANGED localUser
      /\ Holder(req[r].user, account[req[r].sess])
  BY DEF MfaLogsIn, KeptLocks
<1>2. PICK i, u, s : i = req[r].sess /\ u = req[r].user /\ s = account[i]
  OBVIOUS
<1>3. Vouched(i, u) /\ i # 0 /\ i \in 0..sessMinted /\ sessMinted \in 0..MaxSess
  BY <1>1, <1>2 DEF SignInv, ReqInv, ReqOK, At, ReqRec, StoreInv, SessInd, SessTypes
<1>4. i \in 1..sessMinted /\ i \in SessId
  BY <1>3, SessAssumption DEF SessId
<1>5. u \in SessUser /\ u \in EnrUser /\ u \in DevUser /\ s \in EnrSub \cup {NoSub}
  BY <1>2, <1>3, <1>4, SignAssumption DEF Vouched, SignInv, StoreInv, GhostTypes
<1>6. enr' = enr /\ enrFile' = enrFile /\ enrNow' = enrNow /\ EnrMoves
  BY <1>1 DEF enrVars, EnrMoves
<1>7. u \in localUser \/ s = NoSub \/ enrFile'[u].sub \in {NoSub, s}
  BY <1>2, <1>3, <1>6 DEF Vouched
<1>8. /\ devSecret \in [DevId -> EnrSecret \cup {NoSecret}] /\ enrFile[u].secret \in EnrSecret \cup {NoSecret}
      /\ DevInd /\ devMinted \in 0..MaxDev /\ MaxDev \in Nat
  BY <1>5, DeviceAssumption DEF SignInv, StoreInv, GhostTypes, EnrTypes, EnrRec, DevInd, DevTypes
<1>9. enr[u].at \in DevStamp
  <2>1. enr[u].at \in Nat /\ enr[u].at <= enrNow /\ enrNow \in 0..MaxEnrTime /\ MaxEnrTime \in Nat
    BY <1>5, EnrollmentAssumption DEF SignInv, StoreInv, EnrTypes, EnrRec
  <2>2. enr[u].at \in 0..MaxEnrTime
    BY <2>1
  <2>3. QED
    BY <2>2, SignAssumption
<1>10. /\ [DevNext]_devVars
       /\ devSecret' \in [DevId -> EnrSecret \cup {NoSecret}]
       /\ \A d \in DevId : d <= devMinted => devSecret'[d] = devSecret[d]
       /\ \A d \in DevId : \A v \in EnrUser : \A t \in Nat :
            d > devMinted /\ d <= devMinted' /\ DevHas(d, v, t)' /\ devSecret'[d] # NoSecret
              => Held(v, devSecret[d], t)'
  <2>1. CASE UNCHANGED <<devVars, devSecret>>
    <3>1. UNCHANGED devVars /\ devSecret' = devSecret /\ devMinted' = devMinted
      BY <2>1 DEF devVars
    <3>2. \A d \in DevId : ~(d > devMinted /\ d <= devMinted')
      BY <1>8, <3>1 DEF DevId
    <3>3. QED
      BY <1>8, <3>1, <3>2
  <2>2. CASE MfaRemembers(r)
    <3>1. PICK ok \in DevWrites : DevMint(u, enr[u].at, ok)
      BY <1>2, <2>2 DEF MfaRemembers
    <3>2. PICK t0 \in DevStamp : t0 = enr[u].at /\ DevMint(u, t0, ok)
      BY <1>9, <3>1
    <3>3. ok \in BOOLEAN
      BY DEF DevWrites
    <3>4. [DevNext]_devVars
      BY <1>5, <3>1, <3>2 DEF DevNext
    <3>5. PICK n : n = devMinted + 1
      OBVIOUS
    <3>6. n = devMinted' /\ n \in DevId /\ n > devMinted /\ devMinted \in Int
      BY <1>8, <3>2, <3>5 DEF DevMint, DevId
    <3>7. devSecret' = [devSecret EXCEPT ![n] = enrFile[u].secret]
      BY <1>2, <2>2, <3>6 DEF MfaRemembers
    <3>8. \A d \in DevId : d <= devMinted => devSecret'[d] = devSecret[d]
      BY <1>8, <3>6, <3>7 DEF DevId
    <3>9. ASSUME NEW d \in DevId, NEW v \in EnrUser, NEW t \in Nat,
                 d > devMinted, d <= devMinted', DevHas(d, v, t)', devSecret'[d] # NoSecret
          PROVE  Held(v, devSecret[d], t)'
      <4>1. d = n
        BY <3>5, <3>6, <3>9 DEF DevId
      <4>2. v = u /\ t = t0
        BY <1>5, <1>8, <3>2, <3>3, <3>5, <3>9, <4>1, DevMinted
      <4>3. devSecret'[d] = enrFile[u].secret /\ enrFile[u].secret # NoSecret
        BY <1>8, <3>7, <3>9, <4>1
      <4>4. enrFile[u].at = t0
        BY <1>5, <3>2, <4>3 DEF SignInv, StoreInv, FileBehind
      <4>5. QED
        BY <1>6, <4>2, <4>3, <4>4 DEF Held
    <3>10. devSecret' \in [DevId -> EnrSecret \cup {NoSecret}]
      BY <1>8, <3>7
    <3>11. QED
      BY <3>4, <3>8, <3>9, <3>10
  <2>3. QED
    BY <1>1, <2>1, <2>2
<1>11. StoreInv' /\ EnrKept /\ VouchKept /\ sessMinted <= sessMinted'
  BY <1>1, <1>2, <1>4, <1>5, <1>6, <1>7, <1>10, PromoteStep
<1>12. ReqInv'
  BY <1>1, <1>6, <1>11, ReqAnswers
<1>13. SessNext
  BY <1>1, <1>2, <1>4, <1>5 DEF SessNext
<1>14. QED
  BY <1>6, <1>10, <1>11, <1>12, <1>13 DEF SignInv, StoreNext

\* Every step leaves the invariant, keeps what was enrolled, and moves each
\* store by one of the store's own operations.
LEMMA SignIndStep == SignInv /\ [SignNext]_signVars => SignInv' /\ EnrKept /\ StoreNext
<1> SUFFICES ASSUME SignInv, [SignNext]_signVars PROVE SignInv' /\ EnrKept /\ StoreNext
  OBVIOUS
<1>1. CASE UNCHANGED signVars
  <2>1. /\ UNCHANGED sessVars /\ UNCHANGED devVars /\ UNCHANGED enrVars
        /\ UNCHANGED <<localUser, devSecret, account>> /\ req' = req
    BY <1>1 DEF signVars
  <2>2. /\ [SessNext]_sessVars /\ sessMinted' = sessMinted
        /\ [DevNext]_devVars /\ devMinted' = devMinted /\ EnrMoves /\ enr' = enr
    BY <2>1 DEF sessVars, devVars, enrVars, EnrMoves
  <2>3. StoreInv' /\ EnrKept /\ VouchKept /\ sessMinted <= sessMinted'
    BY <2>1, <2>2, QuietStep
  <2>4. ReqInv'
    BY <2>1, <2>2, <2>3, ReqWaits
  <2>5. QED
    BY <2>2, <2>3, <2>4 DEF SignInv, StoreNext
<1>2. CASE Restart
  BY <1>2, RestartStep
<1>3. CASE \/ LoginPage \/ \E u \in SessUser : LockLapses(u)
           \/ \E i \in SessLive : \/ MfaCancel(i)
                                  \/ \E f \in SessFlow : OauthStart(i, f)
                                  \/ \E d \in Presented : Logout(i, d) \/ RevokeDevice(i, d)
  BY <1>3, LeavingStep
<1>4. ASSUME NEW r \in Req,
             \/ Refused(r) \/ CallbackTakes(r)
             \/ MfaEnters(r) \/ MfaLockedOut(r) \/ MfaAnew(r)
             \/ MfaWrong(r) \/ MfaLocks(r) \/ MfaVerifies(r) \/ MfaLogsIn(r)
      PROVE  SignInv' /\ EnrKept /\ StoreNext
  BY <1>4, RefusedStep, PassingStep, EntersStep, AnewStep, LogsInStep
<1>5. ASSUME NEW r \in Req,
             \/ \E i \in SessLive : CallbackReads(r, i) \/ MfaSubmit(r, i)
             \/ \E i \in SessLive, u \in SessUser : LocalLogin(r, i, u)
      PROVE  SignInv' /\ EnrKept /\ StoreNext
  BY <1>5, FindingStep
<1>6. ASSUME NEW r \in Req,
             \/ \E d \in Presented : PasswordRight(r, d)
             \/ \E u \in SessUser, s \in EnrSub, d \in Presented : CallbackVouched(r, u, s, d)
             \/ \E u \in SessUser, s \in EnrSub : CallbackUnwritten(r, u, s)
      PROVE  SignInv' /\ EnrKept /\ StoreNext
  BY <1>6, FactorStep
<1>7. ASSUME NEW r \in Req, NEW x \in EnrSecret, MfaEnrolls(r, x) \/ MfaEnrollUnwritten(r, x)
      PROVE  SignInv' /\ EnrKept /\ StoreNext
  BY <1>7, EnrollsStep
<1>8. QED
  BY <1>1, <1>2, <1>3, <1>4, <1>5, <1>6, <1>7 DEF SignNext

\* The inductive invariant holds of every reachable state.
LEMMA SignIndHolds == SignSpec => []SignInv
<1>1. SignInv /\ [SignNext]_signVars => SignInv'
  BY SignIndStep
<1>2. QED
  BY SignIndInit, <1>1, PTL DEF SignSpec

----------------------------------------------------------------------------
(* The theorems. *)

\* However the handlers interleave, fail and restart, each store takes only
\* the steps of its own module: what SessionStoreProofs and DeviceStoreProofs
\* prove of a store by itself holds of it inside the server.
THEOREM StoresKeptApart == SignSpec => SessSpec /\ DevSpec /\ EnrSpec
<1>1. SignInit => SessInit /\ DevInit /\ EnrInit
  BY DEF SignInit
<1>2. SignInv /\ [SignNext]_signVars => [SessNext]_sessVars /\ [DevNext]_devVars /\ [EnrNext]_enrVars
  <2> SUFFICES ASSUME SignInv, [SignNext]_signVars
               PROVE  [SessNext]_sessVars /\ [DevNext]_devVars /\ [EnrNext]_enrVars
    OBVIOUS
  <2>1. StoreNext
    BY SignIndStep
  <2>2. [EnrNext]_enrVars
    BY <2>1 DEF StoreNext, EnrMoves, EnrNext
  <2>3. QED
    BY <2>1, <2>2 DEF StoreNext
<1>3. QED
  BY <1>1, <1>2, SignIndHolds, PTL DEF SignSpec, SessSpec, DevSpec, EnrSpec

\* A device that skips the code now was earned with the secret enrolled now,
\* if that secret was on disk: it carries the enrollment time of its secret,
\* and whatever replaced the secret came with a later one, even across failed
\* writes of the file and a restart to what the file held.
THEOREM TrustCurrentHolds == SignSpec => []TrustCurrent
<1>1. SignInv => TrustCurrent
  <2> SUFFICES ASSUME SignInv, NEW d \in DevIn(dev), Skips(d, dev[d].user)
               PROVE  devSecret[d] \in {NoSecret, enr[dev[d].user].secret}
    BY DEF TrustCurrent
  <2>1. PICK u, t : u = dev[d].user /\ t = dev[d].stamp
    OBVIOUS
  <2>2. d \in DevId /\ u # NoDevUser /\ dev[d] \in DevRec
    BY <2>1 DEF DevIn, SignInv, StoreInv, DevInd, DevTypes
  <2>3. u \in EnrUser /\ t = enr[u].at /\ enr[u].secret # NoSecret
    BY <2>1, <2>2, SignAssumption DEF DevRec, Skips, DevTrusted, EnrEnrolled
  <2>4. t \in Nat /\ t <= enrNow
    BY <2>3 DEF SignInv, StoreInv, EnrTypes, EnrRec
  <2>5. DevHas(d, u, t)
    BY <2>1, <2>2 DEF DevHas
  <2>6. devSecret[d] # NoSecret => Held(u, devSecret[d], t)
    BY <2>2, <2>3, <2>4, <2>5 DEF SignInv, StoreInv, DeviceInv
  <2>7. CASE devSecret[d] = NoSecret
    BY <2>7
  <2>8. CASE devSecret[d] # NoSecret
    <3>1. ~(enr[u].at > t)
      BY <2>3, <2>4
    <3>2. enrFile[u].secret = devSecret[d]
      BY <2>3, <2>6, <2>8, <3>1 DEF Held
    <3>3. enr[u].secret = devSecret[d]
      BY <2>3, <2>8, <3>2 DEF SignInv, StoreInv, FileBehind
    <3>4. QED
      BY <2>1, <3>3
  <2>9. QED
    BY <2>7, <2>8
<1>2. QED
  BY <1>1, SignIndHolds, PTL

\* Whichever callbacks race and whichever pins fail to be written, a session
\* of an issuer's identity was vouched for by the account pinned on disk, from
\* the first factor through the code to the session that is signed in.
THEOREM OneAccountHolds == SignSpec => []OneAccount
<1>1. SignInv => OneAccount
  <2> SUFFICES ASSUME SignInv, NEW i \in SessLive, sess[i].kind # "anon", sess[i].user \notin localUser
               PROVE  account[i] \in {NoSub, enr[sess[i].user].sub}
    BY DEF OneAccount
  <2>1. PICK u : u = sess[i].user
    OBVIOUS
  <2>2. i \in SessId /\ sess[i] \in SessRec /\ sess[i].kind \in {"mfa", "auth"} /\ u \in SessUser \cup {NoUser}
    BY <2>1 DEF SessLive, SignInv, StoreInv, SessInd, SessTypes, SessRec, SessKind
  <2>3. Vouched(i, u)
    BY <2>1, <2>2 DEF SignInv, StoreInv, AccountInv, SessHas
  <2>4. u \in EnrUser /\ account[i] \in {NoSub, enrFile[u].sub}
    BY <2>1, <2>3, SignAssumption DEF Vouched
  <2>5. QED
    BY <2>1, <2>4 DEF SignInv, StoreInv, FileBehind
<1>2. QED
  BY <1>1, SignIndHolds, PTL

\* A secret in use is never replaced by another, whichever pages race: the
\* bucket's holder read the secret inside the bucket, and nobody else can
\* have written since.
THEOREM EnrollOnceHolds == SignSpec => EnrollOnce
<1>1. SignInv /\ [SignNext]_signVars
        => [\A u \in EnrUser : EnrEnrolled(u) /\ enr'[u].secret # NoSecret => enr'[u].secret = enr[u].secret]_signVars
  BY SignIndStep DEF EnrKept, EnrEnrolled
<1>2. QED
  BY <1>1, SignIndHolds, PTL DEF SignSpec, EnrollOnce
=============================================================================
