----------------------------- MODULE DeviceStore -----------------------------
(***************************************************************************)
(* The trusted-device store of devices.rs: browsers that may skip the      *)
(* second factor.  A cookie's token, its hash and the record's id are one  *)
(* number; an address and a user agent are never compared and left out.    *)
(* Every mutation holds the lock across its write, so an operation is one  *)
(* step and its write comes out well or not; a crash inside a write is a   *)
(* failed write and a restart.                                             *)
(***************************************************************************)
EXTENDS Integers, FiniteSets

CONSTANTS
  DevUser,    \* identities
  DevStamp,   \* values of enrolled_at: which TOTP secret a device was trusted under
  DevCaps,    \* values of max_per_identity (clamped to 1..64)
  DevWindow,  \* window_secs (the configuration clamps it to 1..90 days)
  MaxDev,     \* bound: devices minted
  MaxDevTime, \* bound: seconds on the clock
  DevMayFail  \* whether a write may fail

ASSUME DeviceAssumption ==
  /\ DevCaps \subseteq Nat /\ DevCaps # {} /\ DevWindow \in Nat \ {0}
  /\ MaxDev \in Nat /\ MaxDevTime \in Nat /\ DevMayFail \in BOOLEAN

VARIABLES
  dev,        \* the map: a record for every token, NoDev where there is none
  devFile,    \* the same, as last written
  devMinted,  \* tokens drawn so far
  devNow,     \* SystemTime, in seconds
  devCap,     \* max_per_identity of this process
  devOver     \* checking only: devices ended by a call whose write did not fail

devVars == <<dev, devFile, devMinted, devNow, devCap, devOver>>

DevId == 1..MaxDev
NoDevUser == "no identity"
NoDev == [user |-> NoDevUser, made |-> 0, until |-> 0, used |-> 0, stamp |-> 0]
DevRec == [user : DevUser \cup {NoDevUser}, made : Nat, until : Nat, used : Nat, stamp : DevStamp \cup {0}]

DevPlaces == IF devCap = 0 THEN 1 ELSE devCap
DevExpired(r) == devNow >= r.until
DevIn(M) == {d \in DevId : M[d].user # NoDevUser}
DevOf(M, u) == {d \in DevIn(M) : M[d].user = u}

DevInit ==
  /\ dev = [d \in DevId |-> NoDev] /\ devFile = [d \in DevId |-> NoDev]
  /\ devMinted = 0 /\ devNow = 0 /\ devCap \in DevCaps /\ devOver = {}

----------------------------------------------------------------------------
(* Parts of the operations. *)

DevWrites == IF DevMayFail THEN BOOLEAN ELSE {TRUE}
DevWrite(M, ok) == devFile' = IF ok THEN M ELSE devFile
DevWithout(M, G) == [d \in DevId |-> IF d \in G THEN NoDev ELSE M[d]]
DevStale == {d \in DevIn(dev) : DevExpired(dev[d])}

\* G is a choice of excess records, none used more recently than one it leaves.
DevLeastUsed(G, S) == \A d \in G, e \in S \ G : dev[d].used <= dev[e].used
DevExcessOne(S) == IF Cardinality(S) >= DevPlaces THEN 1 ELSE 0
DevExcess(S) == IF Cardinality(S) >= DevPlaces THEN Cardinality(S) + 1 - DevPlaces ELSE 0
DevEvictable(u) ==
  LET S == DevOf(dev, u) \ DevStale
  IN  {G \in SUBSET S : Cardinality(G) = DevExcess(S) /\ DevLeastUsed(G, S)}

\* The end of G: revoked in memory at once; the write may fail and is not
\* rolled back.
DevEnd(G) ==
  /\ dev' = DevWithout(dev, G)
  /\ \E ok \in DevWrites : DevWrite(dev', ok) /\ devOver' = IF ok THEN devOver \cup G ELSE devOver

----------------------------------------------------------------------------
(* The operations. *)

DevNew(u, stamp) ==
  [user |-> u, made |-> devNow, until |-> devNow + DevWindow, used |-> devNow, stamp |-> stamp]

\* A mint that keeps its record when the write fails.
DevMintKept(u, stamp, ok) ==
  /\ devMinted < MaxDev
  /\ devMinted' = devMinted + 1
  /\ \E G \in DevEvictable(u) :
       /\ dev' = [DevWithout(dev, DevStale \cup G) EXCEPT ![devMinted'] = DevNew(u, stamp)]
       /\ DevWrite(dev', ok)
       /\ devOver' = IF ok THEN devOver \cup DevStale \cup G ELSE devOver
  /\ UNCHANGED <<devNow, devCap>>

\* mint(): expired records go, the least recently used of this identity make
\* room, and a failed write takes back the new record alone.
DevMint(u, stamp, ok) ==
  /\ devMinted < MaxDev
  /\ devMinted' = devMinted + 1
  /\ \E G \in DevEvictable(u) :
       LET kept == DevWithout(dev, DevStale \cup G)
           full == [kept EXCEPT ![devMinted'] = DevNew(u, stamp)]
       IN /\ dev' = IF ok THEN full ELSE kept
          /\ DevWrite(full, ok)
          /\ devOver' = IF ok THEN devOver \cup DevStale \cup G ELSE devOver
  /\ UNCHANGED <<devNow, devCap>>

DevTrusted(d, u, stamp) ==
  /\ d \in DevOf(dev, u)
  /\ ~DevExpired(dev[d])
  /\ dev[d].stamp = stamp

\* authorize(): records the use; the trust stands if that is not written.
DevAuthorize(d, u, stamp) ==
  /\ DevTrusted(d, u, stamp)
  /\ dev' = [dev EXCEPT ![d].used = devNow]
  /\ \E ok \in DevWrites : DevWrite(dev', ok)
  /\ UNCHANGED <<devMinted, devNow, devCap, devOver>>

\* A revocation that takes effect only if it is written.
DevRevokeRolledBack(u, d) ==
  /\ d \in DevOf(dev, u)
  /\ \E ok \in DevWrites :
       /\ dev' = IF ok THEN DevWithout(dev, {d}) ELSE dev
       /\ devOver' = devOver \cup {d}
       /\ DevWrite(dev', ok)
  /\ UNCHANGED <<devMinted, devNow, devCap>>

\* revoke(), forget_if_owned(): of this identity's devices alone.
DevRevoke(u, d) == d \in DevOf(dev, u) /\ DevEnd({d}) /\ UNCHANGED <<devMinted, devNow, devCap>>

\* revoke_token(): whoever it belongs to.
DevRevokeToken(d) == d \in DevIn(dev) /\ DevEnd({d}) /\ UNCHANGED <<devMinted, devNow, devCap>>

DevRevokeAll(u) ==
  DevOf(dev, u) # {} /\ DevEnd(DevOf(dev, u)) /\ UNCHANGED <<devMinted, devNow, devCap>>

DevSweep == DevStale # {} /\ DevEnd(DevStale) /\ UNCHANGED <<devMinted, devNow, devCap>>

\* load(): expired records are left out, and nothing is written; the
\* configuration may have changed.
DevRestart ==
  /\ dev' = DevWithout(devFile, {d \in DevIn(devFile) : DevExpired(devFile[d])})
  /\ devCap' \in DevCaps
  /\ UNCHANGED <<devFile, devMinted, devNow, devOver>>

DevTick ==
  /\ devNow < MaxDevTime
  /\ devNow' = devNow + 1
  /\ UNCHANGED <<dev, devFile, devMinted, devCap, devOver>>

DevNext ==
  \/ DevSweep \/ DevRestart \/ DevTick
  \/ \E u \in DevUser : DevRevokeAll(u)
  \/ \E u \in DevUser, s \in DevStamp : \E ok \in DevWrites : DevMint(u, s, ok)
  \/ \E u \in DevUser, d \in DevId : DevRevoke(u, d)
  \/ \E u \in DevUser, d \in DevId, s \in DevStamp : DevAuthorize(d, u, s)
  \/ \E d \in DevId : DevRevokeToken(d)

DevSpec == DevInit /\ [][DevNext]_devVars

----------------------------------------------------------------------------
(* Properties. *)

\* Types; trust is absolute: however often it is used, it ends one window after
\* the code that earned it.
DevTypeOK ==
  /\ dev \in [DevId -> DevRec] /\ devFile \in [DevId -> DevRec]
  /\ devMinted \in 0..MaxDev /\ devNow \in Nat /\ devCap \in DevCaps /\ devOver \subseteq DevId
  /\ \A d \in DevId : \A r \in {dev[d], devFile[d]} :
       r # NoDev => r.until = r.made + DevWindow /\ r.made <= r.used /\ r.used < r.until /\ r.used <= devNow

\* A device that was revoked, forgotten, evicted or swept stays so across
\* restarts, unless the write of that call failed ("a revoked device coming
\* back after a restart, which is exactly the failure this store must not
\* have").
DevOverStaysOver == \A d \in devOver : dev[d] = NoDev /\ devFile[d] = NoDev

\* A browser that skips the second factor now does so after a restart: what
\* memory trusts is on disk, although a failed mint, a failed revocation and
\* a failed use each leave the two different.
DevMemoryWritten ==
  \A d \in DevIn(dev) :
    /\ devFile[d].user = dev[d].user /\ devFile[d].until = dev[d].until
    /\ devFile[d].stamp = dev[d].stamp

\* A mint leaves its identity at most at the cap, even when the cap has been
\* lowered below what the file held, and takes nothing from anyone else
\* that was still good.
DevMintWithinCap ==
  [][\A d \in DevIn(dev') : (d > devMinted) =>
       /\ Cardinality(DevOf(dev', dev'[d].user)) <= DevPlaces
       /\ \A e \in DevIn(dev) \ DevStale : dev[e].user # dev'[d].user => dev'[e] = dev[e]]_devVars
=============================================================================
