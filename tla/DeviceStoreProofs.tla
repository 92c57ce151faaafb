-------------------------- MODULE DeviceStoreProofs --------------------------
(***************************************************************************)
(* Proofs about DeviceStore for every cap, window, number of devices and   *)
(* choice of failing writes.                                               *)
(***************************************************************************)
EXTENDS DeviceStore, FiniteSetTheorems, TLAPS

\* The types, with what the clock and the counter allow.
DevTypes ==
  /\ dev \in [DevId -> DevRec] /\ devFile \in [DevId -> DevRec]
  /\ devMinted \in 0..MaxDev /\ devNow \in Nat /\ devCap \in DevCaps
  /\ devOver \subseteq 1..devMinted

\* Trust in a record: it ends one window after it was earned.
DevSpan(r) ==
  r # NoDev => r.until = r.made + DevWindow /\ r.made <= r.used /\ r.used < r.until /\ r.used <= devNow

\* Both maps have records of minted tokens only.
DevListed ==
  \A d \in DevId : d > devMinted => dev[d] = NoDev /\ devFile[d] = NoDev

\* The inductive invariant.
DevInd ==
  /\ DevTypes /\ DevListed
  /\ \A d \in DevId : DevSpan(dev[d]) /\ DevSpan(devFile[d])
  /\ DevOverStaysOver /\ DevMemoryWritten

\* The types of the model are part of it.
LEMMA DevIndTyped == DevInd => DevTypeOK
<1> SUFFICES ASSUME DevInd PROVE DevTypeOK
  OBVIOUS
<1>1. devMinted \in 0..MaxDev /\ MaxDev \in Nat /\ devOver \subseteq DevId
  BY DeviceAssumption DEF DevInd, DevTypes, DevId
<1>2. QED
  BY <1>1 DEF DevInd, DevTypes, DevTypeOK, DevSpan

\* NoDev, which stands for no record, belongs to nobody.
LEMMA DevNoneTyped == NoDev \in DevRec /\ NoDev.user = NoDevUser
  BY DEF NoDev, DevRec

\* The store starts empty.
LEMMA DevIndInit == DevInit => DevInd
<1> SUFFICES ASSUME DevInit PROVE DevInd
  OBVIOUS
<1>1. DevIn(dev) = {}
  BY DevNoneTyped DEF DevInit, DevIn
<1>2. QED
  BY <1>1, DevNoneTyped, DeviceAssumption
  DEF DevInit, DevInd, DevTypes, DevListed, DevSpan, DevOverStaysOver, DevMemoryWritten

\* The map without G, and nothing else changed in it.
LEMMA DevWithoutG ==
  ASSUME NEW M \in [DevId -> DevRec], NEW G
  PROVE  /\ DevWithout(M, G) \in [DevId -> DevRec]
         /\ \A d \in DevId : DevWithout(M, G)[d] = IF d \in G THEN NoDev ELSE M[d]
  BY DevNoneTyped DEF DevWithout

\* Revocations, the sweep and the like: G goes from memory, and from the file
\* if the write succeeds.
LEMMA DevEnds ==
  ASSUME DevInd, NEW G \in SUBSET DevIn(dev), DevEnd(G), UNCHANGED <<devMinted, devNow, devCap>>
  PROVE  DevInd'
<1>1. DevTypes /\ SUBSET DevIn(dev) \subseteq SUBSET DevId
  BY DEF DevInd, DevIn
<1>2. PICK ok \in BOOLEAN : DevWrite(dev', ok) /\ devOver' = IF ok THEN devOver \cup G ELSE devOver
  BY DEF DevEnd, DevWrites
<1>3. /\ dev' \in [DevId -> DevRec]
      /\ \A d \in DevId : dev'[d] = IF d \in G THEN NoDev ELSE dev[d]
  BY <1>1, DevWithoutG DEF DevEnd, DevTypes
<1>4. devFile' \in [DevId -> DevRec] /\ \A d \in DevId : devFile'[d] = IF ok THEN dev'[d] ELSE devFile[d]
  BY <1>1, <1>2, <1>3 DEF DevWrite, DevTypes
<1>5. \A d \in G : d \in 1..devMinted
  <2>1. ASSUME NEW d \in G PROVE ~(d > devMinted)
    BY <1>1, <2>1, DevNoneTyped DEF DevInd, DevListed, DevIn
  <2>2. QED
    BY <1>1, <2>1, DeviceAssumption DEF DevTypes, DevId
<1>6. DevTypes'
  BY <1>1, <1>2, <1>3, <1>4, <1>5 DEF DevTypes
<1>7. DevListed'
  BY <1>3, <1>4 DEF DevInd, DevListed
<1>8. \A d \in DevId : DevSpan(dev[d])' /\ DevSpan(devFile[d])'
  BY <1>3, <1>4 DEF DevInd, DevSpan
<1>9. DevOverStaysOver'
  <2> SUFFICES ASSUME NEW d \in devOver' PROVE dev'[d] = NoDev /\ devFile'[d] = NoDev
    BY DEF DevOverStaysOver
  <2>1. d \in DevId /\ (d \in devOver \/ (d \in G /\ ok))
    BY <1>1, <1>2, DeviceAssumption DEF DevTypes, DevId
  <2>2. QED
    BY <1>3, <1>4, <2>1 DEF DevInd, DevOverStaysOver
<1>10. DevMemoryWritten'
  BY <1>3, <1>4, DevNoneTyped DEF DevInd, DevMemoryWritten, DevIn
<1>11. QED
  BY <1>6, <1>7, <1>8, <1>9, <1>10 DEF DevInd

\* A mint, written or taken back; what it evicted is gone either way.
LEMMA DevMints ==
  ASSUME DevInd, NEW u \in DevUser, NEW stamp \in DevStamp, NEW ok \in BOOLEAN, DevMint(u, stamp, ok)
  PROVE  DevInd'
<1>1. DevTypes
  BY DEF DevInd
<1>2. PICK G \in DevEvictable(u) :
        LET kept == DevWithout(dev, DevStale \cup G)
            full == [kept EXCEPT ![devMinted'] = DevNew(u, stamp)]
        IN /\ dev' = IF ok THEN full ELSE kept
           /\ DevWrite(full, ok)
           /\ devOver' = IF ok THEN devOver \cup DevStale \cup G ELSE devOver
  BY DEF DevMint
<1> DEFINE kept == DevWithout(dev, DevStale \cup G)
           full == [kept EXCEPT ![devMinted'] = DevNew(u, stamp)]
<1>3. /\ devMinted \in Nat /\ MaxDev \in Nat /\ DevId = 1..MaxDev
      /\ devMinted' = devMinted + 1 /\ devMinted' \in DevId
      /\ devNow' = devNow /\ devCap' = devCap /\ devNow \in Nat /\ DevWindow \in Nat \ {0}
  BY <1>1, DeviceAssumption DEF DevMint, DevTypes, DevId
<1>4. DevStale \cup G \subseteq DevIn(dev) /\ DevIn(dev) \subseteq DevId
  BY DEF DevEvictable, DevOf, DevStale, DevIn
<1>5. \A d \in DevStale \cup G : d \in 1..devMinted
  <2>1. ASSUME NEW d \in DevStale \cup G PROVE ~(d > devMinted)
    BY <1>4, <2>1, DevNoneTyped DEF DevInd, DevListed, DevIn
  <2>2. QED
    BY <1>3, <1>4, <2>1
<1>6. kept \in [DevId -> DevRec] /\ \A d \in DevId : kept[d] = IF d \in DevStale \cup G THEN NoDev ELSE dev[d]
  BY <1>1, DevWithoutG DEF DevTypes
<1>7. DevNew(u, stamp) \in DevRec /\ DevSpan(DevNew(u, stamp)) /\ DevNew(u, stamp) # NoDev
  <2>1. DevNew(u, stamp) = [user |-> u, made |-> devNow, until |-> devNow + DevWindow, used |-> devNow, stamp |-> stamp]
    BY DEF DevNew
  <2>2. DevNew(u, stamp).until > 0 /\ NoDev.until = 0
    BY <1>3, <2>1 DEF NoDev
  <2>3. QED
    BY <1>3, <2>1, <2>2 DEF DevRec, DevSpan
<1> HIDE DEF kept
<1>8. /\ full \in [DevId -> DevRec] /\ full[devMinted'] = DevNew(u, stamp)
      /\ \A d \in DevId : d # devMinted' => full[d] = kept[d]
  BY <1>3, <1>6, <1>7
<1> HIDE DEF full
<1>9. dev' = (IF ok THEN full ELSE kept) /\ devFile' = IF ok THEN full ELSE devFile
  BY <1>2 DEF DevWrite, kept, full
<1>10. devOver' = IF ok THEN devOver \cup DevStale \cup G ELSE devOver
  BY <1>2
<1>11. DevTypes'
  <2>1. dev' \in [DevId -> DevRec] /\ devFile' \in [DevId -> DevRec]
    BY <1>1, <1>6, <1>8, <1>9 DEF DevTypes
  <2>2. devOver' \subseteq 1..devMinted'
    <3>1. 1..devMinted \subseteq 1..devMinted'
      BY <1>3
    <3>2. devOver \subseteq 1..devMinted /\ DevStale \cup G \subseteq 1..devMinted
      BY <1>1, <1>5 DEF DevTypes
    <3>3. QED
      BY <1>10, <3>1, <3>2
  <2>3. QED
    BY <1>1, <1>3, <2>1, <2>2 DEF DevTypes
<1>12. DevListed'
  <2> SUFFICES ASSUME NEW d \in DevId, d > devMinted' PROVE dev'[d] = NoDev /\ devFile'[d] = NoDev
    BY DEF DevListed
  <2>1. d # devMinted' /\ d > devMinted
    BY <1>3
  <2>2. QED
    BY <1>6, <1>8, <1>9, <2>1 DEF DevInd, DevListed
<1>13. \A d \in DevId : DevSpan(dev[d])' /\ DevSpan(devFile[d])'
  <2>1. DevSpan(NoDev)
    BY DEF DevSpan
  <2>2. \A d \in DevId : DevSpan(kept[d]) /\ DevSpan(devFile[d])
    BY <1>6, <2>1 DEF DevInd
  <2>3. \A d \in DevId : DevSpan(full[d])
    BY <1>7, <1>8, <2>2
  <2>4. \A d \in DevId : DevSpan(dev'[d]) /\ DevSpan(devFile'[d])
    BY <1>9, <2>2, <2>3
  <2>5. QED
    BY <1>3, <2>4 DEF DevSpan
<1>14. DevOverStaysOver'
  <2> SUFFICES ASSUME NEW d \in devOver' PROVE dev'[d] = NoDev /\ devFile'[d] = NoDev
    BY DEF DevOverStaysOver
  <2>1. d \in DevId /\ d # devMinted' /\ (d \in devOver \/ (ok /\ d \in DevStale \cup G))
    BY <1>1, <1>3, <1>5, <1>10 DEF DevTypes
  <2>2. QED
    BY <1>6, <1>8, <1>9, <2>1 DEF DevInd, DevOverStaysOver
<1>15. DevMemoryWritten'
  <2>1. CASE ok
    BY <1>9, <2>1 DEF DevMemoryWritten
  <2>2. CASE ~ok
    BY <1>6, <1>9, <2>2, DevNoneTyped DEF DevInd, DevMemoryWritten, DevIn
  <2>3. QED
    BY <2>1, <2>2
<1>16. QED
  BY <1>11, <1>12, <1>13, <1>14, <1>15 DEF DevInd

\* A use of a trusted device changes its last use alone.
LEMMA DevAuthorizes ==
  ASSUME DevInd, NEW u \in DevUser, NEW d \in DevId, NEW stamp \in DevStamp, DevAuthorize(d, u, stamp)
  PROVE  DevInd'
<1>1. DevTypes /\ UNCHANGED <<devMinted, devNow, devCap, devOver>>
  BY DEF DevInd, DevAuthorize
<1>2. PICK ok \in BOOLEAN : DevWrite(dev', ok)
  BY DEF DevAuthorize, DevWrites
<1>3. d \in DevIn(dev) /\ dev[d] # NoDev /\ devNow \in Nat /\ ~(devNow >= dev[d].until)
  BY <1>1, DevNoneTyped DEF DevAuthorize, DevTrusted, DevOf, DevIn, DevExpired, DevTypes
<1>4. dev' = [dev EXCEPT ![d].used = devNow]
  BY DEF DevAuthorize
<1>5. dev' \in [DevId -> DevRec] /\ \A e \in DevId : e # d => dev'[e] = dev[e]
  BY <1>1, <1>3, <1>4 DEF DevTypes, DevRec
<1>6. dev'[d] = [dev[d] EXCEPT !.used = devNow] /\ dev[d] \in DevRec
  BY <1>1, <1>4 DEF DevTypes
<1>7. /\ dev'[d].user = dev[d].user /\ dev'[d].until = dev[d].until /\ dev'[d].stamp = dev[d].stamp
      /\ dev'[d].made = dev[d].made /\ dev'[d].used = devNow
      /\ dev[d].until \in Nat /\ dev[d].made \in Nat /\ dev[d].used \in Nat
  BY <1>6 DEF DevRec
<1>8. devFile' = (IF ok THEN dev' ELSE devFile)
  BY <1>2 DEF DevWrite
<1>9. DevTypes'
  BY <1>1, <1>5, <1>8 DEF DevTypes
<1>10. d <= devMinted
  BY <1>1, <1>3, DeviceAssumption DEF DevInd, DevListed, DevTypes, DevId
<1>11. DevListed'
  BY <1>1, <1>5, <1>8, <1>10, DeviceAssumption DEF DevInd, DevListed, DevTypes, DevId
<1>12. \A e \in DevId : DevSpan(dev[e])' /\ DevSpan(devFile[e])'
  <2>1. DevSpan(dev'[d])
    BY <1>3, <1>7 DEF DevInd, DevSpan
  <2>2. \A e \in DevId : DevSpan(dev'[e]) /\ DevSpan(devFile'[e])
    BY <1>5, <1>8, <2>1 DEF DevInd
  <2>3. QED
    BY <1>1, <2>2 DEF DevSpan
<1>13. DevOverStaysOver'
  <2> SUFFICES ASSUME NEW e \in devOver PROVE dev'[e] = NoDev /\ devFile'[e] = NoDev
    BY <1>1 DEF DevOverStaysOver
  <2>1. dev[e] = NoDev /\ devFile[e] = NoDev /\ e \in DevId
    BY <1>1, DeviceAssumption DEF DevInd, DevOverStaysOver, DevTypes, DevId
  <2>2. QED
    BY <1>3, <1>5, <1>8, <2>1
<1>14. DevMemoryWritten'
  <2> SUFFICES ASSUME NEW e \in DevIn(dev)'
               PROVE /\ devFile'[e].user = dev'[e].user /\ devFile'[e].until = dev'[e].until
                     /\ devFile'[e].stamp = dev'[e].stamp
    BY DEF DevMemoryWritten
  <2>1. e \in DevIn(dev) /\ e \in DevId
    BY <1>5, <1>7 DEF DevIn
  <2>2. QED
    BY <1>5, <1>7, <1>8, <2>1 DEF DevInd, DevMemoryWritten
<1>15. QED
  BY <1>9, <1>11, <1>12, <1>13, <1>14 DEF DevInd

\* load() brings back what is on disk and has not expired.
LEMMA DevRestarts == ASSUME DevInd, DevRestart PROVE DevInd'
<1>1. DevTypes /\ UNCHANGED <<devFile, devMinted, devNow, devOver>> /\ devCap' \in DevCaps
  BY DEF DevInd, DevRestart
<1>2. dev' \in [DevId -> DevRec] /\ \A d \in DevId : dev'[d] \in {NoDev, devFile[d]}
  BY <1>1, DevWithoutG DEF DevRestart, DevTypes
<1>3. DevTypes' /\ DevListed'
  BY <1>1, <1>2 DEF DevInd, DevTypes, DevListed
<1>4. \A d \in DevId : DevSpan(dev[d])' /\ DevSpan(devFile[d])'
  BY <1>1, <1>2 DEF DevInd, DevSpan
<1>5. DevOverStaysOver'
  BY <1>1, <1>2, DeviceAssumption DEF DevInd, DevTypes, DevOverStaysOver, DevId
<1>6. DevMemoryWritten'
  BY <1>1, <1>2, DevNoneTyped DEF DevMemoryWritten, DevIn
<1>7. QED
  BY <1>3, <1>4, <1>5, <1>6 DEF DevInd

\* Every operation, restarts and failed writes among them.
LEMMA DevIndStep == ASSUME DevInd, [DevNext]_devVars PROVE DevInd'
<1>1. ASSUME NEW G \in SUBSET DevIn(dev), DevEnd(G), UNCHANGED <<devMinted, devNow, devCap>> PROVE DevInd'
  BY <1>1, DevEnds
<1>2. CASE DevSweep
  BY <1>1, <1>2 DEF DevSweep, DevStale
<1>3. ASSUME NEW u \in DevUser, DevRevokeAll(u) PROVE DevInd'
  BY <1>1, <1>3 DEF DevRevokeAll, DevOf
<1>4. ASSUME NEW u \in DevUser, NEW d \in DevId, DevRevoke(u, d) PROVE DevInd'
  BY <1>1, <1>4 DEF DevRevoke, DevOf
<1>5. ASSUME NEW d \in DevId, DevRevokeToken(d) PROVE DevInd'
  BY <1>1, <1>5 DEF DevRevokeToken
<1>6. ASSUME NEW u \in DevUser, NEW s \in DevStamp, NEW ok \in DevWrites, DevMint(u, s, ok) PROVE DevInd'
  BY <1>6, DevMints DEF DevWrites
<1>7. ASSUME NEW u \in DevUser, NEW d \in DevId, NEW s \in DevStamp, DevAuthorize(d, u, s) PROVE DevInd'
  BY <1>7, DevAuthorizes
<1>8. CASE DevRestart
  BY <1>8, DevRestarts
<1>9. CASE DevTick
  <2>1. UNCHANGED <<dev, devFile, devMinted, devCap, devOver>> /\ devNow' = devNow + 1 /\ devNow \in Nat
    BY <1>9 DEF DevTick, DevInd, DevTypes
  <2>2. \A d \in DevId : DevSpan(dev[d])' /\ DevSpan(devFile[d])'
    BY <2>1 DEF DevInd, DevTypes, DevSpan, DevRec
  <2>3. QED
    BY <2>1, <2>2 DEF DevInd, DevTypes, DevListed, DevOverStaysOver, DevMemoryWritten, DevIn
<1>10. CASE UNCHANGED devVars
  BY <1>10 DEF devVars, DevInd, DevTypes, DevListed, DevSpan, DevOverStaysOver, DevMemoryWritten, DevIn
<1>11. QED
  BY <1>2, <1>3, <1>4, <1>5, <1>6, <1>7, <1>8, <1>9, <1>10 DEF DevNext

\* Hence the invariant holds of every behaviour.
LEMMA DevIndHolds == DevSpec => []DevInd
<1>1. DevInd /\ [DevNext]_devVars => DevInd'
  BY DevIndStep
<1>2. QED
  BY <1>1, DevIndInit, PTL DEF DevSpec

\* Trust is absolute, in memory and on disk: authorize() never extends it.
THEOREM DevTypeCorrect == DevSpec => []DevTypeOK
  BY DevIndHolds, DevIndTyped, PTL

\* What a revocation, an eviction or the sweep took away and wrote down does
\* not come back, whatever is minted, fails or restarts later.
THEOREM DevOverStaysOverHolds == DevSpec => []DevOverStaysOver
<1>1. DevInd => DevOverStaysOver
  BY DEF DevInd
<1>2. QED
  BY <1>1, DevIndHolds, PTL

\* Memory never trusts a device the file does not have with the same owner,
\* secret and end: the one write not followed by a rollback is a removal.
THEOREM DevMemoryWrittenHolds == DevSpec => []DevMemoryWritten
<1>1. DevInd => DevMemoryWritten
  BY DEF DevInd
<1>2. QED
  BY <1>1, DevIndHolds, PTL

\* mint() evicts exactly as many as leave room for one more.
LEMMA DevRoom ==
  ASSUME DevInd, NEW u, NEW G \in DevEvictable(u)
  PROVE  /\ IsFiniteSet((DevOf(dev, u) \ DevStale) \ G)
         /\ Cardinality((DevOf(dev, u) \ DevStale) \ G) + 1 <= DevPlaces
<1> DEFINE S == DevOf(dev, u) \ DevStale
<1>1. DevPlaces \in Nat /\ DevPlaces >= 1
  BY DeviceAssumption DEF DevPlaces, DevInd, DevTypes
<1>2. IsFiniteSet(S)
  <2>1. IsFiniteSet(1..MaxDev)
    BY FS_Interval, DeviceAssumption
  <2>2. S \subseteq 1..MaxDev
    BY DEF DevOf, DevIn, DevId
  <2>3. QED
    BY <2>1, <2>2, FS_Subset
<1>3. G \subseteq S /\ Cardinality(G) = DevExcess(S)
  BY DEF DevEvictable
<1> HIDE DEF S
<1>4. Cardinality(S) \in Nat
  BY <1>2, FS_CardinalityType
<1>5. S \cap G = G
  BY <1>3
<1>6. IsFiniteSet(S \ G) /\ Cardinality(S \ G) = Cardinality(S) - Cardinality(G)
  BY <1>2, <1>5, FS_Difference
<1>7. Cardinality(S \ G) + 1 <= DevPlaces
  BY <1>1, <1>3, <1>4, <1>6 DEF DevExcess
<1>8. QED
  BY <1>6, <1>7 DEF S

\* A step of DevMintWithinCap.
DevMintStep ==
  \A d \in DevIn(dev') : (d > devMinted) =>
    /\ Cardinality(DevOf(dev', dev'[d].user)) <= DevPlaces
    /\ \A e \in DevIn(dev) \ DevStale : dev[e].user # dev'[d].user => dev'[e] = dev[e]

\* A step that puts a new device into memory is a mint that was written.
LEMMA DevMintOnly ==
  ASSUME DevInd, [DevNext]_devVars, NEW d \in DevIn(dev'), d > devMinted
  PROVE  \E u \in DevUser, s \in DevStamp : \E ok \in DevWrites : DevMint(u, s, ok)
<1> SUFFICES ASSUME ~ \E u \in DevUser, s \in DevStamp : \E ok \in DevWrites : DevMint(u, s, ok)
             PROVE FALSE
  OBVIOUS
<1>1. d \in DevId /\ dev[d] = NoDev /\ devFile[d] = NoDev /\ dev'[d].user # NoDevUser
  BY DEF DevInd, DevListed, DevIn
<1>2. dev \in [DevId -> DevRec] /\ devFile \in [DevId -> DevRec]
  BY DEF DevInd, DevTypes
<1>3. ASSUME NEW G, dev' = DevWithout(dev, G) PROVE FALSE
  BY <1>1, <1>2, <1>3, DevWithoutG, DevNoneTyped
<1>4. CASE DevRestart
  BY <1>1, <1>2, <1>4, DevWithoutG, DevNoneTyped DEF DevRestart
<1>5. ASSUME NEW u \in DevUser, NEW e \in DevId, NEW s \in DevStamp, DevAuthorize(e, u, s) PROVE FALSE
  BY <1>1, <1>2, <1>5, DevNoneTyped DEF DevAuthorize, DevTrusted, DevOf, DevIn
<1>6. CASE DevTick \/ UNCHANGED devVars
  BY <1>1, <1>6, DevNoneTyped DEF DevTick, devVars
<1>7. CASE DevSweep \/ (\E u \in DevUser : DevRevokeAll(u)) \/ (\E e \in DevId : DevRevokeToken(e))
           \/ (\E u \in DevUser, e \in DevId : DevRevoke(u, e))
  BY <1>3, <1>7 DEF DevSweep, DevRevokeAll, DevRevokeToken, DevRevoke, DevEnd
<1>8. QED
  BY <1>4, <1>5, <1>6, <1>7 DEF DevNext

\* Of all operations only a written mint() can break it, and it makes room first.
LEMMA DevMintStepHolds == ASSUME DevInd, [DevNext]_devVars PROVE DevMintStep
<1> SUFFICES ASSUME NEW d \in DevIn(dev'), d > devMinted
             PROVE /\ Cardinality(DevOf(dev', dev'[d].user)) <= DevPlaces
                   /\ \A e \in DevIn(dev) \ DevStale : dev[e].user # dev'[d].user => dev'[e] = dev[e]
  BY DEF DevMintStep
<1>1. PICK u \in DevUser, s \in DevStamp, ok \in DevWrites : DevMint(u, s, ok)
  BY DevMintOnly
<1>2. PICK G \in DevEvictable(u) :
        LET kept == DevWithout(dev, DevStale \cup G)
            full == [kept EXCEPT ![devMinted'] = DevNew(u, s)]
        IN dev' = IF ok THEN full ELSE kept
  BY <1>1 DEF DevMint
<1> DEFINE kept == DevWithout(dev, DevStale \cup G)
<1>3. dev \in [DevId -> DevRec] /\ devMinted' = devMinted + 1 /\ devMinted' \in DevId /\ devMinted \in Nat /\ DevId \subseteq Nat
  BY <1>1, DeviceAssumption DEF DevInd, DevTypes, DevMint, DevId
<1>4. kept \in [DevId -> DevRec] /\ \A e \in DevId : kept[e] = IF e \in DevStale \cup G THEN NoDev ELSE dev[e]
  BY <1>3, DevWithoutG
<1>5. dev' = IF ok THEN [kept EXCEPT ![devMinted'] = DevNew(u, s)] ELSE kept
  BY <1>2
<1> HIDE DEF kept
<1>6. \A e \in DevId : e > devMinted => dev[e] = NoDev /\ kept[e] = NoDev
  BY <1>4 DEF DevInd, DevListed
<1>7. d \in DevId /\ dev'[d].user # NoDevUser
  BY DEF DevIn
<1>8. ok /\ d = devMinted'
  BY <1>3, <1>4, <1>5, <1>6, <1>7, DevNoneTyped
<1>9. dev'[d] = DevNew(u, s) /\ dev'[d].user = u
  BY <1>3, <1>4, <1>5, <1>8 DEF DevNew
<1>10. \A e \in DevId : e # d => dev'[e] = kept[e]
  BY <1>3, <1>4, <1>5, <1>8
<1> DEFINE R == (DevOf(dev, u) \ DevStale) \ G
<1>11. DevOf(dev', u) \subseteq R \cup {d}
  <2> SUFFICES ASSUME NEW e \in DevOf(dev', u), e # d PROVE e \in R
    OBVIOUS
  <2>1. e \in DevId /\ dev'[e].user = u /\ dev'[e].user # NoDevUser
    BY DEF DevOf, DevIn
  <2>2. e \notin DevStale \cup G /\ dev[e].user = u /\ dev[e].user # NoDevUser
    BY <1>4, <1>10, <2>1, DevNoneTyped
  <2>3. QED
    BY <2>1, <2>2 DEF DevOf, DevIn
<1>12. IsFiniteSet(R) /\ Cardinality(R) + 1 <= DevPlaces
  BY DevRoom
<1> HIDE DEF R
<1>13. Cardinality(DevOf(dev', u)) <= DevPlaces
  <2>1. IsFiniteSet(R \cup {d}) /\ Cardinality(R \cup {d}) = IF d \in R THEN Cardinality(R) ELSE Cardinality(R) + 1
    BY <1>12, FS_AddElement
  <2>2. Cardinality(R) \in Nat
    BY <1>12, FS_CardinalityType
  <2>3. Cardinality(DevOf(dev', u)) <= Cardinality(R \cup {d}) /\ IsFiniteSet(DevOf(dev', u))
    BY <1>11, <2>1, FS_Subset
  <2>4. Cardinality(DevOf(dev', u)) \in Nat /\ DevPlaces \in Nat
    BY <2>3, FS_CardinalityType, DeviceAssumption DEF DevPlaces, DevInd, DevTypes
  <2>5. QED
    BY <1>12, <2>1, <2>2, <2>3, <2>4
<1>14. ASSUME NEW e \in DevIn(dev) \ DevStale, dev[e].user # u PROVE dev'[e] = dev[e]
  <2>1. e \in DevId /\ dev[e].user # NoDevUser
    BY DEF DevIn
  <2>2. e # d
    BY <1>3, <1>6, <1>8, <2>1, DevNoneTyped
  <2>3. e \notin DevStale \cup G
    BY <1>14 DEF DevEvictable, DevOf
  <2>4. QED
    BY <1>4, <1>10, <2>1, <2>2, <2>3
<1>15. QED
  BY <1>9, <1>13, <1>14

\* Whatever the cap was when the file was written, mint() leaves its identity
\* within today's, and nobody else loses a device that was still good.
THEOREM DevMintWithinCapHolds == DevSpec => DevMintWithinCap
<1>1. DevInd /\ [DevNext]_devVars => [DevMintStep]_devVars
  BY DevMintStepHolds
<1>2. QED
  BY <1>1, DevIndHolds, PTL DEF DevSpec, DevMintWithinCap, DevMintStep
=============================================================================
