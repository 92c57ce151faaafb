------------------------- MODULE SessionStoreProofs -------------------------
(***************************************************************************)
(* Proofs about SessionStore for every cap, lifetime, number of sessions   *)
(* and choice of failing writes.                                           *)
(***************************************************************************)
EXTENDS SessionStore, TLAPS

\* The types, with stamps and births of any age.
SessTypes ==
  /\ sess \in [SessId -> SessRec] /\ sessFile \in [SessId -> SessRec]
  /\ sessMinted \in 0..MaxSess /\ sessTold \subseteq SessId
  /\ sessOver \subseteq 1..sessMinted
  /\ sessMono \in Int /\ sessWall \in Int /\ sessMono <= sessWall
  /\ sessBirth \in [SessId -> Int]

\* Only minted ids are in use, and the file names nobody who only looked at
\* the login page.
SessListed ==
  \A i \in SessId :
    /\ sess[i].kind # "none" => i <= sessMinted
    /\ sessFile[i] # NoSess => i <= sessMinted /\ SessMeaningful(sessFile[i])

\* Where memory and file both have a session, it is of one kind and user.
SessAgrees ==
  \A i \in SessId : sess[i].kind # "none" /\ sessFile[i] # NoSess =>
    sessFile[i].kind = sess[i].kind /\ sessFile[i].user = sess[i].user

\* A session counts as at least as old as it is: a stamp is as far ahead of
\* the monotonic clock as the wall clock was when it was made.
SessDated(s, i) == s.stamp <= sessWall /\ s.stamp - sessBirth[i] <= sessWall - sessMono
SessAged ==
  \A i \in SessId :
    /\ sess[i].kind # "none" => sess[i].born <= sessBirth[i] /\ SessDated(sess[i], i)
    /\ sessFile[i] # NoSess => SessDated(sessFile[i], i)

\* The inductive invariant.
SessInd ==
  /\ SessTypes /\ SessListed /\ SessAgrees /\ SessAged
  /\ SessToldOfEnd /\ SessOverStaysOver

\* A step of SessRightsKept.
SessRightsStep ==
  \A i \in SessLive : sess'[i].kind # "none" =>
    sess'[i].kind = sess[i].kind /\ sess'[i].user = sess[i].user

\* The server starts with no session, and nothing on disk.
LEMMA SessIndInit == SessInit => SessInd
<1> SUFFICES ASSUME SessInit PROVE SessInd
  OBVIOUS
<1>1. NoSess \in SessRec /\ NoSess.kind = "none"
  BY DEF NoSess, SessRec, SessKind
<1>2. SessLive = {}
  BY <1>1 DEF SessLive, SessInit
<1>3. QED
  BY <1>1, <1>2, SessAssumption
  DEF SessInit, SessInd, SessTypes, SessListed, SessAgrees, SessAged, SessToldOfEnd, SessOverStaysOver

\* After a write, the file has of a session what it had or what memory has.
LEMMA SessPersisted ==
  ASSUME NEW ok \in BOOLEAN, NEW i \in SessId, SessPersist(sess', ok)
  PROVE  \/ sessFile'[i] = sessFile[i] /\ ~ok
         \/ sessFile'[i] = NoSess
         \/ SessMeaningful(sess'[i]) /\ sessFile'[i] = [sess'[i] EXCEPT !.born = 0]
<1>1. CASE ok
  BY <1>1 DEF SessPersist, SessOnDisk
<1>2. CASE ~ok
  BY <1>2 DEF SessPersist
<1>3. QED
  BY <1>1, <1>2

\* What SessPersist writes is a file.
LEMMA SessPersistTyped ==
  ASSUME SessInd, NEW ok \in BOOLEAN, sess' \in [SessId -> SessRec], SessPersist(sess', ok)
  PROVE  sessFile' \in [SessId -> SessRec]
<1>1. sessFile \in [SessId -> SessRec]
  BY DEF SessInd, SessTypes
<1>2. CASE ~ok
  BY <1>1, <1>2 DEF SessPersist
<1>3. CASE ok
  <2>1. NoSess \in SessRec
    BY DEF NoSess, SessRec, SessKind
  <2>2. \A i \in SessId : [sess'[i] EXCEPT !.born = 0] \in SessRec
    BY DEF SessRec
  <2>3. QED
    BY <1>3, <2>1, <2>2 DEF SessPersist, SessOnDisk
<1>4. QED
  BY <1>2, <1>3

\* Every operation that writes the file takes what it leaves in the map from
\* the map, apart from one new id: what that does to the invariant.
LEMMA SessWritten ==
  ASSUME SessInd, NEW ok \in BOOLEAN, NEW G \in SUBSET SessLive,
         sess' \in [SessId -> SessRec], SessPersist(sess', ok), SessTell(G), SessEnds(G, ok),
         sessMinted' \in sessMinted..MaxSess, sessBirth' \in [SessId -> Int],
         \A i \in SessId : i <= sessMinted => sessBirth'[i] = sessBirth[i],
         UNCHANGED sessClocks,
         \A i \in G : sess'[i] = NoSess,
         \A i \in SessId \ G : i <= sessMinted =>
            \/ sess'[i] = sess[i]
            \/ /\ sess[i].kind # "none"
               /\ \E f \in SessFlow \cup {NoFlow} : sess'[i] = [sess[i] EXCEPT !.flow = f],
         \A i \in SessId : i > sessMinted /\ i <= sessMinted' =>
            \E k \in {"anon", "mfa", "auth"}, u \in SessUser \cup {NoUser} :
              sess'[i] = SessFresh(k, u) /\ sessBirth'[i] = sessMono,
         \A i \in SessId : i > sessMinted' => sess'[i] = sess[i]
  PROVE  SessInd' /\ SessRightsStep
<1> USE DEF SessInd
<1>0. /\ sessMinted \in Nat /\ sessMinted' \in Nat /\ MaxSess \in Nat
      /\ sessMinted <= sessMinted' /\ sessMinted' <= MaxSess
      /\ sessMono' = sessMono /\ sessWall' = sessWall /\ SessId = 1..MaxSess
      /\ NoSess.kind = "none" /\ NoSess \in SessRec
  BY SessAssumption DEF SessTypes, sessClocks, SessId, NoSess, SessRec, SessKind
<1>1. \A i \in SessId \ G : i <= sessMinted => sess'[i].kind = sess[i].kind /\ sess'[i].user = sess[i].user
                                  /\ sess'[i].born = sess[i].born /\ sess'[i].stamp = sess[i].stamp
  BY DEF SessTypes, SessRec
<1>2. SessTypes'
  <2>1. sessFile' \in [SessId -> SessRec]
    BY SessPersistTyped
  <2>2. sessTold' \subseteq SessId /\ sessOver' \subseteq 1..sessMinted'
    <3>1. G \subseteq 1..sessMinted
      BY <1>0 DEF SessListed, SessLive
    <3>2. QED
      BY <1>0, <3>1 DEF SessTypes, SessTell, SessEnds
  <2>3. QED
    BY <1>0, <2>1, <2>2 DEF SessTypes
<1>3. \A i \in SessId : i > sessMinted => sess[i].kind = "none" /\ sessFile[i] = NoSess
  BY <1>0 DEF SessListed, SessTypes
<1>4. SessListed'
  <2> SUFFICES ASSUME NEW i \in SessId
               PROVE /\ sess'[i].kind # "none" => i <= sessMinted'
                     /\ sessFile'[i] # NoSess => i <= sessMinted' /\ SessMeaningful(sessFile'[i])
    BY DEF SessListed, SessMeaningful
  <2>1. sess'[i].kind # "none" => i <= sessMinted'
    BY <1>0, <1>3
  <2>2. CASE sessFile'[i] = sessFile[i]
    BY <1>0, <2>1, <2>2 DEF SessListed
  <2>3. CASE SessMeaningful(sess'[i]) /\ sessFile'[i] = [sess'[i] EXCEPT !.born = 0]
    <3>1. sess'[i].kind # "none" /\ SessMeaningful(sessFile'[i])
      BY <1>2, <2>3 DEF SessMeaningful, SessTypes, SessRec
    <3>2. QED
      BY <2>1, <3>1
  <2>4. QED
    BY <2>1, <2>2, <2>3, SessPersisted
<1>5. SessAgrees'
  <2> SUFFICES ASSUME NEW i \in SessId, sess'[i].kind # "none", sessFile'[i] # NoSess
               PROVE sessFile'[i].kind = sess'[i].kind /\ sessFile'[i].user = sess'[i].user
    BY DEF SessAgrees
  <2>1. CASE sessFile'[i] = sessFile[i]
    <3>1. i <= sessMinted /\ i \notin G
      BY <1>0, <2>1 DEF SessListed
    <3>2. QED
      BY <1>1, <2>1, <3>1 DEF SessAgrees
  <2>2. CASE sessFile'[i] = [sess'[i] EXCEPT !.born = 0]
    BY <1>2, <2>2 DEF SessTypes, SessRec
  <2>3. QED
    BY <2>1, <2>2, SessPersisted
<1>6. \A i \in SessId : sess'[i].kind # "none" => sess'[i].born <= sessBirth'[i] /\ SessDated(sess[i], i)'
  <2> SUFFICES ASSUME NEW i \in SessId, sess'[i].kind # "none"
               PROVE /\ sess'[i].born <= sessBirth'[i]
                     /\ sess'[i].stamp <= sessWall /\ sess'[i].stamp - sessBirth'[i] <= sessWall - sessMono
    BY <1>0 DEF SessDated
  <2>1. i <= sessMinted'
    BY <1>4 DEF SessListed
  <2>2. CASE i <= sessMinted
    BY <1>0, <1>1, <2>2 DEF SessAged, SessDated
  <2>3. CASE i > sessMinted
    <3>1. sess'[i].born = sessMono /\ sess'[i].stamp = sessWall /\ sessBirth'[i] = sessMono
      BY <2>1, <2>3 DEF SessFresh
    <3>2. QED
      BY <3>1 DEF SessTypes
  <2>4. QED
    BY <1>0, <2>2, <2>3
<1>7. SessAged'
  <2> SUFFICES ASSUME NEW i \in SessId, sessFile'[i] # NoSess PROVE SessDated(sessFile[i], i)'
    BY <1>6 DEF SessAged
  <2>1. CASE sessFile'[i] = sessFile[i]
    <3>1. i <= sessMinted
      BY <2>1 DEF SessListed
    <3>2. QED
      BY <1>0, <2>1, <3>1 DEF SessAged, SessDated
  <2>2. CASE SessMeaningful(sess'[i]) /\ sessFile'[i] = [sess'[i] EXCEPT !.born = 0]
    <3>1. sessFile'[i].stamp = sess'[i].stamp /\ sess'[i].kind # "none"
      BY <1>2, <2>2 DEF SessMeaningful, SessTypes, SessRec
    <3>2. QED
      BY <1>6, <3>1 DEF SessDated
  <2>3. QED
    BY <2>1, <2>2, SessPersisted
<1>8. SessToldOfEnd'
  <2>1. \A i \in SessId : i <= sessMinted' => (sess'[i].kind = "none" <=> i \in sessTold')
    <3> SUFFICES ASSUME NEW i \in SessId, i <= sessMinted'
                 PROVE sess'[i].kind = "none" <=> i \in sessTold'
      OBVIOUS
    <3>1. CASE i <= sessMinted
      BY <1>0, <1>1, <3>1 DEF SessToldOfEnd, SessTell, SessLive
    <3>2. CASE i > sessMinted
      <4>1. sess'[i].kind # "none"
        BY <3>2 DEF SessFresh
      <4>2. i \notin sessTold /\ i \notin G
        BY <1>0, <1>3, <3>2 DEF SessToldOfEnd, SessLive
      <4>3. QED
        BY <4>1, <4>2 DEF SessTell
    <3>3. QED
      BY <1>0, <3>1, <3>2
  <2>2. sessTold' \subseteq 1..sessMinted'
    BY <1>0 DEF SessToldOfEnd, SessTell, SessListed, SessLive
  <2>3. QED
    BY <1>0, <2>1, <2>2 DEF SessToldOfEnd, SessLive
<1>9. SessOverStaysOver'
  <2> SUFFICES ASSUME NEW i \in sessOver' PROVE sess'[i] = NoSess /\ sessFile'[i] = NoSess
    BY DEF SessOverStaysOver
  <2>1. i \in SessId /\ i <= sessMinted /\ (i \in sessOver \/ (i \in G /\ ok))
    BY <1>0 DEF SessEnds, SessTypes, SessListed, SessLive
  <2>2. sess'[i] = NoSess
    BY <1>0, <2>1 DEF SessOverStaysOver
  <2>3. ~SessMeaningful(sess'[i])
    BY <2>2 DEF SessMeaningful, NoSess
  <2>4. QED
    BY <2>1, <2>2, <2>3, SessPersisted DEF SessOverStaysOver
<1>10. SessRightsStep
  <2>1. \A i \in SessLive : i \in SessId /\ i <= sessMinted
    BY DEF SessListed, SessLive
  <2>2. QED
    BY <1>0, <1>1, <2>1 DEF SessRightsStep
<1>11. QED
  BY <1>2, <1>4, <1>5, <1>7, <1>8, <1>9, <1>10

\* A fresh session is a session.
LEMMA SessFreshTyped ==
  ASSUME SessTypes, NEW k \in SessKind, NEW u \in SessUser \cup {NoUser}
  PROVE  SessFresh(k, u) \in SessRec
BY DEF SessFresh, SessRec, SessTypes

\* The map without G, and nothing else changed in it.
LEMMA SessWithoutG ==
  ASSUME SessTypes, NEW G \in SUBSET SessLive, NEW M, M = SessWithout(sess, G)
  PROVE  /\ M \in [SessId -> SessRec]
         /\ \A i \in G : M[i] = NoSess
         /\ \A i \in SessId \ G : M[i] = sess[i]
<1>1. NoSess \in SessRec /\ G \subseteq SessId
  BY DEF NoSess, SessRec, SessKind, SessLive
<1>2. QED
  BY <1>1 DEF SessWithout, SessTypes

\* The removals: get() of an expired session, remove() and sweep().
LEMMA SessRemovals ==
  ASSUME SessInd, NEW G \in SUBSET SessLive, NEW ok \in BOOLEAN,
         sess' = SessWithout(sess, G), SessTell(G), SessPersist(sess', ok), SessEnds(G, ok),
         UNCHANGED <<sessMinted, sessClocks, sessBirth>>
  PROVE  SessInd' /\ SessRightsStep
<1>1. SessTypes
  BY DEF SessInd
<1>2. sessMinted \in Nat /\ MaxSess \in Nat /\ sessMinted' = sessMinted /\ sessMinted' \in sessMinted..MaxSess
  BY <1>1, SessAssumption DEF SessTypes
<1>3. sessBirth' = sessBirth /\ sessBirth' \in [SessId -> Int] /\ UNCHANGED sessClocks
  BY <1>1 DEF SessTypes
<1>4. /\ sess' \in [SessId -> SessRec] /\ \A i \in G : sess'[i] = NoSess
      /\ \A i \in SessId \ G : sess'[i] = sess[i]
  BY <1>1, SessWithoutG
<1>5. G \subseteq 1..sessMinted /\ SessId = 1..MaxSess
  BY <1>2 DEF SessInd, SessListed, SessLive, SessId
<1>6. \A i \in SessId : i > sessMinted' => sess'[i] = sess[i]
  BY <1>2, <1>4, <1>5
<1>7. \A i \in SessId : ~(i > sessMinted /\ i <= sessMinted')
  BY <1>2, <1>5
<1>8. QED
  BY <1>2, <1>3, <1>4, <1>6, <1>7, SessWritten

\* A new id, in place of G: create(), login() and begin_mfa().
LEMMA SessMints ==
  ASSUME SessInd, NEW G \in SUBSET SessLive, NEW ok \in BOOLEAN,
         NEW k \in {"anon", "mfa", "auth"}, NEW u \in SessUser \cup {NoUser},
         sessMinted < MaxSess, sessMinted' = sessMinted + 1,
         sess' = [SessWithout(sess, G) EXCEPT ![sessMinted'] = SessFresh(k, u)],
         SessTell(G), SessPersist(sess', ok), SessEnds(G, ok),
         sessBirth' = [sessBirth EXCEPT ![sessMinted'] = sessMono], UNCHANGED sessClocks
  PROVE  SessInd' /\ SessRightsStep
<1>1. SessTypes
  BY DEF SessInd
<1>2. /\ sessMinted \in Nat /\ MaxSess \in Nat /\ sessMinted' \in sessMinted..MaxSess
      /\ SessId = 1..MaxSess /\ sessMinted' \in SessId
  BY <1>1, SessAssumption DEF SessTypes, SessId
<1>3. G \subseteq 1..sessMinted
  BY <1>2 DEF SessInd, SessListed, SessLive
<1>4. /\ SessWithout(sess, G) \in [SessId -> SessRec]
      /\ \A i \in G : SessWithout(sess, G)[i] = NoSess
      /\ \A i \in SessId \ G : SessWithout(sess, G)[i] = sess[i]
  BY <1>1, SessWithoutG
<1>5. SessFresh(k, u) \in SessRec
  BY <1>1, SessFreshTyped DEF SessKind
<1>6. sess' \in [SessId -> SessRec] /\ sessBirth' \in [SessId -> Int]
  BY <1>1, <1>2, <1>4, <1>5 DEF SessTypes
<1>7. \A i \in SessId : i # sessMinted' => sess'[i] = SessWithout(sess, G)[i] /\ sessBirth'[i] = sessBirth[i]
  BY <1>1, <1>2, <1>4 DEF SessTypes
<1>8. sess'[sessMinted'] = SessFresh(k, u) /\ sessBirth'[sessMinted'] = sessMono
  BY <1>1, <1>2, <1>4 DEF SessTypes
<1>9. /\ \A i \in G : sess'[i] = NoSess
      /\ \A i \in SessId \ G : i <= sessMinted => sess'[i] = sess[i]
      /\ \A i \in SessId : i <= sessMinted => sessBirth'[i] = sessBirth[i]
      /\ \A i \in SessId : i > sessMinted' => sess'[i] = sess[i]
  BY <1>2, <1>3, <1>4, <1>7
<1>10. \A i \in SessId : i > sessMinted /\ i <= sessMinted' =>
         \E k2 \in {"anon", "mfa", "auth"}, u2 \in SessUser \cup {NoUser} :
           sess'[i] = SessFresh(k2, u2) /\ sessBirth'[i] = sessMono
  <2>1. \A i \in SessId : i > sessMinted /\ i <= sessMinted' => i = sessMinted'
    BY <1>2
  <2>2. QED
    BY <1>8, <2>1
<1>11. QED
  BY <1>2, <1>6, <1>9, <1>10, SessWritten

\* oauth_start() and oauth_callback() write the flow.
LEMMA SessFlows ==
  ASSUME SessInd, NEW i \in SessId, NEW f \in SessFlow \cup {NoFlow}, SessSetOauth(i, f)
  PROVE  SessInd' /\ SessRightsStep
<1>1. SessTypes
  BY DEF SessInd
<1>2. PICK ok \in BOOLEAN : SessPersist(sess', ok)
  BY DEF SessSetOauth, SessWrites
<1>3. /\ sessMinted \in Nat /\ MaxSess \in Nat /\ sessMinted' = sessMinted
      /\ sessMinted' \in sessMinted..MaxSess /\ SessId = 1..MaxSess
  BY <1>1, SessAssumption DEF SessTypes, SessId, SessSetOauth
<1>4. SessTell({}) /\ SessEnds({}, ok) /\ UNCHANGED <<sessClocks, sessBirth>>
  BY DEF SessSetOauth, SessTell, SessEnds
<1>5. sess' = [sess EXCEPT ![i].flow = f] /\ sess[i].kind # "none"
  BY DEF SessSetOauth, SessLive
<1>6. sess' \in [SessId -> SessRec]
  BY <1>1, <1>5 DEF SessTypes, SessRec
<1>7. \A j \in SessId : sess'[j] = sess[j] \/ (j = i /\ sess'[j] = [sess[j] EXCEPT !.flow = f])
  BY <1>1, <1>5 DEF SessTypes
<1>8. i <= sessMinted
  BY <1>5 DEF SessInd, SessListed
<1>9. /\ \A j \in SessId : j > sessMinted' => sess'[j] = sess[j]
      /\ \A j \in SessId : ~(j > sessMinted /\ j <= sessMinted')
  <2>1. \A j \in SessId : ~(j > sessMinted /\ j <= sessMinted')
    BY <1>3
  <2>2. ASSUME NEW j \in SessId, j > sessMinted' PROVE sess'[j] = sess[j]
    <3>1. j # i
      BY <1>3, <1>8, <2>2
    <3>2. QED
      BY <1>7, <3>1
  <2>3. QED
    BY <2>1, <2>2
<1>10. sessBirth' \in [SessId -> Int]
  BY <1>1, <1>4 DEF SessTypes
<1>11. \A j \in SessId \ {} : j <= sessMinted =>
         \/ sess'[j] = sess[j]
         \/ /\ sess[j].kind # "none"
            /\ \E f2 \in SessFlow \cup {NoFlow} : sess'[j] = [sess[j] EXCEPT !.flow = f2]
  BY <1>5, <1>7
<1>12. QED
  BY <1>2, <1>3, <1>4, <1>6, <1>9, <1>10, <1>11, SessWritten

\* A session comes back no younger than it was.
LEMMA SessReloadedOld ==
  ASSUME SessInd, NEW i \in SessId, sessFile[i] # NoSess
  PROVE  /\ SessReloaded(sessFile[i]) \in SessRec
         /\ SessReloaded(sessFile[i]).kind = sessFile[i].kind
         /\ SessReloaded(sessFile[i]).user = sessFile[i].user
         /\ SessReloaded(sessFile[i]).stamp = sessFile[i].stamp
         /\ SessReloaded(sessFile[i]).born <= sessBirth[i]
<1>1. sessFile[i] \in SessRec /\ sessMono \in Int /\ sessWall \in Int /\ sessBirth[i] \in Int
  BY DEF SessInd, SessTypes
<1>2. sessFile[i].stamp <= sessWall /\ sessFile[i].stamp - sessBirth[i] <= sessWall - sessMono
  BY DEF SessInd, SessAged, SessDated
<1>3. SessAge(sessFile[i]) = sessWall - sessFile[i].stamp
  BY <1>1, <1>2 DEF SessAge, SessRec
<1>4. SessReloaded(sessFile[i]) = [sessFile[i] EXCEPT !.born = sessMono - (sessWall - sessFile[i].stamp)]
  BY <1>3 DEF SessReloaded
<1>5. sessFile[i].stamp \in Int
  BY <1>1 DEF SessRec
<1>6. QED
  BY <1>1, <1>2, <1>4, <1>5 DEF SessRec

\* A restart: the map is what the file holds, and what it leaves out is gone.
LEMMA SessRestarts == ASSUME SessInd, SessRestart PROVE SessInd' /\ SessRightsStep
<1> DEFINE back == {i \in SessId : SessMeaningful(sessFile[i]) /\ SessAge(sessFile[i]) < SessTtl(sessFile[i])}
<1>1. SessTypes /\ NoSess \in SessRec /\ NoSess.kind = "none" /\ ~SessMeaningful(NoSess)
  BY DEF SessInd, NoSess, SessRec, SessKind, SessMeaningful
<1>2. PICK ok \in BOOLEAN : SessPersist(sess', ok)
  BY DEF SessRestart, SessWrites
<1>3. /\ sess' = [i \in SessId |-> IF i \in back THEN SessReloaded(sessFile[i]) ELSE NoSess]
      /\ sessTold' = (1..sessMinted) \ back
      /\ sessMinted' = sessMinted /\ sessMono' = sessMono /\ sessWall' = sessWall
      /\ sessBirth' = sessBirth /\ sessOver' = sessOver
  BY DEF SessRestart, sessClocks
<1>4. \A i \in back : sessFile[i] # NoSess /\ sessFile[i].kind # "none" /\ i \in SessId
  BY <1>1 DEF SessMeaningful
<1>5. \A i \in back :
        /\ sess'[i] \in SessRec
        /\ sess'[i].kind = sessFile[i].kind /\ sess'[i].user = sessFile[i].user
        /\ sess'[i].stamp = sessFile[i].stamp /\ sess'[i].born <= sessBirth[i]
  BY <1>3, <1>4, SessReloadedOld
<1>6. \A i \in SessId \ back : sess'[i] = NoSess
  BY <1>3
<1>7. sess' \in [SessId -> SessRec]
  BY <1>1, <1>3, <1>5, <1>6
<1>8. sessFile' \in [SessId -> SessRec]
  BY <1>2, <1>7, SessPersistTyped
<1>9. \A i \in SessId : sess'[i].kind # "none" => i \in back
  BY <1>1, <1>6
<1>10. \A i \in SessId :
        \/ sessFile'[i] = sessFile[i]
        \/ sessFile'[i] = NoSess
        \/ i \in back /\ SessMeaningful(sess'[i]) /\ sessFile'[i] = [sess'[i] EXCEPT !.born = 0]
  BY <1>1, <1>2, <1>6, SessPersisted
<1>11. SessTypes'
  <2>1. sessMinted \in 0..MaxSess /\ SessId = 1..MaxSess /\ MaxSess \in Nat
    BY <1>1, SessAssumption DEF SessTypes, SessId
  <2>2. sessTold' \subseteq SessId
    BY <1>3, <2>1
  <2>3. QED
    BY <1>1, <1>3, <1>7, <1>8, <2>2 DEF SessTypes
<1>12. \A i \in back : i <= sessMinted
  BY <1>4 DEF SessInd, SessListed
<1>13. SessListed'
  <2> SUFFICES ASSUME NEW i \in SessId
               PROVE /\ sess'[i].kind # "none" => i <= sessMinted'
                     /\ sessFile'[i] # NoSess => i <= sessMinted' /\ SessMeaningful(sessFile'[i])
    BY DEF SessListed, SessMeaningful
  <2>1. sess'[i].kind # "none" => i <= sessMinted'
    BY <1>3, <1>9, <1>12
  <2>2. CASE sessFile'[i] = sessFile[i]
    BY <1>3, <2>1, <2>2 DEF SessInd, SessListed
  <2>3. CASE i \in back /\ SessMeaningful(sess'[i]) /\ sessFile'[i] = [sess'[i] EXCEPT !.born = 0]
    <3>1. SessMeaningful(sessFile'[i])
      BY <1>7, <2>3 DEF SessMeaningful, SessRec
    <3>2. QED
      BY <1>3, <1>12, <2>1, <2>3, <3>1
  <2>4. QED
    BY <1>10, <2>1, <2>2, <2>3
<1>14. SessAgrees'
  <2> SUFFICES ASSUME NEW i \in SessId, sess'[i].kind # "none", sessFile'[i] # NoSess
               PROVE sessFile'[i].kind = sess'[i].kind /\ sessFile'[i].user = sess'[i].user
    BY DEF SessAgrees
  <2>1. CASE sessFile'[i] = sessFile[i]
    BY <1>5, <1>9, <2>1
  <2>2. CASE sessFile'[i] = [sess'[i] EXCEPT !.born = 0]
    BY <1>7, <2>2 DEF SessRec
  <2>3. QED
    BY <1>10, <2>1, <2>2
<1>15. SessAged'
  <2> SUFFICES ASSUME NEW i \in SessId
               PROVE /\ sess'[i].kind # "none" => sess'[i].born <= sessBirth[i]
                     /\ sess'[i].kind # "none" => SessDated(sess'[i], i)
                     /\ sessFile'[i] # NoSess => SessDated(sessFile'[i], i)
    BY <1>3 DEF SessAged, SessDated
  <2>1. i \in back => SessDated(sess'[i], i)
    BY <1>4, <1>5 DEF SessInd, SessAged, SessDated
  <2>2. CASE sessFile'[i] = sessFile[i]
    BY <1>5, <1>9, <2>1, <2>2 DEF SessInd, SessAged
  <2>3. CASE i \in back /\ sessFile'[i] = [sess'[i] EXCEPT !.born = 0]
    <3>1. sessFile'[i].stamp = sess'[i].stamp
      BY <1>7, <2>3 DEF SessRec
    <3>2. QED
      BY <1>5, <2>1, <2>3, <3>1 DEF SessDated
  <2>4. QED
    BY <1>5, <1>9, <1>10, <2>1, <2>2, <2>3
<1>16. SessToldOfEnd'
  BY <1>3, <1>4, <1>5, <1>9 DEF SessToldOfEnd, SessLive
<1>17. SessOverStaysOver'
  <2> SUFFICES ASSUME NEW i \in sessOver PROVE sess'[i] = NoSess /\ sessFile'[i] = NoSess
    BY <1>3 DEF SessOverStaysOver
  <2>1. i \in SessId
    BY <1>1, SessAssumption DEF SessTypes, SessId
  <2>2. sessFile[i] = NoSess
    BY DEF SessInd, SessOverStaysOver
  <2>3. i \notin back
    BY <1>4, <2>2
  <2>4. QED
    BY <1>6, <1>10, <2>1, <2>2, <2>3
<1>18. SessRightsStep
  <2> SUFFICES ASSUME NEW i \in SessLive, sess'[i].kind # "none"
               PROVE sess'[i].kind = sess[i].kind /\ sess'[i].user = sess[i].user
    BY DEF SessRightsStep
  <2>1. i \in SessId /\ sess[i].kind # "none" /\ i \in back
    BY <1>9 DEF SessLive
  <2>2. QED
    BY <1>4, <1>5, <2>1 DEF SessInd, SessAgrees
<1>19. QED
  BY <1>11, <1>13, <1>14, <1>15, <1>16, <1>17, <1>18 DEF SessInd

\* Time passes: the wall clock never less than the monotonic one.
LEMMA SessTicks == ASSUME SessInd, SessTick PROVE SessInd' /\ SessRightsStep
<1>1. /\ UNCHANGED <<sess, sessFile, sessTold, sessMinted, sessBirth, sessOver>>
      /\ sessWall' = sessWall + 1 /\ sessMono' \in {sessMono, sessMono + 1}
      /\ sessMono \in Int /\ sessWall \in Int /\ sessMono <= sessWall
  BY DEF SessTick, SessInd, SessTypes
<1>2. SessTypes' /\ SessListed' /\ SessAgrees' /\ SessToldOfEnd' /\ SessOverStaysOver'
  BY <1>1 DEF SessInd, SessTypes, SessListed, SessAgrees, SessToldOfEnd, SessOverStaysOver, SessLive, SessMeaningful
<1>3. SessAged'
  <2> SUFFICES ASSUME NEW i \in SessId
               PROVE /\ sess[i].kind # "none" => sess[i].born <= sessBirth[i] /\ SessDated(sess[i], i)'
                     /\ sessFile[i] # NoSess => SessDated(sessFile[i], i)'
    BY <1>1 DEF SessAged, SessDated
  <2>1. sess[i].stamp \in Int /\ sessFile[i].stamp \in Int /\ sessBirth[i] \in Int
    BY DEF SessInd, SessTypes, SessRec
  <2>2. ASSUME NEW n \in Int, n <= sessWall, n - sessBirth[i] <= sessWall - sessMono
        PROVE n <= sessWall' /\ n - sessBirth[i] <= sessWall' - sessMono'
    BY <1>1, <2>1, <2>2
  <2>3. QED
    BY <1>1, <2>1, <2>2 DEF SessInd, SessAged, SessDated
<1>4. SessRightsStep
  BY <1>1 DEF SessRightsStep
<1>5. QED
  BY <1>2, <1>3, <1>4 DEF SessInd

\* Every operation, restarts and failed writes among them.
LEMMA SessIndStep == ASSUME SessInd, [SessNext]_sessVars PROVE SessInd' /\ SessRightsStep
<1>1. CASE SessCreate
  <2>1. PICK G \in SUBSET SessLive :
          /\ sess' = [SessWithout(sess, G) EXCEPT ![sessMinted'] = SessFresh("anon", NoUser)]
          /\ SessTell(G)
    BY <1>1 DEF SessCreate
  <2>2. SessPersist(sess', FALSE) /\ SessEnds(G, FALSE)
    BY <1>1 DEF SessCreate, SessPersist, SessEnds
  <2>3. QED
    BY <1>1, <2>1, <2>2, SessMints DEF SessCreate
<1>2. ASSUME NEW G \in SUBSET SessLive, sess' = SessWithout(sess, G), SessTell(G),
             NEW ok \in BOOLEAN, SessPersist(sess', ok), SessEnds(G, ok),
             UNCHANGED <<sessMinted, sessClocks, sessBirth>>
      PROVE SessInd' /\ SessRightsStep
  BY <1>2, SessRemovals
<1>3. SessWrites \subseteq BOOLEAN
  BY DEF SessWrites
<1>4. CASE SessSweep
  <2> DEFINE G == {i \in SessLive : SessExpired(sess[i])}
  <2>1. G \in SUBSET SessLive
    OBVIOUS
  <2>2. PICK ok \in BOOLEAN : SessPersist(sess', ok) /\ SessEnds(G, ok)
    BY <1>3, <1>4 DEF SessSweep
  <2>3. sess' = SessWithout(sess, G) /\ SessTell(G) /\ UNCHANGED <<sessMinted, sessClocks, sessBirth>>
    BY <1>4 DEF SessSweep
  <2> HIDE DEF G
  <2>4. QED
    BY <1>2, <2>1, <2>2, <2>3
<1>5. ASSUME NEW i \in SessId, SessGetExpired(i) \/ SessRemove(i) PROVE SessInd' /\ SessRightsStep
  <2>1. {i} \in SUBSET SessLive
    BY <1>5 DEF SessGetExpired, SessRemove
  <2>2. PICK ok \in BOOLEAN : SessPersist(sess', ok) /\ SessEnds({i}, ok)
    BY <1>3, <1>5 DEF SessGetExpired, SessRemove
  <2>3. sess' = SessWithout(sess, {i}) /\ SessTell({i}) /\ UNCHANGED <<sessMinted, sessClocks, sessBirth>>
    BY <1>5 DEF SessGetExpired, SessRemove
  <2>4. QED
    BY <1>2, <2>1, <2>2, <2>3
<1>6. ASSUME NEW i \in 1..sessMinted, NEW u \in SessUser, NEW k \in {"auth", "mfa"}, SessPromote(i, k, u)
      PROVE SessInd' /\ SessRightsStep
  <2> DEFINE gone == SessLive \cap {i}
  <2>1. gone \in SUBSET SessLive
    OBVIOUS
  <2>2. PICK ok \in BOOLEAN : SessPersist(sess', ok) /\ SessEnds(gone, ok)
    BY <1>3, <1>6 DEF SessPromote
  <2>3. /\ sessMinted < MaxSess /\ sessMinted' = sessMinted + 1
        /\ sess' = [SessWithout(sess, gone) EXCEPT ![sessMinted'] = SessFresh(k, u)]
        /\ SessTell(gone) /\ sessBirth' = [sessBirth EXCEPT ![sessMinted'] = sessMono] /\ UNCHANGED sessClocks
    BY <1>6 DEF SessPromote
  <2> HIDE DEF gone
  <2>4. QED
    BY <2>1, <2>2, <2>3, SessMints
<1>7. ASSUME NEW i \in SessId, NEW f \in SessFlow \cup {NoFlow}, SessSetOauth(i, f)
      PROVE SessInd' /\ SessRightsStep
  BY <1>7, SessFlows
<1>8. CASE SessRestart
  BY <1>8, SessRestarts
<1>9. CASE SessTick
  BY <1>9, SessTicks
<1>10. CASE UNCHANGED sessVars
  BY <1>10
  DEF sessVars, SessInd, SessTypes, SessListed, SessAgrees, SessAged, SessDated, SessToldOfEnd, SessOverStaysOver,
      SessLive, SessMeaningful, SessRightsStep
<1>11. QED
  BY <1>1, <1>4, <1>5, <1>6, <1>7, <1>8, <1>9, <1>10 DEF SessNext, SessLogin, SessBeginMfa

\* Hence the invariant holds of every behaviour.
LEMMA SessIndHolds == SessSpec => []SessInd
<1>1. SessInd /\ [SessNext]_sessVars => SessInd'
  BY SessIndStep
<1>2. QED
  BY <1>1, SessIndInit, PTL DEF SessSpec

\* However writes fail and whenever the server restarts: a session ended by a
\* call whose write succeeded is in neither map nor file ever after.
THEOREM SessOverStaysOverHolds == SessSpec => []SessOverStaysOver
<1>1. SessInd => SessOverStaysOver
  BY DEF SessInd
<1>2. QED
  BY <1>1, SessIndHolds, PTL

\* Whichever way a session goes, by get(), remove(), a promotion, the sweep,
\* an eviction or a restart, its sockets are told, and no other's are.
THEOREM SessToldOfEndHolds == SessSpec => []SessToldOfEnd
<1>1. SessInd => SessToldOfEnd
  BY DEF SessInd
<1>2. QED
  BY <1>1, SessIndHolds, PTL

\* No number of restarts, between which load() recomputes a session's age from
\* the wall clock, lets get() find a session past its lifetime.
THEOREM SessLifetimeHolds == SessSpec => []SessLifetime
<1>1. SessInd => SessLifetime
  <2> SUFFICES ASSUME SessInd, NEW i \in SessLive, SessFound(i)
               PROVE sessMono - sessBirth[i] < SessTtl(sess[i])
    BY DEF SessLifetime
  <2>1. i \in SessId /\ sess[i].kind # "none" /\ ~(sessMono - sess[i].born >= SessTtl(sess[i]))
    BY DEF SessFound, SessLive, SessExpired
  <2>2. sess[i].born <= sessBirth[i] /\ sess[i].born \in Int /\ sessBirth[i] \in Int /\ sessMono \in Int
    BY <2>1 DEF SessInd, SessAged, SessTypes, SessRec
  <2>3. SessTtl(sess[i]) \in Int
    BY SessAssumption DEF SessTtl
  <2>4. QED
    BY <2>1, <2>2, <2>3
<1>2. QED
  BY <1>1, SessIndHolds, PTL

\* An id keeps the kind and user it was minted with, even when it comes back
\* from a file that failed writes have left behind memory.
THEOREM SessRightsKeptHolds == SessSpec => SessRightsKept
<1>1. SessInd /\ [SessNext]_sessVars => [SessRightsStep]_sessVars
  BY SessIndStep
<1>2. QED
  BY <1>1, SessIndHolds, PTL DEF SessSpec, SessRightsKept, SessRightsStep
=============================================================================
