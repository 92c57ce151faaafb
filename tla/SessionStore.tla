---------------------------- MODULE SessionStore ----------------------------
(***************************************************************************)
(* The session store of session.rs: the map under its lock, the revocation *)
(* watch of each session, and the file that outlives the process.  An id   *)
(* is the number of its minting; a cookie, its hash and the CSRF token are *)
(* one with the id.  A process killed inside write_atomic() leaves the old *)
(* file or the new one: a failed write followed by SessRestart, or         *)
(* SessRestart alone.  Names start with Sess so that compositions can      *)
(* extend several stores.                                                  *)
(***************************************************************************)
EXTENDS Integers, FiniteSets

CONSTANTS
  SessUser,     \* identities that sign in
  SessFlow,     \* OIDC flows
  SessCap,      \* MAX_SESSIONS (10 000 in the code)
  SessPreTtl,   \* PREAUTH_TTL
  SessAuthTtl,  \* the configured session lifetime
  MaxSess,      \* bound: ids minted
  MaxSessTime,  \* bound: seconds on either clock
  SessMayFail   \* whether a write of the file may fail

ASSUME SessAssumption ==
  /\ SessCap \in Nat \ {0} /\ MaxSess \in Nat /\ MaxSessTime \in Nat
  /\ SessPreTtl \in Nat /\ SessAuthTtl \in Nat /\ SessMayFail \in BOOLEAN

VARIABLES
  sess,        \* the map: a session for every id, NoSess where there is none
  sessFile,    \* the same, as last written
  sessTold,    \* ids whose watch says revoked, or whose sockets died with the process
  sessMinted,  \* ids minted so far
  sessMono,    \* Instant::now()
  sessWall,    \* SystemTime::now()
  sessBirth,   \* checking only: the monotonic time each id was minted at
  sessOver     \* checking only: ids ended by a call whose write did not fail

sessClocks == <<sessMono, sessWall>>
sessVars == <<sess, sessFile, sessTold, sessMinted, sessMono, sessWall, sessBirth, sessOver>>

SessId == 1..MaxSess
NoUser == "nobody"
NoFlow == "noflow"
SessKind == {"none", "anon", "mfa", "auth"}
SessRec == [kind : SessKind, user : SessUser \cup {NoUser}, flow : SessFlow \cup {NoFlow},
            born : Int, stamp : Int]
NoSess == [kind |-> "none", user |-> NoUser, flow |-> NoFlow, born |-> 0, stamp |-> 0]

SessLive == {i \in SessId : sess[i].kind # "none"}
SessTtl(s) == IF s.kind = "auth" THEN SessAuthTtl ELSE SessPreTtl
SessExpired(s) == sessMono - s.born >= SessTtl(s)
SessMeaningful(s) == s.kind \in {"auth", "mfa"} \/ (s.kind = "anon" /\ s.flow # NoFlow)

SessFresh(kind, user) ==
  [kind |-> kind, user |-> user, flow |-> NoFlow, born |-> sessMono, stamp |-> sessWall]

SessInit ==
  /\ sess = [i \in SessId |-> NoSess] /\ sessFile = [i \in SessId |-> NoSess]
  /\ sessTold = {} /\ sessMinted = 0 /\ sessMono = 0 /\ sessWall = 0
  /\ sessBirth = [i \in SessId |-> 0] /\ sessOver = {}

----------------------------------------------------------------------------
(* Parts of the operations. *)

\* persist_locked(): what of the new map S is worth writing, without the
\* monotonic time.  A failed write is logged and leaves the old file.
SessOnDisk(S) ==
  [i \in SessId |-> IF SessMeaningful(S[i]) /\ ~SessExpired(S[i])
                    THEN [S[i] EXCEPT !.born = 0] ELSE NoSess]
SessPersist(S, ok) == sessFile' = IF ok THEN SessOnDisk(S) ELSE sessFile
SessWrites == IF SessMayFail THEN BOOLEAN ELSE {TRUE}

SessWithout(S, G) == [i \in SessId |-> IF i \in G THEN NoSess ELSE S[i]]

\* The sessions G leave the map: each is revoked as it goes.
SessTellNone(G) == sessTold' = sessTold
SessTell(G) == sessTold' = sessTold \cup G

\* The end of G by a call whose write came out as ok.
SessEnds(G, ok) == sessOver' = IF ok THEN sessOver \cup G ELSE sessOver

\* The oldest anonymous session, or else the oldest.
SessOldest(A) == {i \in A : \A j \in A : sess[i].born <= sess[j].born}
SessVictims ==
  LET anon == {i \in SessLive : sess[i].kind # "auth"}
  IN  IF anon # {} THEN SessOldest(anon) ELSE SessOldest(SessLive)

----------------------------------------------------------------------------
(* The operations. *)

\* The map has room for `room` more before something must go.
SessMakeRoom(G) == IF Cardinality(SessLive) >= SessCap THEN \E v \in SessVictims : G = {v} ELSE G = {}

SessCreate ==
  /\ sessMinted < MaxSess
  /\ sessMinted' = sessMinted + 1
  /\ \E G \in SUBSET SessLive :
       /\ SessMakeRoom(G)
       /\ sess' = [SessWithout(sess, G) EXCEPT ![sessMinted'] = SessFresh("anon", NoUser)]
       /\ SessTell(G)
  /\ sessBirth' = [sessBirth EXCEPT ![sessMinted'] = sessMono]
  /\ UNCHANGED <<sessFile, sessOver, sessClocks>>

\* Is the session there and alive?  An expired one is removed by get().
SessFound(i) == i \in SessLive /\ ~SessExpired(sess[i])

SessGetExpired(i) ==
  /\ i \in SessLive /\ SessExpired(sess[i])
  /\ sess' = SessWithout(sess, {i})
  /\ SessTell({i})
  /\ \E ok \in SessWrites : SessPersist(sess', ok) /\ SessEnds({i}, ok)
  /\ UNCHANGED <<sessMinted, sessClocks, sessBirth>>

\* A removal that forgets the file.
SessRemoveUnwritten(i) ==
  /\ i \in SessLive
  /\ sess' = SessWithout(sess, {i})
  /\ SessTell({i})
  /\ SessEnds({i}, TRUE)
  /\ UNCHANGED <<sessFile, sessMinted, sessClocks, sessBirth>>

SessRemove(i) ==
  /\ i \in SessLive
  /\ sess' = SessWithout(sess, {i})
  /\ SessTell({i})
  /\ \E ok \in SessWrites : SessPersist(sess', ok) /\ SessEnds({i}, ok)
  /\ UNCHANGED <<sessMinted, sessClocks, sessBirth>>

\* login() and begin_mfa(): the old id ends, whether or not it is still
\* there, and a new one takes its place.
SessPromoteInPlace(old, kind, user) ==
  /\ old \in SessLive
  /\ sess' = [sess EXCEPT ![old] = SessFresh(kind, user)]
  /\ \E ok \in SessWrites : SessPersist(sess', ok)
  /\ UNCHANGED <<sessTold, sessMinted, sessClocks, sessBirth, sessOver>>

SessPromote(old, kind, user) ==
  LET gone == SessLive \cap {old}
  IN /\ sessMinted < MaxSess
     /\ sessMinted' = sessMinted + 1
     /\ sess' = [SessWithout(sess, gone) EXCEPT ![sessMinted'] = SessFresh(kind, user)]
     /\ SessTell(gone)
     /\ \E ok \in SessWrites : SessPersist(sess', ok) /\ SessEnds(gone, ok)
     /\ sessBirth' = [sessBirth EXCEPT ![sessMinted'] = sessMono]
     /\ UNCHANGED sessClocks

SessLogin(old, user)    == SessPromote(old, "auth", user)
SessBeginMfa(old, user) == SessPromote(old, "mfa", user)

SessSweep ==
  LET G == {i \in SessLive : SessExpired(sess[i])}
  IN /\ G # {}
     /\ sess' = SessWithout(sess, G)
     /\ SessTell(G)
     /\ \E ok \in SessWrites : SessPersist(sess', ok) /\ SessEnds(G, ok)
     /\ UNCHANGED <<sessMinted, sessClocks, sessBirth>>

SessSetOauth(i, flow) ==
  /\ i \in SessLive
  /\ sess' = [sess EXCEPT ![i].flow = flow]
  /\ \E ok \in SessWrites : SessPersist(sess', ok)
  /\ UNCHANGED <<sessTold, sessMinted, sessClocks, sessBirth, sessOver>>

\* load(): what the file holds and the wall clock still allows, as old as the
\* wall clock says it is.  Instants may lie before the boot on the platforms the
\* server runs on, so checked_sub() finds one for any age below a lifetime and
\* the fallback to now (session.rs:118) is not taken.
SessAge(s) == IF sessWall >= s.stamp THEN sessWall - s.stamp ELSE 0
SessReloadedYoung(s) == [s EXCEPT !.born = sessMono]
SessReloaded(s) == [s EXCEPT !.born = sessMono - SessAge(s)]

SessRestart ==
  LET back == {i \in SessId : SessMeaningful(sessFile[i]) /\ SessAge(sessFile[i]) < SessTtl(sessFile[i])}
  IN /\ sess' = [i \in SessId |-> IF i \in back THEN SessReloaded(sessFile[i]) ELSE NoSess]
     /\ \E ok \in SessWrites : SessPersist(sess', ok)
     /\ sessTold' = (1..sessMinted) \ back
     /\ UNCHANGED <<sessMinted, sessClocks, sessBirth, sessOver>>

\* Time passes; the wall clock may also be set forward alone.
SessTick ==
  /\ sessWall < MaxSessTime
  /\ sessWall' = sessWall + 1
  /\ sessMono' \in {sessMono, sessMono + 1}
  /\ UNCHANGED <<sess, sessFile, sessTold, sessMinted, sessBirth, sessOver>>

SessNext ==
  \/ SessCreate \/ SessSweep \/ SessRestart \/ SessTick
  \/ \E i \in SessId : SessGetExpired(i) \/ SessRemove(i)
  \/ \E i \in SessId, f \in SessFlow \cup {NoFlow} : SessSetOauth(i, f)
  \/ \E i \in 1..sessMinted, u \in SessUser : SessLogin(i, u) \/ SessBeginMfa(i, u)

SessSpec == SessInit /\ [][SessNext]_sessVars

----------------------------------------------------------------------------
(* Properties. *)

\* Types; the wall clock is never behind the monotonic one, and the file names
\* nobody who has merely opened the login page.
SessTypeOK ==
  /\ sess \in [SessId -> SessRec] /\ sessFile \in [SessId -> SessRec]
  /\ sessMinted \in 0..MaxSess /\ sessTold \subseteq SessId /\ sessOver \subseteq SessId
  /\ sessMono \in Int /\ sessWall \in Int /\ sessMono <= sessWall
  /\ sessBirth \in [SessId -> Int]
  /\ \A i \in SessId : sessFile[i] # NoSess => i <= sessMinted /\ SessMeaningful(sessFile[i])

\* A session that get(), remove(), login(), begin_mfa() or sweep() ended does
\* not come back, in memory or at a restart, unless that call's write failed.
SessOverStaysOver == \A i \in sessOver : sess[i] = NoSess /\ sessFile[i] = NoSess

\* The sockets of a session are told of its end, whichever of the six ways it
\* goes, and those of a live one never are.
SessToldOfEnd == sessTold = (1..sessMinted) \ SessLive

\* However often the server restarts, nobody is let in on a session for longer
\* than its lifetime after it was minted (a wall clock set forward only
\* shortens that).
SessLifetime ==
  \A i \in SessLive : SessFound(i) => sessMono - sessBirth[i] < SessTtl(sess[i])

\* Session fixation: an id keeps the rights it was minted with.  Whoever knew
\* it before the login knows nothing after it.
SessRightsKept ==
  [][\A i \in SessLive : sess'[i].kind # "none" =>
       sess'[i].kind = sess[i].kind /\ sess'[i].user = sess[i].user]_sessVars
=============================================================================
