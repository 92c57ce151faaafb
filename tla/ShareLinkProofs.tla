--------------------------- MODULE ShareLinkProofs ---------------------------
(***************************************************************************)
(* Proofs about ShareLink for every number of users, viewers, grants and   *)
(* permits, and clocks that run as far as they like.                       *)
(***************************************************************************)
EXTENDS ShareLink, FiniteSetTheorems, TLAPS

\* A connection's lease names a minted grant; a frame being sent is counted.
LeaseInv ==
  /\ grants \subseteq 1..minted
  /\ \A v \in Viewer :
       /\ pc[v] # "off" => lease[v] \in 1..minted
       /\ pc[v] \in {"send", "write"} => left[v] >= 1

\* A viewer that got a late frame has an invalid lease, hence no further write.
LateInv ==
  \A v \in Viewer :
    /\ late[v] <= 1
    /\ pc[v] \in {"off", "lookup", "leased", "write"} => late[v] = 0
    /\ late[v] > 0 => ~Valid(v)

TypeInv == TypeOK /\ LeaseInv

\* The store and its viewers start empty.
LEMMA TypeInit == Init => TypeInv
  BY ShareAssumption DEF Init, TypeInv, TypeOK, StoreType, ViewerType, LeaseInv, Label, NoId, Id, LateSeen

\* No operation of the store, the bridge or the clocks leaves the types.
LEMMA TypeStep == TypeInv /\ [Next]_vars => TypeInv'
<1> SUFFICES ASSUME TypeInv, [Next]_vars PROVE TypeInv'
  OBVIOUS
<1> USE DEF TypeInv, TypeOK, storeVars, clockVars, viewerVars
<1>1. ASSUME NEW u \in User, NEW t \in 1..MaxTtl, Create(u, t) PROVE TypeInv'
  <2>2. minted + 1 \in Id /\ minted + 1 \in 0..MaxId /\ wall + t \in Nat
    BY <1>1, ShareAssumption DEF Create, StoreType, Id
  <2>3. [user |-> u, exp |-> wall + t] \in [user : User, exp : Nat]
    BY <2>2
  <2>4. StoreType'
    <3>1. CASE CreateAllowed(u)
      BY <1>1, <2>2, <2>3, <3>1 DEF Create, PruneRevoked, Pruned, StoreType
    <3>2. CASE ~CreateAllowed(u)
      BY <1>1, <3>2 DEF Create, PruneRevoked, Pruned, StoreType
    <3>3. QED
      BY <3>1, <3>2
  <2>5. ViewerType'
    BY <1>1 DEF Create, ViewerType
  <2>6. LeaseInv'
    <3>1. minted' \in {minted, minted + 1} /\ minted \in Nat
      BY <1>1 DEF Create, StoreType
    <3>2. grants' \subseteq 1..minted'
      <4>1. grants \subseteq 1..minted
        BY DEF LeaseInv
      <4>2. CASE CreateAllowed(u)
        <5>1. minted' = minted + 1 /\ grants' = (grants \ Pruned) \union {minted + 1}
          BY <1>1, <4>2 DEF Create
        <5>2. minted \in Nat
          BY <3>1
        <5>3. 1..minted \subseteq 1..(minted + 1) /\ minted + 1 \in 1..(minted + 1)
          BY <5>2
        <5>4. QED
          BY <4>1, <5>1, <5>3
      <4>3. CASE ~CreateAllowed(u)
        <5>1. minted' = minted /\ grants' = grants \ Pruned
          BY <1>1, <4>3 DEF Create
        <5>2. QED
          BY <4>1, <5>1
      <4>4. QED
        BY <4>2, <4>3
    <3>3. QED
      BY <1>1, <3>1, <3>2 DEF Create, LeaseInv, ViewerType
  <2>7. QED
    BY <2>4, <2>5, <2>6
<1>2. CASE Sweep
  BY <1>2 DEF Sweep, PruneRevoked, StoreType, ViewerType, LeaseInv
<1>3. ASSUME NEW g \in Id, Resolve(g) PROVE TypeInv'
  BY <1>3 DEF Resolve, PruneRevoked, StoreType, ViewerType, LeaseInv
<1>4. ASSUME NEW g \in Id, NEW u \in User, Revoke(u, g) PROVE TypeInv'
  BY <1>4 DEF Revoke, PruneRevoked, StoreType, ViewerType, LeaseInv
<1>5. CASE Clock
  <2>1. wall' \in Nat /\ mono' \in Nat
    BY <1>5 DEF Clock, Tick, SetClock, Settable, StoreType
  <2>2. UNCHANGED <<storeVars, permits, viewerVars>>
    BY <1>5 DEF Clock, Tick, SetClock, Settable
  <2>3. QED
    BY <2>1, <2>2 DEF StoreType, ViewerType, LeaseInv
<1>6. ASSUME NEW v \in Viewer, Admission(v) PROVE TypeInv'
  <2>1. CASE LeaseTake(v)
    <3>e. lease[v] \in Id
      <4>1. lease[v] \in 1..minted
        BY <2>1 DEF LeaseTake, LeaseInv
      <4>2. QED
        BY <4>1, ShareAssumption DEF StoreType, Id
    <3>f. permits' \in [Id -> Nat]
      BY <2>1, <3>e DEF LeaseTake, Leave, StoreType
    <3>a. StoreType'
      BY <2>1, <3>f DEF LeaseTake, Goto, StoreType, Id
    <3>b. ViewerType'
      BY <2>1 DEF LeaseTake, Goto, StoreType, ViewerType, LeaseInv, Label, LateSeen, Id
    <3>c. LeaseInv'
      BY <2>1 DEF LeaseTake, Goto, StoreType, ViewerType, LeaseInv
    <3>d. QED
      BY <3>a, <3>b, <3>c
  <2>2. CASE LeaseRefused(v)
    <3>a. StoreType'
      BY <2>2 DEF LeaseRefused, Goto, StoreType, Id
    <3>b. ViewerType'
      BY <2>2 DEF LeaseRefused, Goto, StoreType, ViewerType, LeaseInv, Label, LateSeen, Id
    <3>c. LeaseInv'
      BY <2>2 DEF LeaseRefused, Goto, StoreType, ViewerType, LeaseInv
    <3>d. QED
      BY <3>a, <3>b, <3>c
  <2>3. CASE Refused(v)
    <3>e. lease[v] \in Id
      <4>1. lease[v] \in 1..minted
        BY <2>3 DEF Refused, LeaseInv
      <4>2. QED
        BY <4>1, ShareAssumption DEF StoreType, Id
    <3>f. permits' \in [Id -> Nat]
      BY <2>3, <3>e DEF Refused, Leave, StoreType
    <3>a. StoreType'
      BY <2>3, <3>f DEF Refused, Goto, Leave, StoreType, Id
    <3>b. ViewerType'
      BY <2>3 DEF Refused, Goto, Leave, StoreType, ViewerType, LeaseInv, Label, LateSeen, Id
    <3>c. LeaseInv'
      BY <2>3 DEF Refused, Goto, Leave, StoreType, ViewerType, LeaseInv
    <3>d. QED
      BY <3>a, <3>b, <3>c
  <2>4. CASE BridgeStart(v)
    <3>a. StoreType'
      BY <2>4 DEF BridgeStart, Goto, Deadline, Expired, StoreType, Id
    <3>b. ViewerType'
      BY <2>4 DEF BridgeStart, Goto, Deadline, Expired, StoreType, ViewerType, LeaseInv, Label, LateSeen, Id
    <3>c. LeaseInv'
      BY <2>4 DEF BridgeStart, Goto, Deadline, Expired, StoreType, ViewerType, LeaseInv
    <3>d. QED
      BY <3>a, <3>b, <3>c
  <2>5. ASSUME NEW g \in Id, LeaseCheck(v, g) PROVE TypeInv'
    <3>g. g \in 1..minted
      BY <2>5 DEF LeaseCheck, Id, StoreType
    <3>a. StoreType'
      BY <2>5, <3>g, ShareAssumption DEF LeaseCheck, Goto, StoreType, Id
    <3>b. ViewerType'
      BY <2>5, <3>g, ShareAssumption DEF LeaseCheck, Goto, StoreType, ViewerType, LeaseInv, Label, LateSeen, Id
    <3>c. LeaseInv'
      BY <2>5, <3>g, ShareAssumption DEF LeaseCheck, Goto, StoreType, ViewerType, LeaseInv
    <3>d. QED
      BY <3>a, <3>b, <3>c
  <2>6. QED
    BY <1>6, <2>1, <2>2, <2>3, <2>4, <2>5 DEF Admission
<1>7. ASSUME NEW v \in Viewer, Output(v) PROVE TypeInv'
  <2>1. CASE SendRefused(v)
    <3>a. StoreType'
      BY <2>1 DEF SendRefused, Goto, StoreType, Id
    <3>b. ViewerType'
      BY <2>1 DEF SendRefused, Goto, StoreType, ViewerType, LeaseInv, Label, LateSeen, Id
    <3>c. LeaseInv'
      BY <2>1 DEF SendRefused, Goto, StoreType, ViewerType, LeaseInv
    <3>d. QED
      BY <3>a, <3>b, <3>c
  <2>2. CASE SendStart(v)
    <3>a. StoreType'
      BY <2>2 DEF SendStart, Goto, Deadline, Expired, StoreType, Id
    <3>b. ViewerType'
      BY <2>2 DEF SendStart, Goto, Deadline, Expired, StoreType, ViewerType, LeaseInv, Label, LateSeen, Id
    <3>c. LeaseInv'
      BY <2>2 DEF SendStart, Goto, Deadline, Expired, StoreType, ViewerType, LeaseInv
    <3>d. QED
      BY <3>a, <3>b, <3>c
  <2>3. CASE WriteDone(v)
    <3>a. StoreType'
      BY <2>3 DEF WriteDone, Goto, StoreType, Id
    <3>b. ViewerType'
      BY <2>3 DEF WriteDone, Goto, StoreType, ViewerType, LeaseInv, Label, LateSeen, Id
    <3>c. LeaseInv'
      BY <2>3 DEF WriteDone, Goto, StoreType, ViewerType, LeaseInv
    <3>d. QED
      BY <3>a, <3>b, <3>c
  <2>4. CASE WriteLost(v)
    <3>e. lease[v] \in Id
      <4>1. lease[v] \in 1..minted
        BY <2>4 DEF WriteLost, LeaseInv
      <4>2. QED
        BY <4>1, ShareAssumption DEF StoreType, Id
    <3>f. permits' \in [Id -> Nat]
      BY <2>4, <3>e DEF WriteLost, Leave, StoreType
    <3>a. StoreType'
      BY <2>4, <3>f DEF WriteLost, Goto, Leave, StoreType, Id
    <3>b. ViewerType'
      BY <2>4 DEF WriteLost, Goto, Leave, StoreType, ViewerType, LeaseInv, Label, LateSeen, Id
    <3>c. LeaseInv'
      BY <2>4 DEF WriteLost, Goto, Leave, StoreType, ViewerType, LeaseInv
    <3>d. QED
      BY <3>a, <3>b, <3>c
  <2>5. CASE WriteCut(v)
    <3>e. lease[v] \in Id
      <4>1. lease[v] \in 1..minted
        BY <2>5 DEF WriteCut, LeaseInv
      <4>2. QED
        BY <4>1, ShareAssumption DEF StoreType, Id
    <3>f. permits' \in [Id -> Nat]
      BY <2>5, <3>e DEF WriteCut, Leave, StoreType
    <3>a. StoreType'
      BY <2>5, <3>f DEF WriteCut, Goto, Leave, StoreType, Id
    <3>b. ViewerType'
      BY <2>5 DEF WriteCut, Goto, Leave, StoreType, ViewerType, LeaseInv, Label, LateSeen, Id
    <3>c. LeaseInv'
      BY <2>5 DEF WriteCut, Goto, Leave, StoreType, ViewerType, LeaseInv
    <3>d. QED
      BY <3>a, <3>b, <3>c
  <2>6. CASE CloseDone(v)
    <3>e. lease[v] \in Id
      <4>1. lease[v] \in 1..minted
        BY <2>6 DEF CloseDone, LeaseInv
      <4>2. QED
        BY <4>1, ShareAssumption DEF StoreType, Id
    <3>f. permits' \in [Id -> Nat]
      BY <2>6, <3>e DEF CloseDone, Leave, StoreType
    <3>a. StoreType'
      BY <2>6, <3>f DEF CloseDone, Goto, Leave, StoreType, Id
    <3>b. ViewerType'
      BY <2>6 DEF CloseDone, Goto, Leave, StoreType, ViewerType, LeaseInv, Label, LateSeen, Id
    <3>c. LeaseInv'
      BY <2>6 DEF CloseDone, Goto, Leave, StoreType, ViewerType, LeaseInv
    <3>d. QED
      BY <3>a, <3>b, <3>c
  <2>7. QED
    BY <1>7, <2>1, <2>2, <2>3, <2>4, <2>5, <2>6 DEF Output
<1>8. ASSUME NEW v \in Viewer, Loop(v) PROVE TypeInv'
  <2>1. CASE LoopEnd(v)
    <3>a. StoreType'
      BY <2>1 DEF LoopEnd, Goto, StoreType, Id
    <3>b. ViewerType'
      BY <2>1 DEF LoopEnd, Goto, StoreType, ViewerType, LeaseInv, Label, LateSeen, Id
    <3>c. LeaseInv'
      BY <2>1 DEF LoopEnd, Goto, StoreType, ViewerType, LeaseInv
    <3>d. QED
      BY <3>a, <3>b, <3>c
  <2>2. CASE LoopAudit(v)
    <3>a. StoreType'
      BY <2>2 DEF LoopAudit, Goto, StoreType, Id
    <3>b. ViewerType'
      BY <2>2 DEF LoopAudit, Goto, StoreType, ViewerType, LeaseInv, Label, LateSeen, Id
    <3>c. LeaseInv'
      BY <2>2 DEF LoopAudit, Goto, StoreType, ViewerType, LeaseInv
    <3>d. QED
      BY <3>a, <3>b, <3>c
  <2>3. CASE LoopClosed(v)
    <3>a. StoreType'
      BY <2>3 DEF LoopClosed, Goto, StoreType, Id
    <3>b. ViewerType'
      BY <2>3 DEF LoopClosed, Goto, StoreType, ViewerType, LeaseInv, Label, LateSeen, Id
    <3>c. LeaseInv'
      BY <2>3 DEF LoopClosed, Goto, StoreType, ViewerType, LeaseInv
    <3>d. QED
      BY <3>a, <3>b, <3>c
  <2>4. CASE LoopGone(v)
    <3>e. lease[v] \in Id
      <4>1. lease[v] \in 1..minted
        BY <2>4 DEF LoopGone, LeaseInv
      <4>2. QED
        BY <4>1, ShareAssumption DEF StoreType, Id
    <3>f. permits' \in [Id -> Nat]
      BY <2>4, <3>e DEF LoopGone, Leave, StoreType
    <3>a. StoreType'
      BY <2>4, <3>f DEF LoopGone, Goto, Leave, StoreType, Id
    <3>b. ViewerType'
      BY <2>4 DEF LoopGone, Goto, Leave, StoreType, ViewerType, LeaseInv, Label, LateSeen, Id
    <3>c. LeaseInv'
      BY <2>4 DEF LoopGone, Goto, Leave, StoreType, ViewerType, LeaseInv
    <3>d. QED
      BY <3>a, <3>b, <3>c
  <2>5. ASSUME NEW n \in 1..MaxBurst, LoopFrames(v, n) PROVE TypeInv'
    <3>a. StoreType'
      BY <2>5 DEF LoopFrames, Goto, StoreType, Id
    <3>b. ViewerType'
      BY <2>5 DEF LoopFrames, Goto, StoreType, ViewerType, LeaseInv, Label, LateSeen, Id
    <3>c. LeaseInv'
      BY <2>5 DEF LoopFrames, Goto, StoreType, ViewerType, LeaseInv
    <3>d. QED
      BY <3>a, <3>b, <3>c
  <2>6. QED
    BY <1>8, <2>1, <2>2, <2>3, <2>4, <2>5 DEF Loop
<1>9. CASE UNCHANGED vars
  BY <1>9 DEF vars, StoreType, ViewerType, LeaseInv
<1>10. QED
  BY <1>1, <1>2, <1>3, <1>4, <1>5, <1>6, <1>7, <1>8, <1>9 DEF Next, Store

\* Type correctness, which the other arguments rest on: no permit count goes
\* below zero, no lease is on a grant that was never minted.
THEOREM TypeCorrect == Spec => []TypeOK
<1>1. TypeInv => TypeOK
  BY DEF TypeInv
<1>2. QED
  BY <1>1, TypeInit, TypeStep, PTL DEF Spec

----------------------------------------------------------------------------
(* Validity is one-way, unless the wall clock is set back. *)

VBridge(v) == Admission(v) \/ Output(v) \/ Loop(v)

\* A viewer's own steps leave the store and the clocks alone; a lease is
\* taken once; a write starts on a valid lease, and only its end counts a
\* late frame.
LEMMA BridgeStep ==
  ASSUME TypeInv, NEW v \in Viewer, VBridge(v), NEW w \in Viewer
  PROVE  /\ UNCHANGED <<storeVars, clockVars>>
         /\ pc[w] # "off" => pc'[w] # "off" /\ lease'[w] = lease[w]
         /\ pc'[w] \in {"off", "lookup", "leased"} => pc[w] \in {"off", "lookup", "leased"}
         /\ pc'[w] = "write" => pc[w] = "write" \/ Valid(w)
         /\ \/ late'[w] = late[w]
            \/ /\ pc[w] = "write" /\ pc'[w] \in {"send", "loop"}
               /\ late'[w] = late[w] + 1 /\ ~Valid(w)
<1> USE DEF TypeInv, TypeOK, ViewerType
<1>1. CASE LeaseTake(v)
  BY <1>1 DEF LeaseTake, Goto
<1>2. CASE LeaseRefused(v)
  BY <1>2 DEF LeaseRefused, Goto
<1>3. CASE Refused(v)
  BY <1>3 DEF Refused, Goto, Leave
<1>4. CASE BridgeStart(v)
  BY <1>4 DEF BridgeStart, Goto
<1>5. CASE SendRefused(v)
  BY <1>5 DEF SendRefused, Goto
<1>6. CASE SendStart(v)
  BY <1>6 DEF SendStart, Goto
<1>7. CASE WriteDone(v)
  BY <1>7 DEF WriteDone, Goto
<1>8. CASE WriteLost(v)
  BY <1>8 DEF WriteLost, Goto, Leave
<1>9. CASE WriteCut(v)
  BY <1>9 DEF WriteCut, Goto, Leave
<1>10. CASE CloseDone(v)
  BY <1>10 DEF CloseDone, Goto, Leave
<1>11. CASE LoopEnd(v)
  BY <1>11 DEF LoopEnd, Goto
<1>12. CASE LoopAudit(v)
  BY <1>12 DEF LoopAudit, Goto
<1>13. CASE LoopClosed(v)
  BY <1>13 DEF LoopClosed, Goto
<1>14. CASE LoopGone(v)
  BY <1>14 DEF LoopGone, Goto, Leave
<1>15. ASSUME NEW g \in Id, LeaseCheck(v, g)
       PROVE  /\ UNCHANGED <<storeVars, clockVars, late>> /\ pc[v] = "off" /\ pc'[v] = "lookup"
              /\ \A x \in Viewer \ {v} : pc'[x] = pc[x] /\ lease'[x] = lease[x]
  BY <1>15 DEF LeaseCheck, Goto
<1>16. ASSUME NEW n \in 1..MaxBurst, LoopFrames(v, n)
       PROVE  /\ UNCHANGED <<storeVars, clockVars, late, lease>> /\ pc[v] = "loop" /\ pc'[v] = "send"
              /\ \A x \in Viewer \ {v} : pc'[x] = pc[x]
  BY <1>16 DEF LoopFrames, Goto
<1>17. QED
  BY <1>1, <1>2, <1>3, <1>4, <1>5, <1>6, <1>7, <1>8, <1>9, <1>10, <1>11, <1>12, <1>13, <1>14, <1>15, <1>16 DEF VBridge, Admission, Output, Loop

\* The store only ever takes validity away from a minted grant.
LEMMA StoreStep ==
  ASSUME TypeInv, Store, NEW g \in 1..minted
  PROVE  /\ UNCHANGED <<clockVars, viewerVars, permits>>
         /\ token'[g] = token[g]
         /\ revoked[g] => revoked'[g]
         /\ g \notin grants => g \notin grants'
<1> USE DEF TypeInv, TypeOK, StoreType
<1>1. g \in Id /\ g # minted + 1
  BY ShareAssumption DEF Id
<1>2. ASSUME NEW u \in User, NEW t \in 1..MaxTtl, Create(u, t)
     PROVE  /\ UNCHANGED <<clockVars, viewerVars, permits>>
            /\ token'[g] = token[g]
            /\ revoked[g] => revoked'[g]
            /\ g \notin grants => g \notin grants'
  BY <1>1, <1>2 DEF Create, PruneRevoked
<1>3. CASE Sweep
  BY <1>1, <1>3 DEF Sweep, PruneRevoked
<1>4. ASSUME NEW h \in Id, Resolve(h) \/ \E u \in User : Revoke(u, h)
     PROVE  /\ UNCHANGED <<clockVars, viewerVars, permits, token>>
            /\ revoked[g] => revoked'[g]
            /\ g \notin grants => g \notin grants'
  BY <1>1, <1>4 DEF Resolve, Revoke, PruneRevoked
<1>5. QED
  BY <1>2, <1>3, <1>4 DEF Store

\* A lease that is no longer valid stays so: expiry because the wall clock is
\* not set back, revocation because the watch and the map only lose.
LEMMA InvalidStays ==
  ASSUME ~MaySetBack, TypeInv, [Next]_vars,
         NEW w \in Viewer, pc[w] # "off", ~Valid(w)
  PROVE  ~Valid(w)' /\ lease'[w] = lease[w]
<1> DEFINE g == lease[w]
<1>1. g \in 1..minted /\ g \in Id
  BY ShareAssumption DEF TypeInv, TypeOK, StoreType, LeaseInv, Id
<1>2. token[g].exp \in Nat /\ wall \in Nat
  BY <1>1 DEF TypeInv, TypeOK, StoreType
<1>3. CASE Store
  <2>1. lease'[w] = g /\ wall' = wall /\ token'[g] = token[g] /\ (revoked[g] => revoked'[g])
        /\ (g \notin grants => g \notin grants')
    BY <1>1, <1>3, StoreStep DEF clockVars, viewerVars
  <2>2. QED
    BY <2>1 DEF Valid, Expired, Revoked
<1>4. CASE Clock
  <2>1. wall' >= wall
    BY <1>2, <1>4 DEF Clock, Tick, SetClock, Settable
  <2>2. UNCHANGED <<storeVars, lease>>
    BY <1>4 DEF Clock, Tick, SetClock, Settable, viewerVars
  <2>3. wall' \in Nat
    BY <1>2, <1>4 DEF Clock, Tick, SetClock, Settable
  <2>4. QED
    BY <1>2, <2>1, <2>2, <2>3 DEF Valid, Expired, Revoked, storeVars
<1>5. ASSUME NEW v \in Viewer, VBridge(v) PROVE ~Valid(w)' /\ lease'[w] = lease[w]
  <2>1. UNCHANGED <<storeVars, clockVars>> /\ lease'[w] = g
    BY <1>5, BridgeStep
  <2>2. QED
    BY <2>1 DEF Valid, Expired, Revoked, storeVars, clockVars
<1>6. CASE UNCHANGED vars
  BY <1>6 DEF vars, Valid, Expired, Revoked
<1>7. QED
  BY <1>3, <1>4, <1>5, <1>6 DEF Next, VBridge

\* Lease::valid(): once false it can never become true again, provided the
\* wall clock is not set back.
THEOREM ValidityFinalHolds ==
  ASSUME ~MaySetBack
  PROVE  Spec => ValidityFinal
<1>1. TypeInv /\ [Next]_vars =>
        [\A v \in Viewer : Leased(v) /\ Leased(v)' /\ ~Valid(v) => ~Valid(v)']_vars
  BY InvalidStays DEF Leased
<1>2. QED
  BY <1>1, TypeInit, TypeStep, PTL DEF Spec, ValidityFinal

\* No frame was late at the start.
LEMMA LateInit == Init => LateInv
  BY DEF Init, LateInv

\* The induction step for late frames.
LEMMA LateStep ==
  ASSUME ~MaySetBack, TypeInv, LateInv, [Next]_vars
  PROVE  LateInv'
<1> SUFFICES ASSUME NEW w \in Viewer
             PROVE  /\ late'[w] <= 1
                    /\ pc'[w] \in {"off", "lookup", "leased", "write"} => late'[w] = 0
                    /\ late'[w] > 0 => ~Valid(w)'
  BY DEF LateInv
<1>0. late[w] \in Nat /\ late[w] <= 1
      /\ (pc[w] \in {"off", "lookup", "leased", "write"} => late[w] = 0)
      /\ (late[w] > 0 => ~Valid(w) /\ pc[w] # "off")
  BY DEF LateInv, TypeInv, TypeOK, ViewerType, LateSeen
<1>1. CASE pc'[w] = pc[w] /\ late'[w] = late[w]
  BY <1>0, <1>1, InvalidStays
<1>2. ASSUME NEW v \in Viewer, VBridge(v)
     PROVE  /\ late'[w] <= 1
            /\ pc'[w] \in {"off", "lookup", "leased", "write"} => late'[w] = 0
            /\ late'[w] > 0 => ~Valid(w)'
  <2>1. CASE late'[w] = late[w]
    <3>1. pc'[w] \in {"off", "lookup", "leased", "write"} => late[w] = 0
      BY <1>0, <1>2, BridgeStep
    <3>2. QED
      BY <1>0, <2>1, <3>1, InvalidStays
  <2>2. CASE late'[w] # late[w]
    <3>1. pc[w] = "write" /\ pc'[w] \in {"send", "loop"} /\ late'[w] = late[w] + 1 /\ ~Valid(w)
      BY <1>2, <2>2, BridgeStep
    <3>2. QED
      BY <1>0, <3>1, InvalidStays
  <2>3. QED
    BY <2>1, <2>2
<1>3. CASE Store \/ Clock \/ UNCHANGED vars
  <2>1. UNCHANGED viewerVars
    BY <1>3 DEF Store, Clock, Create, Sweep, Resolve, Revoke, Tick, SetClock, Settable, vars, viewerVars
  <2>2. QED
    BY <1>1, <2>1 DEF viewerVars
<1>4. QED
  BY <1>2, <1>3 DEF Next, VBridge

\* A viewer whose lease has ended gets at most the frame that was in flight,
\* however output, redraws, revocation, sweep and expiry interleave.
THEOREM LateFramesHolds ==
  ASSUME ~MaySetBack
  PROVE  Spec => []LateFrames
<1>1. TypeInv /\ LateInv /\ [Next]_vars => LateInv'
  BY LateStep
<1>2. LateInv => LateFrames
  BY DEF LateInv, LateFrames
<1>3. QED
  BY <1>1, <1>2, TypeInit, TypeStep, LateInit, PTL DEF Spec

----------------------------------------------------------------------------
(* Permits. *)

\* A step of one viewer takes a permit with the lease, gives it back when it
\* leaves, and otherwise neither.
LEMMA PermitStep ==
  ASSUME TypeInv, NEW v \in Viewer, VBridge(v)
  PROVE  /\ \A w \in Viewer \ {v} : Leased(w)' = Leased(w) /\ lease'[w] = lease[w]
         /\ \/ ~Leased(v) /\ ~Leased(v)' /\ permits' = permits
            \/ Leased(v) /\ Leased(v)' /\ lease'[v] = lease[v] /\ permits' = permits
            \/ /\ ~Leased(v) /\ Leased(v)' /\ lease'[v] = lease[v]
               /\ permits' = [permits EXCEPT ![lease[v]] = @ - 1]
            \/ /\ Leased(v) /\ ~Leased(v)' /\ lease'[v] = lease[v]
               /\ permits' = [permits EXCEPT ![lease[v]] = @ + 1]
<1> USE DEF TypeInv, TypeOK, ViewerType, Leased
<1>1. CASE LeaseTake(v)
  BY <1>1 DEF LeaseTake, Goto
<1>2. CASE LeaseRefused(v)
  BY <1>2 DEF LeaseRefused, Goto
<1>3. CASE BridgeStart(v)
  BY <1>3 DEF BridgeStart, Goto
<1>4. CASE SendRefused(v)
  BY <1>4 DEF SendRefused, Goto
<1>5. CASE SendStart(v)
  BY <1>5 DEF SendStart, Goto
<1>6. CASE WriteDone(v)
  BY <1>6 DEF WriteDone, Goto
<1>7. CASE LoopEnd(v)
  BY <1>7 DEF LoopEnd, Goto
<1>8. CASE LoopAudit(v)
  BY <1>8 DEF LoopAudit, Goto
<1>9. CASE LoopClosed(v)
  BY <1>9 DEF LoopClosed, Goto
<1>10. CASE Refused(v)
  BY <1>10 DEF Refused, Goto, Leave
<1>11. CASE WriteLost(v)
  BY <1>11 DEF WriteLost, Goto, Leave
<1>12. CASE WriteCut(v)
  BY <1>12 DEF WriteCut, Goto, Leave
<1>13. CASE CloseDone(v)
  BY <1>13 DEF CloseDone, Goto, Leave
<1>14. CASE LoopGone(v)
  BY <1>14 DEF LoopGone, Goto, Leave
<1>15. ASSUME NEW g \in Id, LeaseCheck(v, g)
       PROVE  /\ \A w \in Viewer \ {v} : Leased(w)' = Leased(w) /\ lease'[w] = lease[w]
              /\ ~Leased(v) /\ ~Leased(v)' /\ permits' = permits
  BY <1>15 DEF LeaseCheck, Goto
<1>16. ASSUME NEW n \in 1..MaxBurst, LoopFrames(v, n)
       PROVE  /\ \A w \in Viewer \ {v} : Leased(w)' = Leased(w) /\ lease'[w] = lease[w]
              /\ Leased(v) /\ Leased(v)' /\ lease'[v] = lease[v] /\ permits' = permits
  BY <1>16 DEF LoopFrames, Goto
<1>17. QED
  BY <1>1, <1>2, <1>3, <1>4, <1>5, <1>6, <1>7, <1>8, <1>9, <1>10, <1>11, <1>12, <1>13, <1>14, <1>15, <1>16 DEF VBridge, Admission, Output, Loop

\* The induction step for permits.
LEMMA BalancedStep ==
  ASSUME TypeInv, PermitsBalanced, [Next]_vars
  PROVE  PermitsBalanced'
<1> SUFFICES ASSUME NEW g \in Id
             PROVE  permits'[g] + Cardinality(Watching(g)') = MaxViewers
  BY DEF PermitsBalanced
<1>1. permits[g] + Cardinality(Watching(g)) = MaxViewers /\ permits[g] \in Nat
  BY DEF PermitsBalanced, TypeInv, TypeOK, StoreType
<1>2. IsFiniteSet(Watching(g)) /\ Cardinality(Watching(g)) \in Nat
  <2>1. Watching(g) \in SUBSET Viewer
    BY DEF Watching
  <2>2. IsFiniteSet(Watching(g))
    BY <2>1, FS_Subset, ShareAssumption
  <2>3. QED
    BY <2>2, FS_CardinalityType
<1>3. CASE Store \/ Clock \/ UNCHANGED vars
  <2>1. UNCHANGED <<viewerVars, permits>>
    BY <1>3 DEF Store, Clock, Create, Sweep, Resolve, Revoke, Tick, SetClock, Settable, vars, viewerVars
  <2>2. Watching(g)' = Watching(g)
    BY <2>1 DEF Watching, Leased, viewerVars
  <2>3. QED
    BY <1>1, <2>1, <2>2
<1>4. ASSUME NEW v \in Viewer, VBridge(v)
     PROVE  permits'[g] + Cardinality(Watching(g)') = MaxViewers
  <2>0. \A x \in Viewer \ {v} : Leased(x)' = Leased(x) /\ lease'[x] = lease[x]
    BY <1>4, PermitStep
  <2>1. CASE \/ ~Leased(v) /\ ~Leased(v)' /\ permits' = permits
             \/ Leased(v) /\ Leased(v)' /\ lease'[v] = lease[v] /\ permits' = permits
    <3>1. Watching(g)' = Watching(g)
      BY <2>0, <2>1 DEF Watching
    <3>2. QED
      BY <1>1, <2>1, <3>1
  <2>2. CASE /\ ~Leased(v) /\ Leased(v)' /\ lease'[v] = lease[v]
             /\ permits' = [permits EXCEPT ![lease[v]] = @ - 1]
    <3>1. CASE lease[v] # g
      <4>1. Watching(g)' = Watching(g)
        BY <2>0, <2>2, <3>1 DEF Watching
      <4>2. permits'[g] = permits[g]
        BY <2>2, <3>1 DEF TypeInv, TypeOK, StoreType
      <4>3. QED
        BY <1>1, <4>1, <4>2
    <3>2. CASE lease[v] = g
      <4>1. Watching(g)' = Watching(g) \union {v} /\ v \notin Watching(g)
        BY <2>0, <2>2, <3>2 DEF Watching
      <4>2. Cardinality(Watching(g)') = Cardinality(Watching(g)) + 1
        BY <1>2, <4>1, FS_AddElement
      <4>3. permits'[g] = permits[g] - 1
        BY <2>2, <3>2 DEF TypeInv, TypeOK, StoreType
      <4>4. QED
        BY <1>1, <1>2, <4>2, <4>3, ShareAssumption
    <3>3. QED
      BY <3>1, <3>2
  <2>3. CASE /\ Leased(v) /\ ~Leased(v)' /\ lease'[v] = lease[v]
             /\ permits' = [permits EXCEPT ![lease[v]] = @ + 1]
    <3>1. CASE lease[v] # g
      <4>1. Watching(g)' = Watching(g)
        BY <2>0, <2>3, <3>1 DEF Watching
      <4>2. permits'[g] = permits[g]
        BY <2>3, <3>1 DEF TypeInv, TypeOK, StoreType
      <4>3. QED
        BY <1>1, <4>1, <4>2
    <3>2. CASE lease[v] = g
      <4>1. Watching(g)' = Watching(g) \ {v} /\ v \in Watching(g)
        BY <2>0, <2>3, <3>2 DEF Watching
      <4>2. Cardinality(Watching(g)') = Cardinality(Watching(g)) - 1
        BY <1>2, <4>1, FS_RemoveElement
      <4>3. permits'[g] = permits[g] + 1
        BY <2>3, <3>2 DEF TypeInv, TypeOK, StoreType
      <4>4. QED
        BY <1>1, <1>2, <4>2, <4>3, ShareAssumption
    <3>3. QED
      BY <3>1, <3>2
  <2>4. QED
    BY <1>4, <2>1, <2>2, <2>3, PermitStep
<1>5. QED
  BY <1>3, <1>4 DEF Next, VBridge

\* However viewers are admitted, refused after the lease, cut off or leave, a
\* link's free permits and its viewers add up to the cap.
THEOREM PermitsBalancedHolds == Spec => []PermitsBalanced
<1>1. Init => PermitsBalanced
  <2> SUFFICES ASSUME Init, NEW g \in Id PROVE permits[g] + Cardinality(Watching(g)) = MaxViewers
    BY DEF PermitsBalanced
  <2>1. Watching(g) = {}
    BY DEF Init, Watching, Leased
  <2>2. QED
    BY <2>1, FS_EmptySet, ShareAssumption DEF Init
<1>2. TypeInv /\ PermitsBalanced /\ [Next]_vars => PermitsBalanced'
  BY BalancedStep
<1>3. QED
  BY <1>1, <1>2, TypeInit, TypeStep, PTL DEF Spec

----------------------------------------------------------------------------
(* The store. *)

\* The induction step for the cap on a user's grants.
LEMMA GrantCapStep ==
  ASSUME TypeInv, GrantCap, [Next]_vars
  PROVE  GrantCap'
<1> SUFFICES ASSUME NEW x \in User PROVE Cardinality(Owned(x)') <= MaxGrants
  BY DEF GrantCap
<1>1. IsFiniteSet(Owned(x)) /\ Cardinality(Owned(x)) \in Nat /\ Cardinality(Owned(x)) <= MaxGrants
  <2>1. Owned(x) \in SUBSET Id
    BY DEF Owned, TypeInv, TypeOK, StoreType
  <2>2. IsFiniteSet(Id)
    BY FS_Interval, ShareAssumption DEF Id
  <2>3. IsFiniteSet(Owned(x))
    BY <2>1, <2>2, FS_Subset
  <2>4. QED
    BY <2>3, FS_CardinalityType DEF GrantCap
<1>2. ASSUME Owned(x)' \in SUBSET Owned(x) PROVE Cardinality(Owned(x)') <= MaxGrants
  <2>1. Cardinality(Owned(x)') <= Cardinality(Owned(x)) /\ IsFiniteSet(Owned(x)')
    BY <1>1, <1>2, FS_Subset
  <2>2. Cardinality(Owned(x)') \in Nat
    BY <2>1, FS_CardinalityType
  <2>3. QED
    BY <1>1, <2>1, <2>2, ShareAssumption
<1>3. ASSUME NEW u \in User, NEW t \in 1..MaxTtl, Create(u, t)
     PROVE  Cardinality(Owned(x)') <= MaxGrants
  <2>0. /\ \A g \in grants : token'[g].user = token[g].user
        /\ minted + 1 \notin grants /\ minted + 1 \in Id
    <3>1. minted \in Nat /\ minted + 1 \in Id /\ grants \subseteq 1..minted
      BY <1>3, ShareAssumption DEF Create, TypeInv, TypeOK, StoreType, LeaseInv, Id
    <3>2. minted + 1 \notin grants
      BY <3>1
    <3>3. token \in [Id -> [user : User, exp : Nat]] /\ grants \subseteq Id
      BY DEF TypeInv, TypeOK, StoreType
    <3>4. ASSUME NEW g \in grants PROVE token'[g].user = token[g].user
      BY <1>3, <3>2, <3>3 DEF Create
    <3>5. QED
      BY <3>1, <3>2, <3>4
  <2>1. CASE ~CreateAllowed(u) \/ x # u
    <3>1. Owned(x)' \subseteq Owned(x)
      <4>1. CASE ~CreateAllowed(u)
        BY <1>3, <4>1 DEF Create, Owned
      <4>2. CASE CreateAllowed(u) /\ x # u
        <5>1. grants' = (grants \ Pruned) \union {minted + 1} /\ token'[minted + 1].user = u
          BY <1>3, <2>0, <4>2 DEF Create, TypeInv, TypeOK, StoreType
        <5>2. QED
          BY <2>0, <4>2, <5>1 DEF Owned
      <4>3. QED
        BY <2>1, <4>1, <4>2
    <3>2. QED
      BY <1>2, <3>1
  <2>2. CASE CreateAllowed(u) /\ x = u
    <3> DEFINE K == {g \in grants \ Pruned : token[g].user = u}
    <3>1. Cardinality(K) < MaxGrants
      BY <2>2 DEF CreateAllowed, Held
    <3>2. K \in SUBSET Owned(x)
      BY <2>2 DEF Owned
    <3>3. IsFiniteSet(K)
      BY <1>1, <3>2, FS_Subset
    <3>4. grants' = (grants \ Pruned) \union {minted + 1} /\ token'[minted + 1].user = u
      BY <1>3, <2>0, <2>2 DEF Create, TypeInv, TypeOK, StoreType
    <3>5. Owned(x)' = K \union {minted + 1} /\ minted + 1 \notin K
      BY <2>0, <2>2, <3>4 DEF Owned
    <3>6. Cardinality(Owned(x)') = Cardinality(K) + 1
      BY <3>3, <3>5, FS_AddElement
    <3>7. Cardinality(K) \in Nat
      BY <3>3, FS_CardinalityType
    <3>8. QED
      BY <3>1, <3>6, <3>7, ShareAssumption
  <2>3. QED
    BY <2>1, <2>2
<1>4. CASE Sweep
  BY <1>2, <1>4 DEF Sweep, Owned
<1>5. ASSUME NEW g \in Id, Resolve(g) \/ \E u \in User : Revoke(u, g)
     PROVE  Cardinality(Owned(x)') <= MaxGrants
  BY <1>2, <1>5 DEF Resolve, Revoke, Owned
<1>6. CASE UNCHANGED <<grants, token>>
  BY <1>2, <1>6 DEF Owned
<1>7. CASE Clock \/ UNCHANGED vars
  BY <1>6, <1>7 DEF Clock, Tick, SetClock, Settable, vars, storeVars
<1>8. ASSUME NEW v \in Viewer, VBridge(v) PROVE Cardinality(Owned(x)') <= MaxGrants
  BY <1>6, <1>8, BridgeStep DEF storeVars
<1>9. QED
  BY <1>3, <1>4, <1>5, <1>7, <1>8 DEF Next, Store, VBridge

\* create() never lets a user hold more grants than the cap, pruning included.
THEOREM GrantCapHolds == Spec => []GrantCap
<1>1. Init => GrantCap
  <2> SUFFICES ASSUME Init, NEW u \in User PROVE Cardinality(Owned(u)) <= MaxGrants
    BY DEF GrantCap
  <2>1. Owned(u) = {}
    BY DEF Init, Owned
  <2>2. QED
    BY <2>1, FS_EmptySet, ShareAssumption
<1>2. TypeInv /\ GrantCap /\ [Next]_vars => GrantCap'
  BY GrantCapStep
<1>3. QED
  BY <1>1, <1>2, TypeInit, TypeStep, PTL DEF Spec

\* The induction step for grants that leave the map.
LEMMA ToldStep ==
  ASSUME TypeInv, ToldWhenGone, [Next]_vars
  PROVE  ToldWhenGone'
<1> USE DEF ToldWhenGone
<1>0. 1..minted \subseteq Id /\ revoked \in [Id -> BOOLEAN] /\ minted \in Nat
  BY ShareAssumption DEF TypeInv, TypeOK, StoreType, Id
<1>1. ASSUME NEW u \in User, NEW t \in 1..MaxTtl, Create(u, t) PROVE ToldWhenGone'
  <2> SUFFICES ASSUME NEW g \in 1..minted', g \notin grants' PROVE revoked'[g]
    OBVIOUS
  <2>1. CASE CreateAllowed(u)
    <3>1. minted' = minted + 1 /\ grants' = (grants \ Pruned) \union {minted + 1}
      BY <1>1, <2>1 DEF Create
    <3>2. g \in 1..minted
      BY <1>0, <3>1
    <3>3. QED
      BY <1>0, <1>1, <3>1, <3>2 DEF Create, PruneRevoked
  <2>2. CASE ~CreateAllowed(u)
    BY <1>0, <1>1, <2>2 DEF Create, PruneRevoked
  <2>3. QED
    BY <2>1, <2>2
<1>2. CASE Sweep
  BY <1>0, <1>2 DEF Sweep, PruneRevoked
<1>3. ASSUME NEW g \in Id, Resolve(g) \/ \E u \in User : Revoke(u, g) PROVE ToldWhenGone'
  BY <1>0, <1>3 DEF Resolve, Revoke, PruneRevoked
<1>4. CASE Clock \/ UNCHANGED vars
  BY <1>4 DEF Clock, Tick, SetClock, Settable, vars, storeVars
<1>5. ASSUME NEW v \in Viewer, VBridge(v) PROVE ToldWhenGone'
  BY <1>5, BridgeStep DEF storeVars
<1>6. QED
  BY <1>1, <1>2, <1>3, <1>4, <1>5 DEF Next, Store, VBridge

\* Every path that prunes the map tells the viewers first.
THEOREM ToldWhenGoneHolds == Spec => []ToldWhenGone
<1>1. Init => ToldWhenGone
  BY DEF Init, ToldWhenGone
<1>2. TypeInv /\ ToldWhenGone /\ [Next]_vars => ToldWhenGone'
  BY ToldStep
<1>3. QED
  BY <1>1, <1>2, TypeInit, TypeStep, PTL DEF Spec
==============================================================================
