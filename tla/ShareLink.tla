----------------------------- MODULE ShareLink -----------------------------
(***************************************************************************)
(* Read-only share links: the grant store of share.rs, the admission of a  *)
(* viewer in access_ws (main.rs) and the viewer's bridge in pty.rs with    *)
(* the ViewerOutput guard every frame goes through.  A token is the id of  *)
(* its grant (the HMAC makes it unforgeable); a frame has no content.      *)
(***************************************************************************)
EXTENDS Integers, FiniteSets

CONSTANTS
  User,        \* owners of grants
  Viewer,      \* viewer sockets
  MaxGrants,   \* MAX_GRANTS_PER_USER (32 in the code)
  MaxViewers,  \* MAX_VIEWERS_PER_GRANT (32 in the code)
  MaxId,       \* bound: grants minted
  MaxTtl,      \* bound: seconds a grant is valid
  MaxTime,     \* bound: seconds on either clock
  MaxBurst,    \* bound: frames one select! arm sends (pending output, redraw)
  MaySetBack   \* whether the wall clock may be set back as well as forward

ASSUME ShareAssumption ==
  /\ IsFiniteSet(Viewer)
  /\ MaxGrants \in Nat \ {0} /\ MaxViewers \in Nat \ {0} /\ MaxId \in Nat /\ MaxTtl \in Nat
  /\ MaxTime \in Nat /\ MaxBurst \in Nat /\ MaySetBack \in BOOLEAN

VARIABLES
  wall,     \* SystemTime, in seconds
  mono,     \* the monotonic clock timers run on
  minted,   \* grants minted so far
  token,    \* owner and expiry signed into each token
  grants,   \* ids in the store's map
  revoked,  \* value of each grant's watch
  permits,  \* free permits of each grant's semaphore
  pc,       \* where a viewer's connection stands
  lease,    \* the grant its lease is on
  timer,    \* the expiry timer armed when its bridge started
  writeBy,  \* the lease deadline of the frame being written
  left,     \* frames left to send before the loop selects again
  late      \* frames delivered although the lease was no longer valid, up to LateSeen

vars == <<wall, mono, minted, token, grants, revoked, permits, pc, lease, timer, writeBy, left, late>>
storeVars  == <<minted, token, grants, revoked>>
viewerVars == <<pc, lease, timer, writeBy, left, late>>
clockVars  == <<wall, mono>>

Id   == 1..MaxId
NoId == 0

\* Bound: late frames are counted this far.
LateSeen == 2

Expired(g) == wall >= token[g].exp

\* A dropped sender counts as revoked, and stays dropped.
Revoked(g) == revoked[g] \/ g \notin grants

\* The predicate every viewer frame is gated on.
Valid(v) == ~Expired(lease[v]) /\ ~Revoked(lease[v])

\* Lease::deadline(): the wall time left, put on the monotonic clock.
Deadline(g) == mono + (IF Expired(g) THEN 0 ELSE token[g].exp - wall)

----------------------------------------------------------------------------
(* The grant store. *)

\* prune_expired(): viewers are told, then the grant goes.
Pruned == {g \in grants : Expired(g)}
PruneSilent(G) == revoked
PruneRevoked(G) == [g \in Id |-> revoked[g] \/ g \in G]

Held(u) == Cardinality({g \in grants \ Pruned : token[g].user = u})

CreateOverCap(u) == Held(u) <= MaxGrants
CreateAllowed(u) == Held(u) < MaxGrants

Create(u, ttl) ==
  /\ minted < MaxId
  /\ revoked' = PruneRevoked(Pruned)
  /\ IF CreateAllowed(u)
     THEN /\ minted' = minted + 1
          /\ token' = [token EXCEPT ![minted + 1] = [user |-> u, exp |-> wall + ttl]]
          /\ grants' = (grants \ Pruned) \union {minted + 1}
     ELSE grants' = grants \ Pruned /\ UNCHANGED <<minted, token>>
  /\ UNCHANGED <<permits, clockVars, viewerVars>>

\* sweep(), and the pruning list() does first.
Sweep ==
  /\ Pruned # {}
  /\ revoked' = PruneRevoked(Pruned)
  /\ grants' = grants \ Pruned
  /\ UNCHANGED <<minted, token, permits, clockVars, viewerVars>>

\* resolve() of an expired token prunes its grant on the way out.
Resolve(g) ==
  /\ g \in grants /\ Expired(g)
  /\ revoked' = PruneRevoked({g})
  /\ grants' = grants \ {g}
  /\ UNCHANGED <<minted, token, permits, clockVars, viewerVars>>

Revoke(u, g) ==
  /\ g \in grants /\ token[g].user = u
  /\ revoked' = PruneRevoked({g})
  /\ grants' = grants \ {g}
  /\ UNCHANGED <<minted, token, permits, clockVars, viewerVars>>

----------------------------------------------------------------------------
(* Admission: access_ws and lease(). *)

Goto(v, l) == pc' = [pc EXCEPT ![v] = l]

\* The viewer's connection is over and its lease, permit included, dropped.
Leave(v) ==
  /\ Goto(v, "gone")
  /\ permits' = [permits EXCEPT ![lease[v]] = @ + 1]

\* The expiry is looked at before the store is locked.
LeaseCheck(v, g) ==
  /\ pc[v] = "off" /\ g <= minted /\ ~Expired(g)
  /\ lease' = [lease EXCEPT ![v] = g]
  /\ Goto(v, "lookup")
  /\ UNCHANGED <<storeVars, clockVars, permits, timer, writeBy, left, late>>

LeaseOverCap(v) ==
  /\ pc[v] = "lookup" /\ lease[v] \in grants
  /\ permits' = [permits EXCEPT ![lease[v]] = @ - 1]
  /\ Goto(v, "leased")
  /\ UNCHANGED <<storeVars, clockVars, lease, timer, writeBy, left, late>>
LeaseTake(v) ==
  /\ pc[v] = "lookup" /\ lease[v] \in grants /\ permits[lease[v]] > 0
  /\ permits' = [permits EXCEPT ![lease[v]] = @ - 1]
  /\ Goto(v, "leased")
  /\ UNCHANGED <<storeVars, clockVars, lease, timer, writeBy, left, late>>

LeaseRefused(v) ==
  /\ pc[v] = "lookup" /\ (lease[v] \notin grants \/ permits[lease[v]] = 0)
  /\ Goto(v, "gone")
  /\ UNCHANGED <<storeVars, clockVars, permits, lease, timer, writeBy, left, late>>

\* The origin is not allowed, the slot is not running, or the socket is never
\* upgraded.
RefusedLeak(v) ==
  /\ pc[v] = "leased"
  /\ Goto(v, "gone")
  /\ UNCHANGED <<storeVars, clockVars, permits, lease, timer, writeBy, left, late>>
Refused(v) ==
  /\ pc[v] = "leased"
  /\ Leave(v)
  /\ UNCHANGED <<storeVars, clockVars, lease, timer, writeBy, left, late>>

\* bridge() starts, however late: the timer is armed, hello and replay are due.
BridgeStart(v) ==
  /\ pc[v] = "leased"
  /\ timer' = [timer EXCEPT ![v] = Deadline(lease[v])]
  /\ left' = [left EXCEPT ![v] = 2]
  /\ Goto(v, "send")
  /\ UNCHANGED <<storeVars, clockVars, permits, lease, writeBy, late>>

----------------------------------------------------------------------------
(* ViewerOutput: one frame. *)

SendRefused(v) ==
  /\ pc[v] = "send" /\ ~Valid(v)
  /\ Goto(v, "closing")
  /\ UNCHANGED <<storeVars, clockVars, permits, lease, timer, writeBy, left, late>>

SendUnguarded(v) ==
  /\ pc[v] = "send"
  /\ writeBy' = [writeBy EXCEPT ![v] = Deadline(lease[v])]
  /\ Goto(v, "write")
  /\ UNCHANGED <<storeVars, clockVars, permits, lease, timer, left, late>>
SendStart(v) ==
  /\ pc[v] = "send" /\ Valid(v)
  /\ writeBy' = [writeBy EXCEPT ![v] = Deadline(lease[v])]
  /\ Goto(v, "write")
  /\ UNCHANGED <<storeVars, clockVars, permits, lease, timer, left, late>>

\* The peer took the frame.
WriteDone(v) ==
  /\ pc[v] = "write"
  /\ late' = [late EXCEPT ![v] = IF Valid(v) \/ @ = LateSeen THEN @ ELSE @ + 1]
  /\ left' = [left EXCEPT ![v] = @ - 1]
  /\ Goto(v, IF left[v] > 1 THEN "send" ELSE "loop")
  /\ UNCHANGED <<storeVars, clockVars, permits, lease, timer, writeBy>>

\* The write loses its race: to the peer's end, or to the stall limit.
WriteLost(v) ==
  /\ pc[v] = "write"
  /\ Leave(v)
  /\ UNCHANGED <<storeVars, clockVars, lease, timer, writeBy, left, late>>

\* It loses to the lease's end, as the deadline of this frame or the watch tells it.
WriteCut(v) ==
  /\ pc[v] = "write" /\ (mono >= writeBy[v] \/ Revoked(lease[v]))
  /\ Leave(v)
  /\ UNCHANGED <<storeVars, clockVars, lease, timer, writeBy, left, late>>

\* close(): a peer that does not read is given up on after a grace period.
CloseDone(v) ==
  /\ pc[v] = "closing"
  /\ Leave(v)
  /\ UNCHANGED <<storeVars, clockVars, lease, timer, writeBy, left, late>>

----------------------------------------------------------------------------
(* The bridge's biased select!. *)

TimerFired(v) == mono >= timer[v]
MustEnd(v)    == TimerFired(v) \/ Revoked(lease[v])

LoopEnd(v) ==
  /\ pc[v] = "loop" /\ MustEnd(v)
  /\ Goto(v, "closing")
  /\ UNCHANGED <<storeVars, clockVars, permits, lease, timer, writeBy, left, late>>

\* The audit tick catches a lease that ended without an event.
LoopAuditBlind(v) == FALSE
LoopAudit(v) ==
  /\ pc[v] = "loop" /\ ~MustEnd(v) /\ ~Valid(v)
  /\ Goto(v, "closing")
  /\ UNCHANGED <<storeVars, clockVars, permits, lease, timer, writeBy, left, late>>

\* Output or a redraw, behind the arms that end the stream.
LoopFrames(v, n) ==
  /\ pc[v] = "loop" /\ ~MustEnd(v)
  /\ left' = [left EXCEPT ![v] = n]
  /\ Goto(v, "send")
  /\ UNCHANGED <<storeVars, clockVars, permits, lease, timer, writeBy, late>>

\* The shell died or was reset, or the receiver lagged: a close frame is sent.
LoopClosed(v) ==
  /\ pc[v] = "loop" /\ ~MustEnd(v)
  /\ Goto(v, "closing")
  /\ UNCHANGED <<storeVars, clockVars, permits, lease, timer, writeBy, left, late>>

\* The peer closed the socket.
LoopGone(v) ==
  /\ pc[v] = "loop" /\ ~MustEnd(v)
  /\ Leave(v)
  /\ UNCHANGED <<storeVars, clockVars, lease, timer, writeBy, left, late>>

----------------------------------------------------------------------------
(* The clocks. *)

Tick ==
  /\ wall < MaxTime /\ mono < MaxTime
  /\ wall' = wall + 1 /\ mono' = mono + 1
  /\ UNCHANGED <<storeVars, permits, viewerVars>>

Settable == {t \in 0..MaxTime : t > wall \/ MaySetBack}

\* Someone sets the wall clock.
SetClock(t) ==
  /\ t \in Settable
  /\ wall' = t
  /\ UNCHANGED <<mono, storeVars, permits, viewerVars>>

----------------------------------------------------------------------------
Init ==
  /\ wall = 0 /\ mono = 0 /\ minted = 0
  /\ token \in {[g \in Id |-> [user |-> u, exp |-> 0]] : u \in User}
  /\ grants = {}
  /\ revoked = [g \in Id |-> FALSE]
  /\ permits = [g \in Id |-> MaxViewers]
  /\ pc = [v \in Viewer |-> "off"]
  /\ lease = [v \in Viewer |-> NoId]
  /\ timer = [v \in Viewer |-> 0]
  /\ writeBy = [v \in Viewer |-> 0]
  /\ left = [v \in Viewer |-> 0]
  /\ late = [v \in Viewer |-> 0]

Store ==
  \/ \E u \in User, t \in 1..MaxTtl : Create(u, t)
  \/ Sweep
  \/ \E g \in Id : Resolve(g) \/ \E u \in User : Revoke(u, g)

Admission(v) ==
  \/ \E g \in Id : LeaseCheck(v, g)
  \/ LeaseTake(v) \/ LeaseRefused(v) \/ Refused(v) \/ BridgeStart(v)

Output(v) == SendRefused(v) \/ SendStart(v) \/ WriteDone(v) \/ WriteLost(v) \/ WriteCut(v) \/ CloseDone(v)

Loop(v) ==
  \/ LoopEnd(v) \/ LoopAudit(v) \/ LoopClosed(v) \/ LoopGone(v)
  \/ \E n \in 1..MaxBurst : LoopFrames(v, n)

Clock == Tick \/ \E t \in Settable : SetClock(t)

Next == Store \/ Clock \/ \E v \in Viewer : Admission(v) \/ Output(v) \/ Loop(v)

Spec == Init /\ [][Next]_vars

\* Tasks and timers run: an upgrade starts or fails, a send is checked, a write
\* ends at the stall limit at the latest, a close is given up on, and the loop's
\* ending arms, polled first, are taken.  Nothing is assumed of the peer, of the
\* sweep or of the clocks.
Fairness ==
  \A v \in Viewer :
    /\ WF_vars(Refused(v) \/ BridgeStart(v))
    /\ WF_vars(SendRefused(v) \/ SendStart(v))
    /\ WF_vars(WriteLost(v)) /\ WF_vars(WriteCut(v)) /\ WF_vars(CloseDone(v))
    /\ WF_vars(LoopEnd(v)) /\ WF_vars(LoopAudit(v))

FairSpec == Spec /\ Fairness

----------------------------------------------------------------------------
Label == {"off", "lookup", "leased", "send", "write", "loop", "closing", "gone"}

StoreType ==
  /\ wall \in Nat /\ mono \in Nat /\ minted \in 0..MaxId
  /\ token \in [Id -> [user : User, exp : Nat]]
  /\ grants \subseteq Id
  /\ revoked \in [Id -> BOOLEAN]
  /\ permits \in [Id -> Nat]

ViewerType ==
  /\ pc \in [Viewer -> Label]
  /\ lease \in [Viewer -> 0..MaxId]
  /\ timer \in [Viewer -> Nat] /\ writeBy \in [Viewer -> Nat]
  /\ left \in [Viewer -> Nat] /\ late \in [Viewer -> 0..LateSeen]

\* Every variable holds a value of the kind its Rust counterpart has; the free
\* permits of a semaphore are a natural number.
TypeOK == StoreType /\ ViewerType

Leased(v) == pc[v] \in {"leased", "send", "write", "loop", "closing"}

Watching(g) == {v \in Viewer : Leased(v) /\ lease[v] = g}
Owned(u)    == {g \in grants : token[g].user = u}

\* Once a lease has ended, by expiry, revocation or the sweep, its viewer gets
\* at most the one frame that was already being written: pending output and
\* redraws of the same select! arm stop at the guard.
LateFrames == \A v \in Viewer : late[v] <= 1

\* The cap on viewers of one link: every path out of a connection, refusals
\* after the lease included, gives its permit back, and none gives two.
PermitsBalanced ==
  \A g \in Id : permits[g] + Cardinality(Watching(g)) = MaxViewers

\* No user holds more live grants than the cap.
GrantCap == \A u \in User : Cardinality(Owned(u)) <= MaxGrants

\* Leaving the map is telling the viewers: no grant leaves silently, so a
\* viewer's revocation arm never depends on the sender being dropped alone.
ToldWhenGone == \A g \in 1..minted : g \notin grants => revoked[g]

\* A viewer whose lease has ended is disconnected by the server alone: though
\* the peer stops reading, and though the wall clock was stepped past the
\* expiry so that the timer is late.
ViewerEnds == \A v \in Viewer : (Leased(v) /\ ~Valid(v)) ~> ~Leased(v)

\* "Once false it can never become true again" (Lease::valid).
ValidityFinal ==
  [][\A v \in Viewer : Leased(v) /\ Leased(v)' /\ ~Valid(v) => ~Valid(v)']_vars
============================================================================
