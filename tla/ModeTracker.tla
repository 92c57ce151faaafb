----------------------------- MODULE ModeTracker -----------------------------
(***************************************************************************)
(* The terminal modes a full replay must start from (terminals.rs).  The   *)
(* ring forgets the oldest output; a scanner fed with exactly the bytes it *)
(* forgets knows which modes they left set, and synth() puts them at the   *)
(* head of a replay.  A byte is a model byte: a mode number is one of      *)
(* them, and so a parameter is never cut in two, but a sequence may be cut *)
(* anywhere.                                                               *)
(***************************************************************************)
EXTENDS Integers, Sequences, FiniteSets, SequencesExt

CONSTANTS
  AltMode,    \* the numbers that switch to the alternate screen: 47, 1047, 1049
  FlagMode,   \* the other tracked numbers: cursor keys, cursor, paste, mouse
  ModeWrites, \* what a shell writes at a time: sequences of bytes
  RingCap,    \* the ring's capacity in bytes
  CsiCap,     \* parameter bytes the scanner keeps (32)
  MaxWrites   \* bound: writes made

ASSUME ModeAssumption ==
  /\ RingCap \in Nat \ {0} /\ CsiCap \in Nat /\ MaxWrites \in Nat
  /\ IsFiniteSet(AltMode) /\ IsFiniteSet(FlagMode)
  /\ (AltMode \cup FlagMode) \cap {"?", ";", "esc", "[", "h", "l", "c", "m", "x", "nl"} = {}

VARIABLES
  pending,  \* written by the shell, not yet read from the PTY
  ring,     \* Scrollback.buf
  front,    \* Scrollback.front_state
  watcher,  \* the terminal of a client that has seen every byte
  writes,   \* writes made so far
  resetGone \* checking only: a full reset has left the ring

modeVars == <<pending, ring, front, watcher, writes, resetGone>>

NoAlt == "primary"
Params == AltMode \cup FlagMode \cup {"?", ";"}
ModeByte == Params \cup {"esc", "[", "h", "l", "c", "m", "x", "nl"}

\* A shell writes bytes.
ASSUME WritesAssumption == ModeWrites \subseteq Seq(ModeByte)

Fresh == [scan |-> "ground", buf |-> <<>>, alt |-> NoAlt, flags |-> {}]

----------------------------------------------------------------------------
(* The scanner. *)

\* One parameter of a private sequence, set (h) or reset (l).
ApplyMode(t, p, set) ==
  CASE p \in AltMode  -> [t EXCEPT !.alt = IF set THEN p ELSE NoAlt]
    [] p \in FlagMode -> [t EXCEPT !.flags = IF set THEN @ \cup {p} ELSE @ \ {p}]
    [] OTHER          -> t

\* dispatch(): only a final h or l after a leading "?" changes anything.
Dispatch(t, final) ==
  IF final \in {"h", "l"} /\ t.buf # <<>> /\ Head(t.buf) = "?"
  THEN FoldLeft(LAMBDA u, p : ApplyMode(u, p, final = "h"), t, Tail(t.buf))
  ELSE t

Keep(buf, b) == IF Len(buf) < CsiCap THEN Append(buf, b) ELSE buf

Ground(t)    == [t EXCEPT !.scan = "ground", !.buf = <<>>]
Escaped(t)   == [t EXCEPT !.scan = "esc", !.buf = <<>>]

ScanByte(t, b) ==
  CASE b = "esc"                       -> Escaped(t)
    [] b # "esc" /\ t.scan = "ground"  -> t
    [] b = "[" /\ t.scan = "esc"       -> [t EXCEPT !.scan = "csi"]
    [] b \notin {"esc", "["} /\ t.scan = "esc" -> Ground(t)
    [] b \in Params /\ t.scan = "csi"  -> [t EXCEPT !.buf = Keep(@, b)]
    [] b = "nl" /\ t.scan = "csi"      -> t
    [] OTHER                           -> Ground(Dispatch(t, b))

\* feed(), which keeps its position between calls; one that does not.
FeedAfresh(t, bytes) == FoldLeft(ScanByte, Ground(t), bytes)
Feed(t, bytes) == FoldLeft(ScanByte, t, bytes)

\* A client's terminal does the same, and a full reset (ESC c) besides, which the
\* scanner takes for any other escape.
TermByte(t, b) == IF t.scan = "esc" /\ b = "c" THEN Fresh ELSE ScanByte(t, b)
Show(t, bytes) == FoldLeft(TermByte, t, bytes)

\* The bytes, read from t on, end a full reset.
ResetIn(t, bytes) ==
  \E i \in 1..Len(bytes) :
    bytes[i] = "c" /\ IF i = 1 THEN t.scan = "esc" ELSE bytes[i - 1] = "esc"

----------------------------------------------------------------------------
(* The ring. *)

\* synth(): a reset terminal that is then told each mode that is on.
Synth(t) == [Fresh EXCEPT !.alt = t.alt, !.flags = t.flags]

\* What a client shows after a full replay.
Replayed == Show(Synth(front), ring)

ModeInit ==
  /\ pending = <<>> /\ ring = <<>> /\ writes = 0
  /\ front = Fresh /\ watcher = Fresh /\ resetGone = FALSE

ShellWrites(s) ==
  /\ writes < MaxWrites
  /\ writes' = writes + 1
  /\ pending' = pending \o s
  /\ UNCHANGED <<ring, front, watcher, resetGone>>

\* push(): a read of n bytes, cut wherever the PTY cut it.
RingPush(n) ==
  LET data == SubSeq(pending, 1, n)
      all  == ring \o data
      over == IF Len(all) > RingCap THEN Len(all) - RingCap ELSE 0
      evicted == SubSeq(all, 1, over)
  IN /\ n <= Len(pending)
     /\ ring' = SubSeq(all, over + 1, Len(all))
     /\ front' = Feed(front, evicted)
     /\ resetGone' = (resetGone \/ ResetIn(front, evicted))
     /\ watcher' = Show(watcher, data)
     /\ pending' = SubSeq(pending, n + 1, Len(pending))
     /\ UNCHANGED writes

ModeNext ==
  \/ \E s \in ModeWrites : ShellWrites(s)
  \/ \E n \in 1..Len(pending) : RingPush(n)

ModeSpec == ModeInit /\ [][ModeNext]_modeVars

----------------------------------------------------------------------------
(* Properties. *)

\* Types, and the bound on what the scanner keeps of an endless sequence.
ModeTypeOK ==
  LET Terminal == [scan : {"ground", "esc", "csi"}, buf : Seq(Params),
                   alt : AltMode \cup {NoAlt}, flags : SUBSET FlagMode]
  IN /\ ring \in Seq(ModeByte) /\ Len(ring) <= RingCap
     /\ front \in Terminal /\ watcher \in Terminal /\ Len(front.buf) <= CsiCap
     /\ pending \in Seq(ModeByte) /\ writes \in 0..MaxWrites /\ resetGone \in BOOLEAN

\* A client that joins now and gets a full replay is in the modes of one that
\* saw every byte.
SameModes == Replayed.alt = watcher.alt /\ Replayed.flags = watcher.flags

\* It is, however reads and evictions cut the sequences, full resets in the ring
\* included, as long as the ring does not begin inside a sequence and no full
\* reset has left it.
ModesReinstated == front.scan = "ground" /\ ~resetGone => SameModes

\* "Which modes did the trimmed-away prefix leave enabled?": the scanner answers
\* for every prefix, one with a full reset in it too.
PrefixModes == front.scan = "ground" => SameModes

\* "Sequences routinely straddle eviction boundaries": a replay that begins inside
\* one reinstates the modes all the same.
CutReinstated == ~resetGone => SameModes
=============================================================================
