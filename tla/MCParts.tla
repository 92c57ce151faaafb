------------------------------ MODULE MCParts ------------------------------
(* The parts that keep to themselves, for TLC in one run: `part` is chosen *)
(* at the start, and only that part takes steps, so the state space is the *)
(* sum of theirs.                                                          *)
EXTENDS SessionStore, DeviceStore, EnrollmentStore, LoginGuard, ReplayGuard,
        ModeTracker, MCStartup, MuxConnection, TerminalLife

VARIABLE part

\* A private mode set and reset in one sequence each, alone or with another, a
\* style, a full reset, and text.
MCWrites == {<<"esc", "[", "?", "1049", "h">>, <<"esc", "[", "?", "1049", ";", "1006", "l">>,
             <<"esc", "[", "?", "1006", "h">>, <<"x">>, <<"esc", "[", "m">>, <<"esc", "c">>}

PartsInit ==
  /\ part \in {"sessions", "devices", "enrollments", "guard", "codes", "modes", "startup", "mux", "life"}
  /\ SessInit /\ DevInit /\ EnrInit /\ GuardInit /\ ReplayInit /\ ModeInit /\ MuxInit /\ Init
  /\ (part = "devices" \/ devCap = CHOOSE c \in DevCaps : TRUE)
  /\ BootInit /\ (part = "startup" \/ settings = Working)

\* The type invariants of all parts but TerminalLife, which has its own.
PartsTypeOK ==
  /\ SessTypeOK /\ DevTypeOK /\ EnrTypeOK /\ GuardTypeOK /\ ReplayTypeOK
  /\ ModeTypeOK /\ StartupTypeOK /\ MuxTypeOK

Rests(p, v) == IF part = p THEN TRUE ELSE UNCHANGED v

PartsNext ==
  /\ UNCHANGED part
  /\ Rests("sessions", sessVars) /\ Rests("devices", devVars) /\ Rests("enrollments", enrVars)
  /\ Rests("guard", guardVars) /\ Rests("codes", replayVars) /\ Rests("modes", modeVars)
  /\ Rests("startup", bootVars) /\ Rests("mux", muxVars) /\ Rests("life", vars)
  /\ \/ part = "sessions" /\ SessNext
     \/ part = "devices" /\ DevNext
     \/ part = "enrollments" /\ EnrNext
     \/ part = "guard" /\ GuardNext
     \/ part = "codes" /\ ReplayNext
     \/ part = "modes" /\ ModeNext
     \/ part = "startup" /\ BootNext
     \/ part = "mux" /\ MuxNext
     \/ part = "life" /\ Next

PartsSpec == PartsInit /\ [][PartsNext]_<<part, sessVars, devVars, enrVars, guardVars, replayVars,
                                          modeVars, bootVars, muxVars, vars>>
=============================================================================
