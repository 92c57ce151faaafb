--------------------------- MODULE MCModeTracker ---------------------------
(* ModeTracker for TLC, with a shell that runs `reset`. *)
EXTENDS ModeTracker

MCResets == {<<"esc", "[", "?", "1006", "h">>, <<"esc", "c">>, <<"x">>}
=============================================================================
