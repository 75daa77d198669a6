--------------------------- MODULE MCToolJournal ---------------------------
(* The instance of ToolJournal for TLC: two writes and a read, each of which *)
(* may be delivered again with other arguments, served by two requests.      *)
EXTENDS ToolJournal, TLC

\* OneLegacy starts from a call completed under the older key (see the README).
NoLegacy == {}
OneLegacy == {<<"write1", "a1">>}

WorkerSymmetry == Permutations(Workers)
=============================================================================
