----------------------------- MODULE MCChatTurn -----------------------------
(***************************************************************************)
(* ChatTurn with one turn among the consultations of another request.      *)
(***************************************************************************)
EXTENDS ChatTurn

CONSTANTS t1, t2

MCTurns == {t1, t2}
MCFollowed == {t1}
MCCodes == {"ok", "stale", "incomplete"}
MCPolicies == {{}, {"stale"}}
MCFaults == {"llm", "database"}
=============================================================================
