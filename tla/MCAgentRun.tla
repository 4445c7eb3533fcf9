----------------------------- MODULE MCAgentRun -----------------------------
(* Model values for AgentRun: an ordinary tool and a destructive one.       *)
EXTENDS AgentRun

CONSTANTS read, shell

MCTools == {read, shell}
MCAlwaysAsk == {shell}

\* One ordinary tool; a destructive one only changes what can be granted.
MCOneTool == {read}
MCNone == {}
=============================================================================
