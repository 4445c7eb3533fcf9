----------------------------- MODULE ThreadText -----------------------------
(***************************************************************************)
(* What the delivery funnel promises of a thread (backend/app/main.py,     *)
(* "nothing the agent says is ever silently dropped"): what can be read    *)
(* there only ever grows.  A wording may be there abridged first and       *)
(* complete later, never the other way round and never not at all, until   *)
(* the thread itself is deleted.  DeliveryFunnel implements this module.   *)
(***************************************************************************)
EXTENDS Naturals

CONSTANT Words          \* the wordings the agent uses

VARIABLES
    shown,              \* the texts that can be read in the thread
    alive               \* the thread exists

threadVars == <<shown, alive>>

\* One recording of a wording: its abridged form is 1, the complete one 2.
Texts == [words : Words, len : 1 .. 2]

\* Whoever reads a text has also read every shorter form of it.
ReadIn(text) == {t \in Texts : t.words = text.words /\ t.len <= text.len}

ThreadInit == shown = {} /\ alive = TRUE

Say ==
    /\ alive
    /\ \E text \in Texts : shown' = shown \cup ReadIn(text)
    /\ UNCHANGED alive

Discard ==
    /\ alive
    /\ alive' = FALSE
    /\ shown' = {}

ThreadNext == Say \/ Discard

ThreadSpec == ThreadInit /\ [][ThreadNext]_threadVars
=============================================================================
