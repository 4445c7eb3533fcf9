---------------------------- MODULE MCImageJobs ----------------------------
(***************************************************************************)
(* Small instances of ImageJobs for TLC.                                   *)
(***************************************************************************)
EXTENDS ImageJobs

CONSTANTS first, second

TwoJobs == {first, second}

Extra(asks, submits, callbacks, deletes, crashes) ==
    [ask |-> asks, submit |-> submits, callback |-> callbacks,
     delete |-> deletes, crash |-> crashes]

\* Two requests, both submitted, or one superseding the other with a callback;
\* or one whose render is tried again, with a lost answer and a callback, or
\* with a delete and a crash.
LongAndShort == {Extra(2, 2, 0, 0, 0), Extra(2, 1, 1, 0, 0),
                 Extra(1, 3, 1, 0, 0), Extra(1, 2, 0, 1, 1)}
=============================================================================
