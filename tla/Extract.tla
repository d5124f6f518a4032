------------------------------ MODULE Extract -------------------------------
(***************************************************************************)
(* What desync extract promises whoever uses the file it writes, however   *)
(* many seeds, workers and stores are behind it and however it ends.       *)
(* Through a temporary file, the output is replaced in one step, by the    *)
(* whole blob and when extract succeeds; a run that fails or dies leaves   *)
(* it as it was.  In place the output is anything while extract runs, it   *)
(* keeps what it has when a run fails, and it is the blob when one         *)
(* succeeds.  Nothing is promised of a run that was interrupted except     *)
(* that it replaces the output in one step or not at all.                  *)
(***************************************************************************)
VARIABLES
    inPlace,        \* the output is written directly
    phase,          \* "running", "ok", "failed" or "killed"
    output,         \* "old": not touched, "blob": the blob, "other"
    interrupted     \* SIGINT was sent to this run

vars == <<inPlace, phase, output, interrupted>>

Init ==
    /\ inPlace \in BOOLEAN
    /\ phase = "running"
    /\ output \in IF inPlace THEN {"blob", "other"} ELSE {"old"}
    /\ interrupted = FALSE

\* Data is written in place.
Write ==
    /\ phase = "running" /\ inPlace
    /\ output' \in {"blob", "other"}
    /\ UNCHANGED <<inPlace, phase, interrupted>>

Interrupt ==
    /\ phase = "running"
    /\ interrupted' = TRUE
    /\ UNCHANGED <<inPlace, phase, output>>

\* In place the output is what it has become; otherwise it is replaced now.
Succeed ==
    /\ phase = "running" /\ phase' = "ok"
    /\ output' \in IF inPlace THEN {output} ELSE {"blob", "other"}
    /\ output' = "blob" \/ interrupted
    /\ UNCHANGED <<inPlace, interrupted>>

Fail ==
    /\ phase = "running" /\ phase' = "failed"
    /\ UNCHANGED <<inPlace, output, interrupted>>

\* The process dies, and writes that were under way are torn.
Die ==
    /\ phase = "running" /\ phase' = "killed"
    /\ output' = output \/ (inPlace /\ output' = "other")
    /\ UNCHANGED <<inPlace, interrupted>>

\* Extract is started again.
Restart ==
    /\ phase \in {"failed", "killed"} /\ phase' = "running"
    /\ interrupted' = FALSE
    /\ UNCHANGED <<inPlace, output>>

Next == Write \/ Interrupt \/ Succeed \/ Fail \/ Die \/ Restart

Spec == Init /\ [][Next]_vars
=============================================================================
