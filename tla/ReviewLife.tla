----------------------------- MODULE ReviewLife -----------------------------
(* What a review promises to whoever reads its record: it runs at most     *)
(* once; the record is COMPLETE only if the run's last tool call returned; *)
(* a verdict is final while the server lives, unless a cancellation was    *)
(* asked for during the run; and a server that starts again may doubt a    *)
(* verdict, but gives none itself except ABORTED.                          *)
CONSTANT Verdicts   \* the terminal statuses

VARIABLES
    record,   \* "open", a verdict, or "QUARANTINED"
    phase,    \* "planned", "running", "unsettled", "settled" or "dead"
    asked,    \* a cancellation was asked for
    tool      \* the action receipt of the last tool call

vars == <<record, phase, asked, tool>>

Init == record = "open" /\ phase = "planned" /\ asked = FALSE /\ tool = "none"

Settles == phase' \in {"unsettled", "settled"} /\ (phase' = "settled" => record' \in Verdicts)
Resolves == record' \in {"open", "ABORTED", "QUARANTINED"}

Ask == asked' = TRUE /\ UNCHANGED <<record, phase, tool>>

Begin == phase = "planned" /\ phase' = "running" /\ UNCHANGED <<record, asked, tool>>

(* Cancelled or cleaned up before it is run.                               *)
Drop == phase = "planned" /\ Settles /\ Resolves /\ UNCHANGED <<asked, tool>>

Use ==
    /\ phase = "running" /\ tool # "started" /\ tool' = "started"
    /\ UNCHANGED <<record, phase, asked>>

Return ==
    /\ phase = "running" /\ tool = "started" /\ tool' \in {"completed", "failed"}
    /\ UNCHANGED <<record, phase, asked>>

(* The run ends with a verdict; only a cancellation keeps it from being    *)
(* recorded, or from being final.                                          *)
Conclude(verdict) ==
    /\ phase = "running" /\ tool # "started" /\ (verdict = "COMPLETE" => tool = "completed")
    /\ Settles /\ (phase' = "unsettled" => asked)
    /\ record' = verdict \/ (asked /\ record' = "open")
    /\ UNCHANGED <<asked, tool>>

(* The cancellation goes on, and a cleanup ends what it left.              *)
Settle ==
    /\ phase = "unsettled" /\ Settles
    /\ Resolves \/ UNCHANGED record
    /\ UNCHANGED <<asked, tool>>

(* The server dies; the next one recovers what was open, and quarantines   *)
(* what it doubts.                                                         *)
Die == phase' = "dead" /\ asked' = FALSE /\ UNCHANGED <<record, tool>>

Recover ==
    /\ phase = "dead" /\ Resolves /\ (record \in Verdicts => record' = "QUARANTINED")
    /\ UNCHANGED <<phase, asked, tool>>

Next ==
    \/ Ask \/ Begin \/ Drop \/ Use \/ Return \/ Settle \/ Die \/ Recover
    \/ \E verdict \in Verdicts : Conclude(verdict)

Spec == Init /\ [][Next]_vars
=============================================================================
