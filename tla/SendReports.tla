---------------------------- MODULE SendReports ----------------------------
(***************************************************************************)
(* All that a caller of send() sees of it (espnow_component.h:123-131): a   *)
(* request that is refused is told so at once; one that is accepted waits,  *)
(* behind those accepted before it, and is told once, if it is told at all. *)
(* EspNow implements this.                                                  *)
(***************************************************************************)
EXTENDS Sequences, SequencesExt

CONSTANT Requests

VARIABLES
    waiting,   \* the accepted requests that have been told nothing yet
    told       \* what each request has been told, or "none"

reportVars == <<waiting, told>>

Init == waiting = <<>> /\ told = [r \in Requests |-> "none"]

Fresh(r) == told[r] = "none" /\ r \notin ToSet(waiting)

Accept(r) ==
    /\ Fresh(r)
    /\ waiting' = Append(waiting, r)
    /\ UNCHANGED told

Refuse(r) ==
    /\ Fresh(r)
    /\ told' = [told EXCEPT ![r] = "error"]
    /\ UNCHANGED waiting

\* The request that has waited longest is told.
Report(status) ==
    /\ waiting # <<>>
    /\ told' = [told EXCEPT ![Head(waiting)] = status]
    /\ waiting' = Tail(waiting)

Next ==
    \/ \E r \in Requests : Accept(r) \/ Refuse(r)
    \/ \E status \in {"ok", "error"} : Report(status)

Spec == Init /\ [][Next]_reportVars
=============================================================================
