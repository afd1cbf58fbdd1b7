---------------------------- MODULE SendService ----------------------------
(***************************************************************************)
(* What send() of the ESP-NOW component promises its callers                *)
(* (espnow_component.h:123-131), without pools, packets, the driver or the  *)
(* loop: accepted requests go on the air in the order of the calls, one at  *)
(* a time, the next one not before the previous one has been acknowledged   *)
(* or has failed, and a request is told the fate of its own frame once, if it *)
(* is told at all.                                                          *)
(***************************************************************************)
EXTENDS Naturals, Sequences

CONSTANTS Requests, None

VARIABLES
    queue,    \* the accepted requests that have not been tried
    active,   \* the request whose frame is on the air, or None
    outcome,  \* how each request has ended so far
    verdict   \* the fate of each request's frame

serviceVars == <<queue, active, outcome, verdict>>

Init ==
    /\ queue = <<>> /\ active = None
    /\ outcome = [r \in Requests |-> "new"]
    /\ verdict = [r \in Requests |-> "none"]

Refuse(r) ==
    /\ outcome[r] = "new"
    /\ outcome' = [outcome EXCEPT ![r] = "refused"]
    /\ UNCHANGED <<queue, active, verdict>>

Accept(r) ==
    /\ outcome[r] = "new"
    /\ outcome' = [outcome EXCEPT ![r] = "pending"]
    /\ queue' = Append(queue, r)
    /\ UNCHANGED <<active, verdict>>

\* A request that is accepted and forgotten, which nobody is told.
Forget(r) ==
    /\ outcome[r] = "new"
    /\ outcome' = [outcome EXCEPT ![r] = "pending"]
    /\ verdict' = [verdict EXCEPT ![r] = "unqueued"]
    /\ UNCHANGED <<queue, active>>

Ready == active = None /\ queue # <<>>

\* The oldest request goes on the air.
Start ==
    /\ Ready
    /\ active' = Head(queue)
    /\ queue' = Tail(queue)
    /\ UNCHANGED <<outcome, verdict>>

\* The driver does not take the oldest request: it is told so.
Fail ==
    /\ Ready
    /\ outcome' = [outcome EXCEPT ![Head(queue)] = "error"]
    /\ queue' = Tail(queue)
    /\ UNCHANGED <<active, verdict>>

\* The fate of the frame on the air is decided.
Decide(fate) ==
    /\ active # None /\ verdict[active] = "none"
    /\ verdict' = [verdict EXCEPT ![active] = fate]
    /\ UNCHANGED <<queue, active, outcome>>

\* Nobody will tell the active request its fate: everything waits for it.
Lose ==
    /\ active # None /\ outcome[active] = "pending"
    /\ verdict' = [verdict EXCEPT ![active] = "lost"]
    /\ UNCHANGED <<queue, active, outcome>>

\* The request learns the fate of its own frame.
Complete ==
    /\ active # None /\ verdict[active] \in {"ok", "error"}
    /\ outcome[active] = "pending"
    /\ outcome' = [outcome EXCEPT ![active] = verdict[active]]
    /\ active' = None
    /\ UNCHANGED <<queue, verdict>>

Next ==
    \/ \E r \in Requests : Refuse(r) \/ Accept(r) \/ Forget(r)
    \/ Start \/ Fail \/ Complete \/ Lose
    \/ \E fate \in {"ok", "error"} : Decide(fate)

Spec == Init /\ [][Next]_serviceVars
=============================================================================
