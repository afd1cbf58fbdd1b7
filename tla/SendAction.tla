----------------------------- MODULE SendAction -----------------------------
(***************************************************************************)
(* The automation action that sends a packet (SendAction in                 *)
(* src/components/espnow/automation.h): an automation reaches the action,   *)
(* send() accepts or refuses the packet, the on_sent or on_error actions    *)
(* run, and the automation continues or is stopped.                         *)
(*                                                                          *)
(* A run is one passage of the automation through the action.  Runs overlap *)
(* when the automation is triggered again.  send() is what EspNow shows of  *)
(* it (SendReports): it refuses at once, or reports later, in the order of  *)
(* the calls.                                                               *)
(* ESPHome's Action counts its runs in num_running_: play_next_() continues *)
(* an automation only if the count is positive, stop_complex() resets it.   *)
(***************************************************************************)
EXTENDS Integers, Sequences, FiniteSets

CONSTANTS
    Runs,             \* the passages of the automation
    WaitForSent,      \* flags_.wait_for_sent
    ContinueOnError,  \* flags_.continue_on_error
    OnSent,           \* sent_ is not empty
    OnError,          \* error_ is not empty
    MayStop           \* may the automation be stopped from outside?

\* _validate_send_action() in __init__.py refuses the other combination.
ASSUME FlagAssumption ==
    /\ {WaitForSent, ContinueOnError, OnSent, OnError, MayStop} \subseteq BOOLEAN
    /\ WaitForSent \/ ContinueOnError

VARIABLES
    phase,      \* where each run is
    queue,      \* the runs that wait for a report, in the order of their calls
    running,    \* num_running_
    continued,  \* history: how often play_next_() has continued each run
    stopped,    \* history: the runs that stop_complex() has stopped
    answer      \* history: what the callback of each run was called with

vars == <<phase, queue, running, continued, stopped, answer>>

\* A run is in one of the lists while their actions take time (a delay, say).
Lists == {"on_sent", "on_error"}
Phases == {"new", "sending", "done"} \cup Lists

Init ==
    /\ phase = [r \in Runs |-> "new"]
    /\ queue = <<>>
    /\ running = 0
    /\ continued = [r \in Runs |-> 0]
    /\ stopped = {}
    /\ answer = [r \in Runs |-> "none"]

-----------------------------------------------------------------------------
\* Mutant: play_next_() does not take the run off the count.
PlayNextUncounted(r, n) ==
    /\ running' = n
    /\ continued' = IF n > 0 THEN [continued EXCEPT ![r] = @ + 1] ELSE continued
    /\ UNCHANGED stopped

\* Mutant: play_next_() does not look at the count.
PlayNextUnguarded(r, n) ==
    /\ running' = n - 1
    /\ continued' = [continued EXCEPT ![r] = @ + 1]
    /\ UNCHANGED stopped

\* play_next_(), when num_running_ is n.
PlayNext(r, n) ==
    /\ running' = IF n > 0 THEN n - 1 ELSE n
    /\ continued' = IF n > 0 THEN [continued EXCEPT ![r] = @ + 1] ELSE continued
    /\ UNCHANGED stopped

Unfinished(r) == phase[r] # "new" /\ continued[r] = 0 /\ r \notin stopped

\* stop_complex() in run r, or from outside: a positive count stops the lists and
\* is reset; a packet that is on its way stays there.
StopComplex(self, n) ==
    /\ running' = 0
    /\ stopped' = IF n > 0 THEN stopped \cup self \cup {r \in Runs : Unfinished(r)}
                  ELSE stopped
    /\ phase' = [r \in Runs |->
                   IF r \in self \/ (n > 0 /\ phase[r] \in Lists)
                   THEN "done" ELSE phase[r]]
    /\ UNCHANGED continued

\* Mutant: an error lets the automation go on.
ContinuesAlways(status) == TRUE

Continues(status) == status = "ok" \/ ContinueOnError

\* Mutant: after an error the automation neither goes on nor stops.
FinishSilent(r, status, n) ==
    /\ phase' = [phase EXCEPT ![r] = "done"]
    /\ IF WaitForSent /\ status = "ok" THEN PlayNext(r, n)
       ELSE running' = n /\ UNCHANGED <<continued, stopped>>

\* What follows the report, after the actions of its list.
Finish(r, status, n) ==
    IF WaitForSent /\ ~Continues(status)
    THEN StopComplex({r}, n)
    ELSE /\ phase' = [phase EXCEPT ![r] = "done"]
         /\ IF WaitForSent THEN PlayNext(r, n)
            ELSE running' = n /\ UNCHANGED <<continued, stopped>>

\* The callback given to send().
Callback(r, status, n) ==
    /\ answer' = [answer EXCEPT ![r] = status]
    /\ IF (status = "ok" /\ OnSent) \/ (status = "error" /\ OnError)
       THEN /\ phase' = [phase EXCEPT ![r] =
                           IF status = "ok" THEN "on_sent" ELSE "on_error"]
            /\ running' = n
            /\ UNCHANGED <<continued, stopped>>
       ELSE Finish(r, status, n)

\* An action that does not wait goes on as soon as the packet is accepted.
GoOn(r) ==
    IF WaitForSent
    THEN running' = running + 1 /\ UNCHANGED <<continued, stopped>>
    ELSE PlayNext(r, running + 1)

\* play_complex(), with a packet that is accepted.
PlayAccepted(r) ==
    /\ phase[r] = "new"
    /\ queue' = Append(queue, r)
    /\ phase' = [phase EXCEPT ![r] = "sending"]
    /\ GoOn(r)
    /\ UNCHANGED answer

\* play_complex(), with a packet that is refused: the callback is called at once.
PlayRefused(r) ==
    /\ phase[r] = "new"
    /\ Callback(r, "error", running + 1)
    /\ UNCHANGED queue

Report(status) ==
    /\ queue # <<>>
    /\ queue' = Tail(queue)
    /\ Callback(Head(queue), status, running)

ListDone(r) ==
    /\ phase[r] \in Lists
    /\ Finish(r, IF phase[r] = "on_sent" THEN "ok" ELSE "error", running)
    /\ UNCHANGED <<queue, answer>>

\* The automation is stopped, for instance to be restarted.
Stop ==
    /\ MayStop
    /\ running > 0
    /\ StopComplex({}, running)
    /\ UNCHANGED <<queue, answer>>

Reports == \E status \in {"ok", "error"} : Report(status)

Next ==
    \/ \E r \in Runs : PlayAccepted(r) \/ PlayRefused(r) \/ ListDone(r)
    \/ Reports
    \/ Stop

Spec == Init /\ [][Next]_vars

\* Every list ends, and every accepted packet is reported: EspNow!SendsComplete says
\* when that is not so.
Fairness == WF_vars(Reports) /\ \A r \in Runs : WF_vars(ListDone(r))
FairSpec == Spec /\ Fairness

-----------------------------------------------------------------------------
(* Properties.                                                              *)

\* Every variable keeps its type.
TypeOK ==
    /\ phase \in [Runs -> Phases]
    /\ queue \in Seq(Runs)
    /\ running \in Nat
    /\ continued \in [Runs -> Nat]
    /\ stopped \subseteq Runs
    /\ answer \in [Runs -> {"none", "ok", "error"}]

\* No run continues twice.  A run that waits continues only after its own report,
\* and after an error only if the configuration says so (automation.h:83-84),
\* however runs overlap and whoever stops them.
ContinuesOnce ==
    \A r \in Runs :
      /\ continued[r] <= 1
      /\ WaitForSent /\ continued[r] = 1 =>
           answer[r] = "ok" \/ (answer[r] = "error" /\ ContinueOnError)

\* The runs whose continuation is still to come.
Owed(r) == phase[r] \in {"sending"} \cup Lists /\ continued[r] = 0

\* As long as nothing is stopped, num_running_ (automation.h:40) counts the runs
\* that wait: none finds it at zero, and gets lost, because of another one.
RunningCounts ==
    WaitForSent /\ stopped = {} => running = Cardinality({r \in Runs : Owed(r)})

\* Every run that waits continues or is stopped, with all the runs of its time:
\* no report, and no end of a list, passes without one or the other.
RunsEnd ==
    WaitForSent =>
      \A r \in Runs : phase[r] # "new" ~> continued[r] = 1 \/ stopped # {}
=============================================================================
