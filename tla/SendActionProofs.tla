-------------------------- MODULE SendActionProofs --------------------------
(***************************************************************************)
(* Theorems on SendAction: the automation continues at most once, and only  *)
(* after its own report, for every configuration; and num_running_ counts   *)
(* the waiting runs when nothing stops them.                                *)
(***************************************************************************)
EXTENDS SendAction, FiniteSetTheorems, TLAPS

\* What the actions share: a run that is at the end of its list, or has been told
\* the status and has no list.
LEMMA FinishTypes ==
    ASSUME TypeOK, NEW r \in Runs, NEW status, NEW n \in Nat, Finish(r, status, n)
    PROVE  /\ phase' \in [Runs -> Phases] /\ running' \in Nat
           /\ continued' \in [Runs -> Nat] /\ stopped' \subseteq Runs
<1>1. CASE WaitForSent /\ ~Continues(status)
  <2>1. StopComplex({r}, n)
    BY <1>1 DEF Finish
  <2> QED
    BY <2>1 DEF StopComplex, TypeOK, Phases, Lists
<1>2. CASE ~(WaitForSent /\ ~Continues(status))
  <2>1. /\ phase' = [phase EXCEPT ![r] = "done"]
        /\ \/ PlayNext(r, n)
           \/ running' = n /\ UNCHANGED <<continued, stopped>>
    BY <1>2 DEF Finish
  <2>2. phase' \in [Runs -> Phases]
    BY <2>1 DEF TypeOK, Phases
  <2>3. CASE running' = n /\ UNCHANGED <<continued, stopped>>
    BY <2>2, <2>3 DEF TypeOK
  <2>4. CASE PlayNext(r, n)
    BY <2>2, <2>4 DEF PlayNext, TypeOK
  <2> QED
    BY <2>1, <2>3, <2>4
<1> QED
  BY <1>1, <1>2

\* The callback keeps the types.
LEMMA CallbackTypes ==
    ASSUME TypeOK, NEW r \in Runs, NEW status \in {"ok", "error"}, NEW n \in Nat,
           Callback(r, status, n)
    PROVE  /\ phase' \in [Runs -> Phases] /\ running' \in Nat
           /\ continued' \in [Runs -> Nat] /\ stopped' \subseteq Runs
           /\ answer' \in [Runs -> {"none", "ok", "error"}]
<1>1. answer' \in [Runs -> {"none", "ok", "error"}]
  BY DEF Callback, TypeOK
<1>2. CASE (status = "ok" /\ OnSent) \/ (status = "error" /\ OnError)
  BY <1>1, <1>2 DEF Callback, TypeOK, Phases, Lists
<1>3. CASE ~((status = "ok" /\ OnSent) \/ (status = "error" /\ OnError))
  BY <1>1, <1>3, FinishTypes DEF Callback
<1> QED
  BY <1>2, <1>3

\* Every variable keeps its type, whatever the configuration.
THEOREM Types == Spec => []TypeOK
<1>1. Init => TypeOK
  BY DEF Init, TypeOK, Phases
<1>2. ASSUME TypeOK, [Next]_vars PROVE TypeOK'
  <2>1. ASSUME NEW r \in Runs, PlayAccepted(r) PROVE TypeOK'
    <3>1. /\ phase' \in [Runs -> Phases] /\ queue' \in Seq(Runs)
          /\ answer' = answer /\ running + 1 \in Nat
      BY <1>2, <2>1 DEF PlayAccepted, TypeOK, Phases
    <3>2. CASE WaitForSent
      <4>1. running' = running + 1 /\ UNCHANGED <<continued, stopped>>
        BY <2>1, <3>2 DEF PlayAccepted, GoOn
      <4> QED
        BY <1>2, <3>1, <4>1 DEF TypeOK
    <3>3. CASE ~WaitForSent
      <4>1. PlayNext(r, running + 1)
        BY <2>1, <3>3 DEF PlayAccepted, GoOn
      <4> QED
        BY <1>2, <3>1, <4>1 DEF PlayNext, TypeOK
    <3> QED
      BY <3>2, <3>3
  <2>2. ASSUME NEW r \in Runs, PlayRefused(r) PROVE TypeOK'
    <3>1. running + 1 \in Nat /\ Callback(r, "error", running + 1)
      BY <1>2, <2>2 DEF PlayRefused, TypeOK
    <3> QED
      BY <1>2, <2>2, <3>1, CallbackTypes DEF PlayRefused, TypeOK
  <2>3. ASSUME NEW status \in {"ok", "error"}, Report(status) PROVE TypeOK'
    <3>1. Head(queue) \in Runs /\ Tail(queue) \in Seq(Runs) /\ running \in Nat
      BY <1>2, <2>3 DEF Report, TypeOK
    <3> QED
      BY <1>2, <2>3, <3>1, CallbackTypes DEF Report, TypeOK
  <2>4. ASSUME NEW r \in Runs, ListDone(r) PROVE TypeOK'
    <3>1. running \in Nat
      BY <1>2 DEF TypeOK
    <3> QED
      BY <1>2, <2>4, <3>1, FinishTypes DEF ListDone, TypeOK
  <2>5. CASE Stop
    BY <1>2, <2>5 DEF Stop, StopComplex, TypeOK, Phases
  <2>6. CASE UNCHANGED vars
    BY <1>2, <2>6 DEF vars, TypeOK
  <2> QED
    BY <1>2, <2>1, <2>2, <2>3, <2>4, <2>5, <2>6 DEF Next, Reports
<1> QED
  BY <1>1, <1>2, PTL DEF Spec

-----------------------------------------------------------------------------
(* The automation continues once.                                           *)

\* The runs that wait for a report are sending, and each waits once.
QueueInv ==
    /\ \A i \in 1..Len(queue) : phase[queue[i]] = "sending"
    /\ \A i, j \in 1..Len(queue) : queue[i] = queue[j] => i = j

\* A run that has not come to its end has not continued, unless it does not wait,
\* and the list it is in says what its report was.
PhaseInv ==
    \A r \in Runs :
      /\ phase[r] = "new" => continued[r] = 0
      /\ WaitForSent /\ phase[r] # "done" => continued[r] = 0
      /\ phase[r] = "on_sent" => answer[r] = "ok"
      /\ phase[r] = "on_error" => answer[r] = "error"

OnceInv == QueueInv /\ PhaseInv /\ ContinuesOnce

\* The end of run r, once it has been told the status, and only then.
LEMMA FinishOnce ==
    ASSUME TypeOK, PhaseInv, ContinuesOnce,
           NEW r \in Runs, NEW status \in {"ok", "error"}, NEW n \in Nat,
           WaitForSent => continued[r] = 0,
           answer' = [answer EXCEPT ![r] = status],
           Finish(r, status, n)
    PROVE  PhaseInv' /\ ContinuesOnce'
<1>1. /\ answer'[r] = status
      /\ \A q \in Runs \ {r} : answer'[q] = answer[q]
  BY DEF TypeOK
<1>2. CASE WaitForSent /\ ~Continues(status)
  <2>1. StopComplex({r}, n)
    BY <1>2 DEF Finish
  <2>2. /\ continued' = continued /\ phase'[r] = "done"
        /\ \A q \in Runs : phase'[q] = phase[q] \/ phase'[q] = "done"
    BY <2>1 DEF StopComplex
  <2> QED
    BY <1>1, <1>2, <2>2 DEF PhaseInv, ContinuesOnce, TypeOK
<1>3. CASE ~WaitForSent
  <2>1. continued' = continued /\ phase' = [phase EXCEPT ![r] = "done"]
    BY <1>3 DEF Finish
  <2> QED
    BY <1>1, <1>3, <2>1 DEF PhaseInv, ContinuesOnce, TypeOK
<1>4. CASE WaitForSent /\ Continues(status)
  <2>1. /\ phase' = [phase EXCEPT ![r] = "done"]
        /\ continued' = IF n > 0 THEN [continued EXCEPT ![r] = @ + 1] ELSE continued
    BY <1>4 DEF Finish, PlayNext
  <2>2. continued'[r] <= 1 /\ \A q \in Runs \ {r} : continued'[q] = continued[q]
    BY <1>4, <2>1 DEF TypeOK
  <2>3. phase'[r] = "done" /\ \A q \in Runs \ {r} : phase'[q] = phase[q]
    BY <2>1 DEF TypeOK
  <2> QED
    BY <1>1, <1>4, <2>2, <2>3 DEF PhaseInv, ContinuesOnce, Continues
<1> QED
  BY <1>2, <1>3, <1>4

\* The callback of run r, which has been told nothing yet.
LEMMA CallbackOnce ==
    ASSUME TypeOK, PhaseInv, ContinuesOnce,
           NEW r \in Runs, NEW status \in {"ok", "error"}, NEW n \in Nat,
           phase[r] \in {"new", "sending"},
           Callback(r, status, n)
    PROVE  PhaseInv' /\ ContinuesOnce'
<1>1. answer' = [answer EXCEPT ![r] = status]
  BY DEF Callback
<1>2. WaitForSent => continued[r] = 0
  BY DEF PhaseInv
<1>3. CASE (status = "ok" /\ OnSent) \/ (status = "error" /\ OnError)
  <2>1. /\ phase' = [phase EXCEPT ![r] =
                       IF status = "ok" THEN "on_sent" ELSE "on_error"]
        /\ continued' = continued
    BY <1>3 DEF Callback
  <2> QED
    BY <1>1, <1>2, <2>1 DEF PhaseInv, ContinuesOnce, TypeOK
<1>4. CASE ~((status = "ok" /\ OnSent) \/ (status = "error" /\ OnError))
  BY <1>1, <1>2, <1>4, FinishOnce DEF Callback
<1> QED
  BY <1>3, <1>4

\* The callback of run r leaves the other runs that are sending as they are.
LEMMA CallbackLeavesSending ==
    ASSUME TypeOK, NEW r \in Runs, NEW status, NEW n, Callback(r, status, n)
    PROVE  \A q \in Runs \ {r} : phase[q] = "sending" => phase'[q] = "sending"
BY DEF Callback, Finish, StopComplex, TypeOK, Lists

\* The strengthening of ContinuesOnce is inductive.
LEMMA OnceInvariant == Spec => []OnceInv
<1>1. Init => OnceInv
  BY DEF Init, OnceInv, QueueInv, PhaseInv, ContinuesOnce
<1>2. ASSUME TypeOK, OnceInv, [Next]_vars PROVE OnceInv'
  <2> USE DEF OnceInv
  <2>1. ASSUME NEW r \in Runs, PlayAccepted(r) PROVE OnceInv'
    <3>1. /\ phase[r] = "new" /\ phase' = [phase EXCEPT ![r] = "sending"]
          /\ queue' = Append(queue, r) /\ answer' = answer
      BY <2>1 DEF PlayAccepted
    <3>2. QueueInv'
      <4>1. /\ Len(queue') = Len(queue) + 1 /\ Len(queue) \in Nat
            /\ queue'[Len(queue')] = r
            /\ \A i \in 1..Len(queue) : queue'[i] = queue[i] /\ queue[i] \in Runs
        BY <1>2, <3>1 DEF TypeOK
      <4>2. \A i \in 1..Len(queue) : queue[i] # r
        BY <1>2, <3>1 DEF QueueInv
      <4>3. \A i \in 1..Len(queue') : phase'[queue'[i]] = "sending"
        BY <1>2, <3>1, <4>1, <4>2 DEF QueueInv, TypeOK
      <4> QED
        BY <1>2, <4>1, <4>2, <4>3 DEF QueueInv
    <3>3. CASE WaitForSent
      <4>1. continued' = continued
        BY <2>1, <3>3 DEF PlayAccepted, GoOn
      <4> QED
        BY <1>2, <3>1, <3>2, <3>3, <4>1 DEF PhaseInv, ContinuesOnce, TypeOK
    <3>4. CASE ~WaitForSent
      <4>1. \/ continued' = [continued EXCEPT ![r] = @ + 1]
            \/ continued' = continued
        BY <2>1, <3>4 DEF PlayAccepted, GoOn, PlayNext
      <4>2. continued[r] = 0
        BY <1>2, <3>1 DEF PhaseInv
      <4> QED
        <5>1. /\ continued'[r] <= 1 /\ phase'[r] = "sending"
              /\ \A q \in Runs \ {r} : continued'[q] = continued[q]
                                      /\ phase'[q] = phase[q]
          BY <1>2, <3>1, <4>1, <4>2 DEF TypeOK
        <5>2. PhaseInv'
          BY <1>2, <3>1, <3>4, <5>1 DEF PhaseInv
        <5>3. ContinuesOnce'
          BY <1>2, <3>4, <5>1 DEF ContinuesOnce
        <5> QED
          BY <3>2, <5>2, <5>3
    <3> QED
      BY <3>3, <3>4
  <2>2. ASSUME NEW r \in Runs, PlayRefused(r) PROVE OnceInv'
    <3>1. /\ phase[r] = "new" /\ Callback(r, "error", running + 1)
          /\ running + 1 \in Nat /\ queue' = queue
      BY <1>2, <2>2 DEF PlayRefused, TypeOK
    <3>2. PhaseInv' /\ ContinuesOnce'
      BY <1>2, <3>1, CallbackOnce
    <3>3. \A q \in Runs \ {r} : phase[q] = "sending" => phase'[q] = "sending"
      BY <1>2, <3>1, CallbackLeavesSending
    <3>4. \A i \in 1..Len(queue) : queue[i] \in Runs \ {r}
      BY <1>2, <3>1 DEF QueueInv, TypeOK
    <3> QED
      BY <1>2, <3>1, <3>2, <3>3, <3>4 DEF QueueInv
  <2>3. ASSUME NEW status \in {"ok", "error"}, Report(status) PROVE OnceInv'
    <3> DEFINE r == Head(queue)
    <3>1. /\ r \in Runs /\ phase[r] = "sending" /\ running \in Nat
          /\ Callback(r, status, running)
          /\ queue # <<>> /\ queue' = Tail(queue)
      BY <1>2, <2>3 DEF Report, QueueInv, TypeOK
    <3>2. PhaseInv' /\ ContinuesOnce'
      BY <1>2, <3>1, CallbackOnce
    <3>3. \A q \in Runs \ {r} : phase[q] = "sending" => phase'[q] = "sending"
      BY <1>2, <3>1, CallbackLeavesSending
    <3>4. /\ Len(queue) \in Nat \ {0} /\ Len(queue') = Len(queue) - 1
          /\ \A i \in 1..Len(queue') : queue'[i] = queue[i+1]
          /\ \A i \in 1..Len(queue) : queue[i] \in Runs
          /\ r = queue[1]
      BY <1>2, <3>1 DEF TypeOK
    <3>5. \A i \in 1..Len(queue') : queue'[i] \in Runs \ {r}
      BY <1>2, <3>4 DEF QueueInv
    <3>6. \A i \in 1..Len(queue') : phase'[queue'[i]] = "sending"
      BY <1>2, <3>3, <3>4, <3>5 DEF QueueInv
    <3>7. \A i, j \in 1..Len(queue') : queue'[i] = queue'[j] => i = j
      BY <1>2, <3>4 DEF QueueInv
    <3> QED
      BY <3>2, <3>6, <3>7 DEF QueueInv
  <2>4. ASSUME NEW r \in Runs, ListDone(r) PROVE OnceInv'
    <3> DEFINE status == IF phase[r] = "on_sent" THEN "ok" ELSE "error"
    <3>1. /\ phase[r] \in Lists /\ running \in Nat /\ queue' = queue
          /\ answer' = answer /\ Finish(r, status, running)
      BY <1>2, <2>4 DEF ListDone, TypeOK
    <3>2. answer' = [answer EXCEPT ![r] = status]
      BY <1>2, <3>1 DEF PhaseInv, TypeOK, Lists
    <3>3. WaitForSent => continued[r] = 0
      BY <1>2, <3>1 DEF PhaseInv, Lists
    <3>4. PhaseInv' /\ ContinuesOnce'
      BY <1>2, <3>1, <3>2, <3>3, FinishOnce
    <3>5. \A q \in Runs : phase[q] = "sending" => phase'[q] = "sending"
      BY <1>2, <3>1 DEF Finish, StopComplex, TypeOK, Lists
    <3> QED
      BY <1>2, <3>1, <3>4, <3>5 DEF QueueInv, TypeOK
  <2>5. CASE Stop
    <3>1. /\ continued' = continued /\ answer' = answer /\ queue' = queue
          /\ \A q \in Runs : phase'[q] = phase[q]
                             \/ (phase[q] \in Lists /\ phase'[q] = "done")
      BY <2>5 DEF Stop, StopComplex
    <3> QED
      BY <1>2, <3>1 DEF QueueInv, PhaseInv, ContinuesOnce, TypeOK, Lists
  <2>6. CASE UNCHANGED vars
    BY <1>2, <2>6 DEF vars, QueueInv, PhaseInv, ContinuesOnce
  <2> QED
    BY <1>2, <2>1, <2>2, <2>3, <2>4, <2>5, <2>6 DEF Next, Reports
<1> QED
  BY <1>1, <1>2, Types, PTL DEF Spec

\* No run continues twice; a run that waits continues only after its own report,
\* and after an error only if the configuration says so, whoever stops it.
THEOREM Once == Spec => []ContinuesOnce
BY OnceInvariant, PTL DEF OnceInv

-----------------------------------------------------------------------------
(* The count of the waiting runs.                                           *)

Waiting == {r \in Runs : Owed(r)}

\* The callback of a run that counts: it plays a list and still counts, or
\* continues and does not.
LEMMA CallbackCounts ==
    ASSUME WaitForSent, stopped' = {}, TypeOK,
           NEW r \in Runs, NEW status \in {"ok", "error"}, NEW n \in Nat \ {0},
           continued[r] = 0, Callback(r, status, n)
    PROVE  /\ \/ running' = n /\ Owed(r)'
              \/ running' = n - 1 /\ ~Owed(r)'
           /\ \A q \in Runs \ {r} : Owed(q)' = Owed(q)
<1>1. CASE (status = "ok" /\ OnSent) \/ (status = "error" /\ OnError)
  <2>1. /\ running' = n /\ continued' = continued
        /\ phase'[r] \in Lists
        /\ \A q \in Runs \ {r} : phase'[q] = phase[q]
    BY <1>1 DEF Callback, TypeOK, Lists
  <2> QED
    BY <2>1 DEF Owed
<1>2. CASE ~((status = "ok" /\ OnSent) \/ (status = "error" /\ OnError))
  <2>0. ~StopComplex({r}, n)
    BY DEF StopComplex
  <2>1. phase' = [phase EXCEPT ![r] = "done"] /\ PlayNext(r, n)
    BY <1>2, <2>0 DEF Callback, Finish
  <2>2. /\ running' = n - 1 /\ phase'[r] = "done"
        /\ \A q \in Runs \ {r} : phase'[q] = phase[q] /\ continued'[q] = continued[q]
    BY <2>1 DEF PlayNext, TypeOK
  <2> QED
    BY <2>2 DEF Owed, Lists
<1> QED
  BY <1>1, <1>2

\* A run that waits is counted.
LEMMA OwedCounts ==
    ASSUME IsFiniteSet(Runs), NEW r \in Runs, Owed(r)
    PROVE  Cardinality(Waiting) \in Nat \ {0}
<1>1. IsFiniteSet(Waiting) /\ r \in Waiting
  BY FS_Subset DEF Waiting
<1> QED
  BY <1>1, FS_CardinalityType, FS_EmptySet

\* One run begins or ceases to count, or none does.
LEMMA WaitingChanges ==
    ASSUME IsFiniteSet(Runs), NEW r \in Runs,
           \A q \in Runs \ {r} : Owed(q)' = Owed(q)
    PROVE  /\ Cardinality(Waiting) \in Nat
           /\ Owed(r)' = Owed(r) => Cardinality(Waiting') = Cardinality(Waiting)
           /\ Owed(r)' /\ ~Owed(r) => Cardinality(Waiting') = Cardinality(Waiting) + 1
           /\ ~Owed(r)' /\ Owed(r) => Cardinality(Waiting') = Cardinality(Waiting) - 1
<1>1. IsFiniteSet(Waiting)
  BY FS_Subset DEF Waiting
<1>2. Cardinality(Waiting) \in Nat
  BY <1>1, FS_CardinalityType
<1>4. CASE Owed(r)' = Owed(r)
  <2>1. Waiting' = Waiting
    BY <1>4 DEF Waiting
  <2> QED
    BY <1>2, <1>4, <2>1
<1>5. CASE Owed(r)' /\ ~Owed(r)
  <2>1. Waiting' = Waiting \cup {r} /\ r \notin Waiting
    BY <1>5 DEF Waiting
  <2>2. Cardinality(Waiting') = Cardinality(Waiting) + 1
    BY <1>1, <2>1, FS_AddElement
  <2> QED
    BY <1>2, <1>5, <2>2
<1>6. CASE ~Owed(r)' /\ Owed(r)
  <2>1. Waiting' = Waiting \ {r} /\ r \in Waiting
    BY <1>6 DEF Waiting
  <2>2. Cardinality(Waiting') = Cardinality(Waiting) - 1
    BY <1>1, <2>1, FS_RemoveElement
  <2> QED
    BY <1>2, <1>6, <2>2
<1> QED
  BY <1>4, <1>5, <1>6 DEF Owed

\* What has been stopped is not forgotten.
LEMMA StoppedGrows == [Next]_vars => stopped \subseteq stopped'
<1>1. ASSUME NEW r, NEW status, NEW n, Callback(r, status, n) \/ Finish(r, status, n)
      PROVE  stopped \subseteq stopped'
  <2>1. ASSUME Finish(r, status, n) PROVE stopped \subseteq stopped'
    <3>1. CASE StopComplex({r}, n)
      BY <3>1 DEF StopComplex
    <3>2. CASE UNCHANGED stopped
      BY <3>2
    <3> QED
      BY <2>1, <3>1, <3>2 DEF Finish, PlayNext
  <2>2. ASSUME Callback(r, status, n) PROVE Finish(r, status, n) \/ UNCHANGED stopped
    BY <2>2 DEF Callback
  <2> QED
    BY <1>1, <2>1, <2>2
<1>2. ASSUME NEW r \in Runs, PlayAccepted(r) PROVE stopped \subseteq stopped'
  BY <1>2 DEF PlayAccepted, GoOn, PlayNext
<1>3. Stop => stopped \subseteq stopped'
  BY DEF Stop, StopComplex
<1> QED
  BY <1>1, <1>2, <1>3 DEF Next, PlayRefused, ListDone, Reports, Report, vars

\* In every configuration whose runs wait, num_running_ is the number of runs that
\* wait, as long as nothing is stopped: none finds it at zero.
THEOREM WaitingCounted ==
    ASSUME IsFiniteSet(Runs)
    PROVE  Spec => []RunningCounts
<1> DEFINE Counted ==
             WaitForSent /\ stopped = {} => running = Cardinality(Waiting)
<1>1. Init => Counted
  <2>1. Init => Waiting = {}
    BY DEF Init, Waiting, Owed, Lists
  <2> QED
    BY <2>1, FS_EmptySet DEF Init
<1>2. ASSUME TypeOK, OnceInv, Counted, [Next]_vars PROVE Counted'
  <2> SUFFICES ASSUME WaitForSent, stopped' = {}
               PROVE  running' = Cardinality(Waiting')
    OBVIOUS
  <2> USE DEF OnceInv
  <2>0. running = Cardinality(Waiting) /\ running \in Nat
    BY <1>2, StoppedGrows DEF TypeOK
  <2>1. ASSUME NEW r \in Runs, PlayAccepted(r)
        PROVE  running' = Cardinality(Waiting')
    <3>1. /\ running' = running + 1 /\ ~Owed(r) /\ Owed(r)'
          /\ \A q \in Runs \ {r} : Owed(q)' = Owed(q)
      BY <1>2, <2>1 DEF PlayAccepted, GoOn, Owed, PhaseInv, TypeOK, Lists
    <3> QED
      BY <2>0, <3>1, WaitingChanges
  <2>2. ASSUME NEW r \in Runs, PlayRefused(r)
        PROVE  running' = Cardinality(Waiting')
    <3>1. continued[r] = 0 /\ Callback(r, "error", running + 1) /\ ~Owed(r)
      BY <1>2, <2>2 DEF PlayRefused, PhaseInv, TypeOK, Owed, Lists
    <3>2. running + 1 \in Nat \ {0} /\ (running + 1) - 1 = running
      BY <2>0
    <3>3. /\ \/ running' = running + 1 /\ Owed(r)'
             \/ running' = (running + 1) - 1 /\ ~Owed(r)'
          /\ \A q \in Runs \ {r} : Owed(q)' = Owed(q)
      BY <1>2, <3>1, <3>2, CallbackCounts
    <3>4. CASE running' = running + 1 /\ Owed(r)'
      BY <2>0, <3>1, <3>3, <3>4, WaitingChanges
    <3>5. CASE running' = running /\ ~Owed(r)'
      BY <2>0, <3>1, <3>3, <3>5, WaitingChanges DEF Owed
    <3> QED
      BY <3>2, <3>3, <3>4, <3>5
  <2>3. ASSUME NEW status \in {"ok", "error"}, Report(status)
        PROVE  running' = Cardinality(Waiting')
    <3>1. PICK r \in Runs : phase[r] = "sending" /\ Callback(r, status, running)
      BY <1>2, <2>3 DEF Report, QueueInv, TypeOK
    <3>2. Owed(r) /\ continued[r] = 0
      BY <1>2, <3>1 DEF PhaseInv, Owed
    <3>3. running \in Nat \ {0}
      BY <2>0, <3>2, OwedCounts
    <3>4. /\ \/ running' = running /\ Owed(r)'
             \/ running' = running - 1 /\ ~Owed(r)'
          /\ \A q \in Runs \ {r} : Owed(q)' = Owed(q)
      BY <1>2, <3>1, <3>2, <3>3, CallbackCounts
    <3>5. CASE running' = running /\ Owed(r)'
      BY <2>0, <3>2, <3>4, <3>5, WaitingChanges DEF Owed
    <3>6. CASE running' = running - 1 /\ ~Owed(r)'
      BY <2>0, <3>2, <3>4, <3>6, WaitingChanges
    <3> QED
      BY <3>4, <3>5, <3>6
  <2>4. ASSUME NEW r \in Runs, ListDone(r)
        PROVE  running' = Cardinality(Waiting')
    <3>1. Owed(r)
      BY <1>2, <2>4 DEF ListDone, PhaseInv, Owed, TypeOK, Lists
    <3>2. running > 0
      BY <2>0, <3>1, OwedCounts
    <3>3. ~StopComplex({r}, running)
      BY <3>2 DEF StopComplex
    <3>4. phase' = [phase EXCEPT ![r] = "done"] /\ PlayNext(r, running)
      BY <2>4, <3>3 DEF ListDone, Finish
    <3>5. /\ running' = running - 1 /\ ~Owed(r)'
          /\ \A q \in Runs \ {r} : Owed(q)' = Owed(q)
      BY <1>2, <3>2, <3>4 DEF PlayNext, Owed, TypeOK, Lists
    <3> QED
      BY <2>0, <3>1, <3>5, WaitingChanges
  <2>5. ~Stop
    <3>1. ASSUME Stop PROVE FALSE
      <4>1. Waiting # {} /\ stopped = {}
        BY <1>2, <2>0, <3>1, FS_EmptySet, StoppedGrows DEF Stop
      <4>2. PICK r \in Runs : Owed(r)
        BY <4>1 DEF Waiting
      <4>3. Unfinished(r)
        BY <4>1, <4>2 DEF Unfinished, Owed, Lists
      <4> QED
        BY <3>1, <4>3 DEF Stop, StopComplex
    <3> QED
      BY <3>1
  <2>6. CASE UNCHANGED vars
    <3>1. Waiting' = Waiting
      BY <2>6 DEF vars, Waiting, Owed
    <3> QED
      BY <2>0, <2>6, <3>1 DEF vars
  <2> QED
    BY <1>2, <2>1, <2>2, <2>3, <2>4, <2>5, <2>6 DEF Next, Reports
<1>3. Counted => RunningCounts
  BY DEF RunningCounts, Waiting
<1> HIDE DEF Counted
<1> QED
  BY <1>1, <1>2, <1>3, Types, OnceInvariant, PTL DEF Spec
=============================================================================
