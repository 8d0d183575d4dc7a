--------------------------- MODULE TaskLifecycle ----------------------------
(***************************************************************************)
(* What a task row is promised, whatever the loop, the executions and the  *)
(* provider do: an execution wakes up once, one that finds its task        *)
(* canceled is over, a message goes out only for a task that is running,   *)
(* and a task that was completed or skipped stays so.                      *)
(***************************************************************************)
EXTENDS Sequences, Naturals

VARIABLES
  status,   \* tasks.status, by task
  phase,    \* its execution: "asleep", "awake" or "over"
  sent      \* the tasks a message has gone out for

Init ==
  /\ status = <<>>
  /\ phase = <<>>
  /\ sent = {}

Schedule ==
  /\ status' = Append(status, "scheduled")
  /\ phase' = Append(phase, "asleep")
  /\ UNCHANGED sent

Cancel(T) ==
  /\ \A t \in T : status[t] = "scheduled"
  /\ status' = [t \in DOMAIN status |-> IF t \in T THEN "canceled" ELSE status[t]]
  /\ UNCHANGED <<phase, sent>>

Wake(t) ==
  /\ phase[t] = "asleep"
  /\ phase' = [phase EXCEPT ![t] = IF status[t] = "canceled" THEN "over" ELSE "awake"]
  /\ UNCHANGED <<status, sent>>

\* An execution goes on, or has failed once too often.
GoesOn(t) == phase' \in {phase, [phase EXCEPT ![t] = "over"]}

(* The execution writes the status it has reached, over whichever of `from`*)
(* it finds.  A cancellation that comes after the wake-up is overwritten.  *)
Write(t, from, to) ==
  /\ phase[t] = "awake"
  /\ status[t] \in from
  /\ status' = [status EXCEPT ![t] = to]
  /\ GoesOn(t)
  /\ UNCHANGED sent

Skip(t) == Write(t, {"scheduled", "canceled", "skipped_guardrail"}, "skipped_guardrail")
Start(t) == Write(t, {"scheduled", "canceled", "running"}, "running")
Complete(t) == Write(t, {"running", "completed"}, "completed")

SendMessage(t) ==
  /\ phase[t] = "awake"
  /\ status[t] = "running"
  /\ sent' = sent \cup {t}
  /\ GoesOn(t)
  /\ UNCHANGED status

Fail(t) ==
  /\ phase' = [phase EXCEPT ![t] = "over"]
  /\ UNCHANGED <<status, sent>>

Next ==
  \/ Schedule
  \/ \E T \in SUBSET (DOMAIN status) : Cancel(T)
  \/ \E t \in DOMAIN status :
       Wake(t) \/ Skip(t) \/ Start(t) \/ Complete(t) \/ SendMessage(t) \/ Fail(t)

Spec == Init /\ [][Next]_<<status, phase, sent>>
=============================================================================
