------------------------------ MODULE SmsGraph ------------------------------
(***************************************************************************)
(* run_interaction and the SMS subagent's graph (activities/interactions.py*)
(* and app/core/langgraph/): tasks of one contact have a message drafted in*)
(* the contact's one checkpointed thread.                                  *)
(*                                                                         *)
(*   START --> compose --> output_guardrails --> END                       *)
(*                ^                |                                       *)
(*                +---- retry -----+                                       *)
(*                                                                         *)
(* An attempt of the activity is a run.  LangGraph (external) gives a run a*)
(* copy of the latest checkpoint, and writes the copy back as the latest   *)
(* checkpoint after every node: runs of the same thread overwrite each     *)
(* other.  A checkpoint remembers the node that is next.                   *)
(***************************************************************************)
EXTENDS Integers

CONSTANTS
  Tasks,                   \* the contact's SMS tasks
  Goal,                    \* the goal of each
  NoGoal,
  TaskMaxAttempts,         \* task.max_attempts: attempts of run_interaction
  MAX_GUARDRAIL_ATTEMPTS,
  MaxFaults                \* bound: calls that raise, runs that die or time out

Runs == Tasks \X (1 .. TaskMaxAttempts)

ASSUME GraphAssumption ==
  /\ TaskMaxAttempts \in Nat \ {0}
  /\ MAX_GUARDRAIL_ATTEMPTS \in Nat \ {0}
  /\ MaxFaults \in Nat
  /\ \A t \in Tasks : Goal[t] # NoGoal

VARIABLES thread, runs,
          faults,       \* those that have happened
          undisturbed   \* history: no two runs overlapped and none failed

vars == <<thread, runs, faults, undisturbed>>

Node == {"compose", "output_guardrails", "END"}
Draft == {"none", "passes", "violates"}

(* SMSState, with the messages reduced to the tasks whose human turn is    *)
(* among them and to what the last AI turn is.  channel_constraints and    *)
(* knowledge are kept exactly as the goal is.                              *)
SMSState ==
  [heard : SUBSET Tasks, last_ai : Draft \cup {"fallback"},
   goal : {Goal[t] : t \in Tasks} \cup {NoGoal}, draft : Draft,
   guardrail_attempts : Nat, guardrail_feedback : BOOLEAN, next : Node]

NewThread ==
  [heard |-> {}, last_ai |-> "none", goal |-> NoGoal, draft |-> "none",
   guardrail_attempts |-> 0, guardrail_feedback |-> FALSE, next |-> "END"]

(* A run's place, whether it found the graph interrupted, its copy of the  *)
(* state, the drafts it had composed and whether Temporal has stopped      *)
(* waiting for it.                                                         *)
Run ==
  [pc : {"off", "invoke", "compose", "output_guardrails", "END", "replied", "failed"},
   resume : BOOLEAN, state : SMSState, drafts : Nat, abandoned : BOOLEAN]

NotBegun ==
  [pc |-> "off", resume |-> FALSE, state |-> NewThread, drafts |-> 0, abandoned |-> FALSE]

Init ==
  /\ thread = NewThread
  /\ runs = [r \in Runs |-> NotBegun]
  /\ faults = 0
  /\ undisturbed = TRUE

InFlight(r) == runs[r].pc \notin {"off", "replied", "failed"}
Lost(r) == runs[r].pc = "failed" \/ runs[r].abandoned

(* The task is due, or its last attempt failed or timed out: aget_state    *)
(* tells whether the graph was left in the middle.                         *)
BeginRun(t, n) ==
  LET r == <<t, n>>
  IN  /\ runs[r].pc = "off"
      /\ n > 1 => Lost(<<t, n - 1>>)
      /\ runs' = [runs EXCEPT ![r].pc = "invoke", ![r].resume = thread.next # "END"]
      /\ undisturbed' = (undisturbed /\ \A other \in Runs : ~InFlight(other))
      /\ UNCHANGED <<thread, faults>>

\* Wrong: the turn replaces the thread's messages.
WithTurnAlone(s, t) == [s EXCEPT !.heard = {t}, !.next = "compose"]

\* A new human turn in the state s.
WithTurn(s, t) == [s EXCEPT !.heard = s.heard \cup {t}, !.next = "compose"]

\* ainvoke(input): the turn is appended and the graph starts from its entry point.
InvokeWithInput(t, n) ==
  LET s == WithTurn(thread, t)
  IN  /\ runs[<<t, n>>].pc = "invoke"
      /\ ~runs[<<t, n>>].resume
      /\ thread' = s
      /\ runs' = [runs EXCEPT ![<<t, n>>].pc = "compose", ![<<t, n>>].state = s]
      /\ UNCHANGED <<faults, undisturbed>>

(* ainvoke(Command(resume=...)): the graph goes on with the node that was  *)
(* next, if there still is one.  No node interrupts, so nothing reads the  *)
(* resume value: the body of this task's turn is dropped.                  *)
InvokeToResume(r) ==
  /\ runs[r].pc = "invoke"
  /\ runs[r].resume
  /\ runs' = [runs EXCEPT ![r].pc = thread.next, ![r].state = thread]
  /\ UNCHANGED <<thread, faults, undisturbed>>

\* Wrong: goal and draft are swapped.
ComposedSwapped(s, goal, draft) ==
  [s EXCEPT !.goal = IF s.goal = NoGoal THEN draft ELSE s.goal,
            !.draft = goal, !.next = "output_guardrails"]

\* The goal of the task counts only where the thread has none.
Composed(s, goal, draft) ==
  [s EXCEPT !.goal = IF s.goal = NoGoal THEN goal ELSE s.goal,
            !.draft = draft, !.next = "output_guardrails"]

(* LLMService.call has answered.  A draft is all that matters of it: one   *)
(* that the guardrails will pass or one that they will not.                *)
Compose(r) ==
  /\ runs[r].pc = "compose"
  /\ \E draft \in {"passes", "violates"} :
       LET s == Composed(runs[r].state, Goal[r[1]], draft)
       IN  /\ thread' = s
           /\ runs' = [runs EXCEPT ![r].pc = s.next, ![r].state = s,
                                   ![r].drafts = runs[r].drafts + 1]
  /\ UNCHANGED <<faults, undisturbed>>

\* Wrong: the attempts are counted when the draft passes only.
GuardedUncounted(s) ==
  IF s.draft = "passes"
  THEN [s EXCEPT !.guardrail_attempts = s.guardrail_attempts + 1, !.last_ai = s.draft,
                 !.guardrail_feedback = FALSE, !.next = "END"]
  ELSE [s EXCEPT !.guardrail_feedback = TRUE, !.next = "compose"]

\* Wrong: an escalation says nothing.
GuardedSilently(s) ==
  LET attempts == s.guardrail_attempts + 1
      counted == [s EXCEPT !.guardrail_attempts = attempts]
  IN  IF s.draft = "passes"
      THEN [counted EXCEPT !.last_ai = s.draft, !.guardrail_feedback = FALSE, !.next = "END"]
      ELSE IF attempts >= MAX_GUARDRAIL_ATTEMPTS
           THEN [counted EXCEPT !.next = "END"]
           ELSE [counted EXCEPT !.guardrail_feedback = TRUE, !.next = "compose"]

\* What the guardrails make of the draft of a state.
Guarded(s) ==
  LET attempts == s.guardrail_attempts + 1
      counted == [s EXCEPT !.guardrail_attempts = attempts]
  IN  IF s.draft = "passes"
      THEN [counted EXCEPT !.last_ai = s.draft, !.guardrail_feedback = FALSE, !.next = "END"]
      ELSE IF attempts >= MAX_GUARDRAIL_ATTEMPTS
           THEN [counted EXCEPT !.last_ai = "fallback", !.next = "END"]
           ELSE [counted EXCEPT !.guardrail_feedback = TRUE, !.next = "compose"]

OutputGuardrails(r) ==
  /\ runs[r].pc = "output_guardrails"
  /\ LET s == Guarded(runs[r].state)
     IN  /\ thread' = s
         /\ runs' = [runs EXCEPT ![r].pc = s.next, ![r].state = s]
  /\ UNCHANGED <<faults, undisturbed>>

\* A run is over without a reply, and its copy is gone.
Failed(r) ==
  [pc |-> "failed", resume |-> FALSE, state |-> NewThread, drafts |-> 0,
   abandoned |-> runs[r].abandoned]

(* The run is over.  A graph that another run has meanwhile left in the    *)
(* middle is taken for interrupted, and reading its interrupt raises.      *)
Return(r) ==
  /\ runs[r].pc = "END"
  /\ runs' = [runs EXCEPT ![r] = IF thread.next = "END" THEN [runs[r] EXCEPT !.pc = "replied"]
                                                    ELSE Failed(r)]
  /\ undisturbed' = (undisturbed /\ thread.next = "END")
  /\ UNCHANGED <<thread, faults>>

Fault ==
  /\ faults < MaxFaults
  /\ faults' = faults + 1
  /\ undisturbed' = FALSE

Fails(r) ==
  /\ runs' = [runs EXCEPT ![r] = Failed(r)]
  /\ Fault
  /\ UNCHANGED thread

\* LLMService.call raises.  The checkpoint stays where compose is next.
ComposeFails(r) == runs[r].pc = "compose" /\ Fails(r)

\* The worker stops, or Temporal cancels a run it has given up.
RunDies(r) == InFlight(r) /\ Fails(r)

(* INTERACTION_TIMEOUT passes: Temporal no longer waits for the run, which *)
(* may go on for a while all the same.                                     *)
RunTimesOut(r) ==
  /\ InFlight(r)
  /\ ~runs[r].abandoned
  /\ runs' = [runs EXCEPT ![r].abandoned = TRUE]
  /\ Fault
  /\ UNCHANGED thread

RunStep(t, n) ==
  LET r == <<t, n>>
  IN  \/ InvokeWithInput(t, n) \/ InvokeToResume(r)
      \/ Compose(r) \/ ComposeFails(r) \/ OutputGuardrails(r) \/ Return(r)

RunEvent(t, n) == BeginRun(t, n) \/ RunDies(<<t, n>>) \/ RunTimesOut(<<t, n>>)

Next == \E t \in Tasks, n \in 1 .. TaskMaxAttempts : RunStep(t, n) \/ RunEvent(t, n)

Spec == Init /\ [][Next]_vars

-----------------------------------------------------------------------------
(* Every variable has the type of what it stands for.                      *)
SubagentTypeOK ==
  /\ thread \in SMSState
  /\ runs \in [Runs -> Run]
  /\ faults \in 0 .. MaxFaults
  /\ undisturbed \in BOOLEAN

(* An interaction that reports success has something to send, and never a  *)
(* draft the guardrails rejected: whatever run the thread's last AI turn   *)
(* is from, it is a checked draft or the apology of an escalation.         *)
RepliesAreChecked ==
  \A r \in Runs : runs[r].pc = "replied" => runs[r].state.last_ai \in {"passes", "fallback"}

(* However runs share and overwrite the thread's count of attempts, none   *)
(* composes more than MAX_GUARDRAIL_ATTEMPTS drafts.                       *)
DraftsAreBounded == \A r \in Runs : runs[r].drafts <= MAX_GUARDRAIL_ATTEMPTS

(* While a contact's interactions neither overlap nor fail, each composes  *)
(* a reply of its own, to its own turn, in a thread that holds the turns of*)
(* all those before it.                                                    *)
UndisturbedSeesPriorTurns ==
  undisturbed =>
    \A r \in Runs :
      runs[r].pc = "replied" =>
        /\ runs[r].drafts > 0
        /\ r[1] \in runs[r].state.heard
        /\ r[1] \in thread.heard

-----------------------------------------------------------------------------
(* nodes/compose.py:37: "Draft the outbound SMS reply, given the task goal *)
(* and channel constraints".  Overlapping runs, which may also draft for   *)
(* each other, are left aside.                                             *)
DraftFollowsTaskGoal ==
  undisturbed =>
    \A r \in Runs :
      runs[r].pc = "output_guardrails" => runs[r].state.goal = Goal[r[1]]
=============================================================================
