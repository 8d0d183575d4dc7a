--------------------------- MODULE SmsGraphProofs ---------------------------
(***************************************************************************)
(* However many tasks of a contact, attempts and faults there are, and     *)
(* however the runs overlap: a run composes a bounded number of drafts, and*)
(* what it returns has been checked.                                       *)
(***************************************************************************)
EXTENDS SmsGraph, TLAPS

Checked(s) == s.last_ai \in {"passes", "fallback"}

(* What a run may be about to do with its copy.  A draft of its own that   *)
(* was rejected has been counted, in its copy.                             *)
Proper(run) ==
  /\ run.pc = "compose" =>
       /\ run.drafts <= run.state.guardrail_attempts
       /\ run.drafts = 0 \/ run.state.guardrail_attempts < MAX_GUARDRAIL_ATTEMPTS
  /\ run.pc = "output_guardrails" => run.drafts <= run.state.guardrail_attempts + 1
  /\ run.pc \in {"END", "replied"} => Checked(run.state)
  /\ run.pc \in {"off", "invoke"} => run.drafts = 0
  /\ run.drafts <= MAX_GUARDRAIL_ATTEMPTS

(* A thread that is at its end has an AI turn to show, unless it is new; a *)
(* run that found it in the middle knows that it is not.                   *)
ThreadInv ==
  thread.next = "END" => Checked(thread) \/ \A r \in Runs : ~runs[r].resume

SubagentInv == SubagentTypeOK /\ ThreadInv /\ \A r \in Runs : Proper(runs[r])

(* Alone in an untouched thread, a run has answered its own turn at each   *)
(* place it can be: what it holds is the thread, and the thread is at the  *)
(* node the run is about to take.                                          *)
Faithful(run, t, s) ==
  /\ run.pc = "invoke" => ~run.resume /\ s.next = "END"
  /\ run.pc \in {"compose", "output_guardrails", "END"} => run.state = s /\ s.next = run.pc
  /\ run.pc \in {"output_guardrails", "END", "replied"} => run.drafts > 0
  /\ run.pc \in {"compose", "output_guardrails", "END", "replied"} =>
       t \in run.state.heard /\ t \in s.heard

(* While no runs overlap and none fails, there is at most one in flight,   *)
(* and between two of them the thread is at its end.                       *)
UndisturbedInv ==
  undisturbed =>
    /\ \A q, r \in Runs : InFlight(q) /\ InFlight(r) => q = r
    /\ (\A r \in Runs : ~InFlight(r)) => thread.next = "END"
    /\ \A r \in Runs : Faithful(runs[r], r[1], thread)

-----------------------------------------------------------------------------
(* The operators.                                                          *)

\* The thread of a new contact, and an attempt that has not begun.
LEMMA NewTypes ==
  /\ NewThread \in SMSState
  /\ NotBegun \in Run
  /\ NotBegun.pc = "off" /\ NotBegun.drafts = 0 /\ ~NotBegun.resume
  BY DEF NewThread, SMSState, NotBegun, Run, Draft, Node

\* A turn makes compose the next node.
LEMMA WithTurnType ==
  ASSUME NEW s \in SMSState, NEW t \in Tasks
  PROVE  /\ WithTurn(s, t) \in SMSState
         /\ WithTurn(s, t).next = "compose"
         /\ WithTurn(s, t).guardrail_attempts = s.guardrail_attempts
  BY DEF WithTurn, SMSState, Node

\* A draft makes the guardrails the next node.
LEMMA ComposedType ==
  ASSUME NEW s \in SMSState, NEW t \in Tasks, NEW draft \in {"passes", "violates"}
  PROVE  /\ Composed(s, Goal[t], draft) \in SMSState
         /\ Composed(s, Goal[t], draft).next = "output_guardrails"
         /\ Composed(s, Goal[t], draft).guardrail_attempts = s.guardrail_attempts
  <1>1. (IF s.goal = NoGoal THEN Goal[t] ELSE s.goal) \in {Goal[u] : u \in Tasks} \cup {NoGoal}
    BY DEF SMSState
  <1> QED
    BY <1>1 DEF Composed, SMSState, Node, Draft

\* The guardrails either end the turn with a checked message or ask for one more draft.
LEMMA GuardedType ==
  ASSUME NEW s \in SMSState
  PROVE  /\ Guarded(s) \in SMSState
         /\ Guarded(s).guardrail_attempts = s.guardrail_attempts + 1
         /\ \/ Guarded(s).next = "END" /\ Checked(Guarded(s))
            \/ /\ Guarded(s).next = "compose"
               /\ s.guardrail_attempts + 1 < MAX_GUARDRAIL_ATTEMPTS
  <1> DEFINE n == s.guardrail_attempts + 1
             counted == [s EXCEPT !.guardrail_attempts = n]
  <1>1. n \in Nat /\ s.draft \in Draft /\ MAX_GUARDRAIL_ATTEMPTS \in Nat
    BY GraphAssumption DEF SMSState
  <1>2. counted \in SMSState /\ counted.guardrail_attempts = n
    BY <1>1 DEF SMSState
  <1> HIDE DEF counted
  <1>3. CASE s.draft = "passes"
    <2>1. Guarded(s) = [counted EXCEPT !.last_ai = s.draft, !.guardrail_feedback = FALSE, !.next = "END"]
      BY <1>3 DEF Guarded, counted
    <2> QED
      BY <1>1, <1>2, <1>3, <2>1 DEF SMSState, Checked, Node
  <1>4. CASE s.draft # "passes" /\ n >= MAX_GUARDRAIL_ATTEMPTS
    <2>1. Guarded(s) = [counted EXCEPT !.last_ai = "fallback", !.next = "END"]
      BY <1>4 DEF Guarded, counted
    <2> QED
      BY <1>1, <1>2, <2>1 DEF SMSState, Checked, Node
  <1>5. CASE s.draft # "passes" /\ ~(n >= MAX_GUARDRAIL_ATTEMPTS)
    <2>1. Guarded(s) = [counted EXCEPT !.guardrail_feedback = TRUE, !.next = "compose"]
      BY <1>5 DEF Guarded, counted
    <2>2. Guarded(s) \in SMSState
      BY <1>1, <1>2, <2>1 DEF SMSState, Node
    <2>3. /\ Guarded(s).next = "compose"
          /\ Guarded(s).guardrail_attempts = n
      BY <1>2, <2>1 DEF SMSState
    <2> QED
      BY <1>1, <1>5, <2>2, <2>3
  <1> QED
    BY <1>3, <1>4, <1>5

\* The nodes keep the turns of the thread, and a turn is added to them.
LEMMA OperatorsKeepHeard ==
  ASSUME NEW s \in SMSState
  PROVE  /\ \A t \in Tasks : WithTurn(s, t).heard = s.heard \cup {t}
         /\ \A goal, draft : Composed(s, goal, draft).heard = s.heard
         /\ Guarded(s).heard = s.heard
  <1>1. \A t \in Tasks : WithTurn(s, t).heard = s.heard \cup {t}
    BY DEF WithTurn, SMSState
  <1>2. \A goal, draft : Composed(s, goal, draft).heard = s.heard
    BY DEF Composed, SMSState
  <1>3. Guarded(s).heard = s.heard
    BY DEF Guarded, SMSState
  <1> QED
    BY <1>1, <1>2, <1>3

-----------------------------------------------------------------------------
(* What a step of the run r does: it becomes `run`, and the thread `s`.    *)
Becomes(r, run, s) ==
  /\ runs' = [runs EXCEPT ![r] = run]
  /\ thread' = s
  /\ faults' \in 0 .. MaxFaults
  /\ undisturbed' \in BOOLEAN

\* Such a step keeps the invariant if the new run and the new thread fit it.
LEMMA BecomesKeeps ==
  ASSUME SubagentInv, NEW r \in Runs, NEW run \in Run, NEW s \in SMSState,
         Becomes(r, run, s), Proper(run),
         \/ s.next # "END"
         \/ Checked(s)
         \/ s = thread /\ (run.resume => runs[r].resume)
  PROVE  SubagentInv'
  <1>1. /\ runs' \in [Runs -> Run]
        /\ runs'[r] = run
        /\ \A q \in Runs \ {r} : runs'[q] = runs[q]
    BY DEF SubagentInv, SubagentTypeOK, Becomes
  <1>2. SubagentTypeOK'
    BY <1>1 DEF SubagentTypeOK, Becomes
  <1>3. \A q \in Runs : Proper(runs'[q])
    BY <1>1 DEF SubagentInv
  <1>4. ThreadInv'
    BY <1>1 DEF SubagentInv, ThreadInv, Becomes
  <1> QED
    BY <1>2, <1>3, <1>4 DEF SubagentInv, Proper, Checked

\* The attempts of a task are runs.
LEMMA AttemptIsRun ==
  ASSUME NEW t \in Tasks, NEW n \in 1 .. TaskMaxAttempts
  PROVE  <<t, n>> \in Runs /\ <<t, n>>[1] = t
  BY DEF Runs

\* A run that is over without a reply.
LEMMA FailedType ==
  ASSUME SubagentInv, NEW r \in Runs
  PROVE  Failed(r) \in Run /\ Proper(Failed(r)) /\ ~Failed(r).resume
  <1>1. runs[r].abandoned \in BOOLEAN
    BY DEF SubagentInv, SubagentTypeOK, Run
  <1>2. /\ Failed(r) \in Run
        /\ Failed(r).pc = "failed" /\ Failed(r).drafts = 0 /\ ~Failed(r).resume
    BY <1>1, NewTypes DEF Failed, Run
  <1> QED
    BY <1>2, GraphAssumption DEF Proper

-----------------------------------------------------------------------------
\* The invariant holds at first.
LEMMA SubagentInit == Init => SubagentInv
  <1> SUFFICES ASSUME Init PROVE SubagentInv
    OBVIOUS
  <1>1. SubagentTypeOK
    BY NewTypes, GraphAssumption DEF Init, SubagentTypeOK
  <1>2. \A r \in Runs : Proper(runs[r]) /\ ~runs[r].resume
    BY NewTypes, GraphAssumption DEF Init, Proper
  <1> QED
    BY <1>1, <1>2 DEF SubagentInv, ThreadInv

\* The fields of a run.
LEMMA RunFields ==
  ASSUME SubagentInv, NEW r \in Runs
  PROVE  /\ thread \in SMSState /\ runs \in [Runs -> Run] /\ runs[r] \in Run
         /\ runs[r].state \in SMSState /\ runs[r].drafts \in Nat
         /\ runs[r].resume \in BOOLEAN
         /\ thread.guardrail_attempts \in Nat /\ runs[r].state.guardrail_attempts \in Nat
         /\ thread.next \in Node /\ runs[r].state.next \in Node
         /\ faults \in 0 .. MaxFaults /\ undisturbed \in BOOLEAN
         /\ MAX_GUARDRAIL_ATTEMPTS \in Nat \ {0} /\ MaxFaults \in Nat
         /\ Proper(runs[r]) /\ ThreadInv
  BY GraphAssumption DEF SubagentInv, SubagentTypeOK, Run, SMSState

\* A run begins.
LEMMA BeginKeeps ==
  ASSUME SubagentInv, NEW t \in Tasks, NEW n \in 1 .. TaskMaxAttempts, BeginRun(t, n)
  PROVE  SubagentInv'
  <1> DEFINE r == <<t, n>>
             found == thread.next # "END"
             run == [runs[r] EXCEPT !.pc = "invoke", !.resume = found]
  <1>1. r \in Runs
    BY AttemptIsRun
  <1>2. /\ runs[r] \in Run /\ found \in BOOLEAN /\ thread \in SMSState
        /\ runs \in [Runs -> Run]
        /\ undisturbed' \in BOOLEAN /\ faults' \in 0 .. MaxFaults
    BY <1>1, RunFields DEF BeginRun
  <1>3. runs' = [runs EXCEPT ![r] = run] /\ thread' = thread /\ runs[r].pc = "off"
    BY <1>1, <1>2 DEF BeginRun
  <1> HIDE DEF r
  <1>4. run \in Run /\ run.pc = "invoke" /\ run.drafts = runs[r].drafts
    BY <1>2 DEF Run
  <1>5. run.resume => thread.next # "END"
    BY <1>2 DEF Run
  <1>6. Proper(run)
    BY <1>1, <1>3, <1>4, RunFields DEF Proper
  <1>7. Becomes(r, run, thread)
    BY <1>2, <1>3 DEF Becomes
  <1> HIDE DEF run
  <1> QED
    BY <1>1, <1>2, <1>4, <1>5, <1>6, <1>7, BecomesKeeps

\* A run starts the graph with its turn.
LEMMA InvokeKeeps ==
  ASSUME SubagentInv, NEW t \in Tasks, NEW n \in 1 .. TaskMaxAttempts, InvokeWithInput(t, n)
  PROVE  SubagentInv'
  <1> DEFINE r == <<t, n>>
             s == WithTurn(thread, t)
             run == [runs[r] EXCEPT !.pc = "compose", !.state = s]
  <1>1. r \in Runs
    BY AttemptIsRun
  <1>2. s \in SMSState /\ s.next = "compose"
    BY <1>1, RunFields, WithTurnType
  <1>3. /\ runs' = [runs EXCEPT ![r] = run] /\ thread' = s /\ runs[r].pc = "invoke"
        /\ faults' = faults /\ undisturbed' = undisturbed
    BY <1>1, RunFields DEF InvokeWithInput
  <1> HIDE DEF r, s
  <1>4. run \in Run /\ run.pc = "compose" /\ run.drafts = runs[r].drafts /\ run.state = s
    BY <1>1, <1>2, RunFields DEF Run
  <1> HIDE DEF run
  <1>5. s.guardrail_attempts \in Nat
    BY <1>2 DEF SMSState
  <1>6. Proper(run)
    BY <1>1, <1>3, <1>4, <1>5, RunFields DEF Proper
  <1>7. Becomes(r, run, s)
    BY <1>1, <1>3, RunFields DEF Becomes
  <1> QED
    BY <1>1, <1>2, <1>4, <1>6, <1>7, BecomesKeeps

\* A run goes on where the thread was left.
LEMMA ResumeKeeps ==
  ASSUME SubagentInv, NEW r \in Runs, InvokeToResume(r)
  PROVE  SubagentInv'
  <1> DEFINE run == [runs[r] EXCEPT !.pc = thread.next, !.state = thread]
  <1>1. /\ runs' = [runs EXCEPT ![r] = run] /\ thread' = thread
        /\ runs[r].pc = "invoke" /\ runs[r].resume
        /\ faults' = faults /\ undisturbed' = undisturbed
    BY RunFields DEF InvokeToResume
  <1>2. /\ run \in Run /\ run.pc = thread.next
        /\ run.drafts = runs[r].drafts /\ run.state = thread
    BY RunFields DEF Run, Node
  <1> HIDE DEF run
  <1>3. thread.next = "END" => Checked(thread)
    BY <1>1, RunFields DEF ThreadInv
  <1>4. Proper(run)
    BY <1>1, <1>2, <1>3, RunFields DEF Proper, Node
  <1>5. Becomes(r, run, thread)
    BY <1>1, RunFields DEF Becomes
  <1> QED
    BY <1>2, <1>3, <1>4, <1>5, RunFields, BecomesKeeps

\* A run composes a draft.
LEMMA ComposeKeeps ==
  ASSUME SubagentInv, NEW t \in Tasks, NEW n \in 1 .. TaskMaxAttempts, Compose(<<t, n>>)
  PROVE  SubagentInv'
  <1> DEFINE r == <<t, n>>
  <1>1. r \in Runs /\ r[1] = t
    BY AttemptIsRun
  <1> HIDE DEF r
  <1>2. PICK draft \in {"passes", "violates"} :
          LET s == Composed(runs[r].state, Goal[r[1]], draft)
          IN  /\ thread' = s
              /\ runs' = [runs EXCEPT ![r].pc = s.next, ![r].state = s,
                                      ![r].drafts = runs[r].drafts + 1]
    BY DEF Compose, r
  <1> DEFINE s == Composed(runs[r].state, Goal[r[1]], draft)
             run == [runs[r] EXCEPT !.pc = s.next, !.state = s, !.drafts = runs[r].drafts + 1]
  <1>3. /\ s \in SMSState /\ s.next = "output_guardrails"
        /\ s.guardrail_attempts = runs[r].state.guardrail_attempts
    BY <1>1, RunFields, ComposedType
  <1>4. runs' = [runs EXCEPT ![r] = run] /\ thread' = s
    BY <1>1, <1>2, RunFields
  <1>5. /\ runs[r].pc = "compose"
        /\ faults' = faults /\ undisturbed' = undisturbed
    BY DEF Compose, r
  <1> HIDE DEF s
  <1>6. runs[r].drafts + 1 \in Nat
    BY <1>1, RunFields
  <1>7. /\ run \in Run /\ run.pc = "output_guardrails"
        /\ run.drafts = runs[r].drafts + 1 /\ run.state = s
    BY <1>1, <1>3, <1>6, RunFields DEF Run
  <1> HIDE DEF run
  <1>8. Proper(run)
    BY <1>1, <1>3, <1>5, <1>7, RunFields DEF Proper
  <1>9. Becomes(r, run, s)
    BY <1>1, <1>4, <1>5, RunFields DEF Becomes
  <1> QED
    BY <1>1, <1>3, <1>7, <1>8, <1>9, BecomesKeeps

\* A run has its draft checked.
LEMMA GuardrailsKeep ==
  ASSUME SubagentInv, NEW r \in Runs, OutputGuardrails(r)
  PROVE  SubagentInv'
  <1> DEFINE s == Guarded(runs[r].state)
             run == [runs[r] EXCEPT !.pc = s.next, !.state = s]
  <1>1. /\ s \in SMSState
        /\ s.guardrail_attempts = runs[r].state.guardrail_attempts + 1
        /\ \/ s.next = "END" /\ Checked(s)
           \/ /\ s.next = "compose"
              /\ runs[r].state.guardrail_attempts + 1 < MAX_GUARDRAIL_ATTEMPTS
    BY RunFields, GuardedType
  <1>2. /\ runs' = [runs EXCEPT ![r] = run] /\ thread' = s
        /\ runs[r].pc = "output_guardrails"
        /\ faults' = faults /\ undisturbed' = undisturbed
    BY RunFields DEF OutputGuardrails
  <1> HIDE DEF s
  <1>3. /\ run \in Run /\ run.pc = s.next
        /\ run.drafts = runs[r].drafts /\ run.state = s
    BY <1>1, RunFields DEF Run
  <1> HIDE DEF run
  <1>4. Proper(run)
    BY <1>1, <1>2, <1>3, RunFields DEF Proper
  <1>5. Becomes(r, run, s)
    BY <1>2, RunFields DEF Becomes
  <1> QED
    BY <1>1, <1>3, <1>4, <1>5, BecomesKeeps

\* A run is over without a reply.
LEMMA FailKeeps ==
  ASSUME SubagentInv, NEW r \in Runs,
         runs' = [runs EXCEPT ![r] = Failed(r)], thread' = thread,
         faults' \in 0 .. MaxFaults, undisturbed' \in BOOLEAN
  PROVE  SubagentInv'
  <1>1. Becomes(r, Failed(r), thread)
    BY DEF Becomes
  <1> QED
    BY <1>1, FailedType, RunFields, BecomesKeeps

\* A run is over.
LEMMA ReturnKeeps ==
  ASSUME SubagentInv, NEW r \in Runs, Return(r)
  PROVE  SubagentInv'
  <1>1. thread' = thread /\ faults' \in 0 .. MaxFaults /\ undisturbed' \in BOOLEAN
    BY RunFields DEF Return
  <1>2. CASE thread.next = "END"
    <2> DEFINE run == [runs[r] EXCEPT !.pc = "replied"]
    <2>1. runs' = [runs EXCEPT ![r] = run] /\ runs[r].pc = "END"
      BY <1>2 DEF Return
    <2>2. /\ run \in Run /\ run.pc = "replied" /\ run.resume = runs[r].resume
          /\ run.drafts = runs[r].drafts /\ run.state = runs[r].state
      BY RunFields DEF Run
    <2> HIDE DEF run
    <2>3. Proper(run)
      BY <2>1, <2>2, RunFields DEF Proper
    <2>4. Becomes(r, run, thread)
      BY <1>1, <2>1 DEF Becomes
    <2> QED
      BY <2>2, <2>3, <2>4, RunFields, BecomesKeeps
  <1>3. CASE thread.next # "END"
    <2>1. runs' = [runs EXCEPT ![r] = Failed(r)]
      BY <1>3 DEF Return
    <2> QED
      BY <1>1, <2>1, FailKeeps
  <1> QED
    BY <1>2, <1>3

\* A fault leaves the counters within their types.
LEMMA FaultType ==
  ASSUME SubagentInv, Fault
  PROVE  faults' \in 0 .. MaxFaults /\ undisturbed' \in BOOLEAN
  <1>1. faults' \in 0 .. MaxFaults
    BY GraphAssumption DEF SubagentInv, SubagentTypeOK, Fault
  <1>2. undisturbed' \in BOOLEAN
    BY DEF Fault
  <1> QED
    BY <1>1, <1>2

\* A run is given up.
LEMMA TimeOutKeeps ==
  ASSUME SubagentInv, NEW r \in Runs, RunTimesOut(r)
  PROVE  SubagentInv'
  <1> DEFINE run == [runs[r] EXCEPT !.abandoned = TRUE]
  <1>1. /\ runs' = [runs EXCEPT ![r] = run] /\ thread' = thread
        /\ faults' \in 0 .. MaxFaults /\ undisturbed' \in BOOLEAN
    BY FaultType DEF RunTimesOut
  <1>2. run \in Run
    BY RunFields DEF Run
  <1>3. /\ run.pc = runs[r].pc /\ run.resume = runs[r].resume
        /\ run.drafts = runs[r].drafts /\ run.state = runs[r].state
    BY RunFields DEF Run
  <1> HIDE DEF run
  <1>4. Proper(run)
    BY <1>3, RunFields DEF Proper
  <1>5. Becomes(r, run, thread)
    BY <1>1 DEF Becomes
  <1> QED
    BY <1>2, <1>3, <1>4, <1>5, RunFields, BecomesKeeps

\* Every step keeps the invariant.
LEMMA SubagentStep == SubagentInv /\ [Next]_vars => SubagentInv'
  <1> SUFFICES ASSUME SubagentInv, [Next]_vars PROVE SubagentInv'
    OBVIOUS
  <1>1. CASE UNCHANGED vars
    BY <1>1 DEF vars, SubagentInv, SubagentTypeOK, ThreadInv, Proper, Checked
  <1>2. CASE Next
    <2>1. PICK t \in Tasks, n \in 1 .. TaskMaxAttempts : RunStep(t, n) \/ RunEvent(t, n)
      BY <1>2 DEF Next
    <2>2. <<t, n>> \in Runs
      BY AttemptIsRun
    <2>3. CASE ComposeFails(<<t, n>>) \/ RunDies(<<t, n>>)
      BY <2>2, <2>3, FaultType, FailKeeps DEF ComposeFails, RunDies, Fails
    <2>4. CASE \/ InvokeWithInput(t, n) \/ InvokeToResume(<<t, n>>) \/ Compose(<<t, n>>)
               \/ OutputGuardrails(<<t, n>>) \/ Return(<<t, n>>)
      BY <2>2, <2>4, InvokeKeeps, ResumeKeeps, ComposeKeeps, GuardrailsKeep, ReturnKeeps
    <2>5. CASE BeginRun(t, n) \/ RunTimesOut(<<t, n>>)
      BY <2>2, <2>5, BeginKeeps, TimeOutKeeps
    <2> QED
      BY <2>1, <2>3, <2>4, <2>5 DEF RunStep, RunEvent
  <1> QED
    BY <1>1, <1>2

-----------------------------------------------------------------------------
\* The inductive invariant of the subagent.
LEMMA SubagentInvariant == Spec => []SubagentInv
  BY SubagentInit, SubagentStep, PTL DEF Spec

(* The thread and every run keep their types (SMSState of state.py and the *)
(* local state of get_response), whatever overlaps and fails.              *)
THEOREM SubagentTypeCorrect == Spec => []SubagentTypeOK
  <1>1. SubagentInv => SubagentTypeOK
    BY DEF SubagentInv
  <1> QED
    BY <1>1, SubagentInvariant, PTL

(* However many runs share a thread, and whatever they overwrite, none of  *)
(* them composes more than MAX_GUARDRAIL_ATTEMPTS drafts: the loop between *)
(* compose and output_guardrails ends.                                     *)
THEOREM DraftsBounded == Spec => []DraftsAreBounded
  <1>1. SubagentInv => DraftsAreBounded
    BY DEF SubagentInv, Proper, DraftsAreBounded
  <1> QED
    BY <1>1, SubagentInvariant, PTL

(* An interaction that reports success returns a message that the output   *)
(* guardrails passed or their apology, even where it resumed a graph that  *)
(* another run had left, or whose thread another run has overwritten.      *)
THEOREM RepliesChecked == Spec => []RepliesAreChecked
  <1>1. SubagentInv => RepliesAreChecked
    BY DEF SubagentInv, Proper, RepliesAreChecked, Checked
  <1> QED
    BY <1>1, SubagentInvariant, PTL
-----------------------------------------------------------------------------
(* A contact whose runs neither overlap nor fail.                          *)

\* Such a step keeps the invariant if no other run is in flight and the thread forgets no turn.
LEMMA BecomesUndisturbed ==
  ASSUME SubagentInv, UndisturbedInv, NEW r \in Runs, NEW run \in Run, NEW s \in SMSState,
         Becomes(r, run, s),
         undisturbed' =>
           /\ undisturbed
           /\ \A q \in Runs : InFlight(q) => q = r
           /\ thread.heard \subseteq s.heard
           /\ Faithful(run, r[1], s)
           /\ run.pc \in {"off", "replied", "failed"} => s.next = "END"
  PROVE  UndisturbedInv'
  <1> SUFFICES ASSUME undisturbed'
               PROVE  /\ \A p, q \in Runs : InFlight(p)' /\ InFlight(q)' => p = q
                      /\ (\A q \in Runs : ~InFlight(q)') => s.next = "END"
                      /\ \A q \in Runs : Faithful(runs'[q], q[1], s)
    BY DEF UndisturbedInv, Becomes
  <1>1. /\ runs'[r] = run
        /\ \A q \in Runs \ {r} : runs'[q] = runs[q] /\ ~InFlight(q)
    BY DEF SubagentInv, SubagentTypeOK, Becomes
  <1>2. \A q \in Runs : InFlight(q)' => q = r
    BY <1>1 DEF InFlight
  <1>3. (\A q \in Runs : ~InFlight(q)') => s.next = "END"
    BY <1>1 DEF InFlight
  <1>4. ASSUME NEW q \in Runs PROVE Faithful(runs'[q], q[1], s)
    <2>1. CASE q = r
      BY <1>1, <2>1
    <2>2. CASE q # r
      <3>1. /\ runs'[q] = runs[q] /\ runs[q].pc \in {"off", "replied", "failed"}
            /\ Faithful(runs[q], q[1], thread) /\ thread.heard \subseteq s.heard
        BY <1>1, <2>2 DEF InFlight, UndisturbedInv
      <3> QED
        BY <3>1 DEF Faithful
    <2> QED
      BY <2>1, <2>2
  <1> QED
    BY <1>2, <1>3, <1>4

\* What the invariant says of an undisturbed run in flight.
LEMMA UndisturbedRun ==
  ASSUME UndisturbedInv, NEW r \in Runs, undisturbed, InFlight(r)
  PROVE  /\ \A q \in Runs : InFlight(q) => q = r
         /\ Faithful(runs[r], r[1], thread)
  BY DEF UndisturbedInv

\* A run begins: in an undisturbed thread it finds the graph at its end.
LEMMA BeginUndisturbed ==
  ASSUME SubagentInv, UndisturbedInv, NEW t \in Tasks, NEW n \in 1 .. TaskMaxAttempts,
         BeginRun(t, n)
  PROVE  UndisturbedInv'
  <1> DEFINE r == <<t, n>>
             found == thread.next # "END"
             run == [runs[r] EXCEPT !.pc = "invoke", !.resume = found]
  <1>1. r \in Runs
    BY AttemptIsRun
  <1>2. /\ runs[r] \in Run /\ found \in BOOLEAN /\ thread \in SMSState
        /\ runs \in [Runs -> Run]
        /\ undisturbed' \in BOOLEAN /\ faults' \in 0 .. MaxFaults
    BY <1>1, RunFields DEF BeginRun
  <1>3. runs' = [runs EXCEPT ![r] = run] /\ thread' = thread
    BY <1>1, <1>2 DEF BeginRun
  <1>4. undisturbed' => undisturbed /\ \A q \in Runs : ~InFlight(q)
    BY DEF BeginRun
  <1> HIDE DEF r
  <1>5. run \in Run /\ run.pc = "invoke" /\ run.resume = found
    BY <1>2 DEF Run
  <1>6. Becomes(r, run, thread)
    BY <1>2, <1>3 DEF Becomes
  <1> HIDE DEF run
  <1>7. undisturbed' => thread.next = "END"
    BY <1>4 DEF UndisturbedInv
  <1>8. undisturbed' => Faithful(run, r[1], thread)
    BY <1>5, <1>7 DEF Faithful
  <1> QED
    BY <1>1, <1>2, <1>4, <1>5, <1>6, <1>8, BecomesUndisturbed

\* A run adds its turn.
LEMMA InvokeUndisturbed ==
  ASSUME SubagentInv, UndisturbedInv, NEW t \in Tasks, NEW n \in 1 .. TaskMaxAttempts,
         InvokeWithInput(t, n)
  PROVE  UndisturbedInv'
  <1> DEFINE r == <<t, n>>
             s == WithTurn(thread, t)
             run == [runs[r] EXCEPT !.pc = "compose", !.state = s]
  <1>1. r \in Runs /\ r[1] = t
    BY AttemptIsRun
  <1>2. /\ s \in SMSState /\ s.next = "compose"
        /\ s.heard = thread.heard \cup {t}
    BY <1>1, RunFields, WithTurnType, OperatorsKeepHeard
  <1>3. /\ runs' = [runs EXCEPT ![r] = run] /\ thread' = s /\ runs[r].pc = "invoke"
        /\ faults' = faults /\ undisturbed' = undisturbed
    BY <1>1, RunFields DEF InvokeWithInput
  <1> HIDE DEF r, s
  <1>4. run \in Run /\ run.pc = "compose" /\ run.state = s
    BY <1>1, <1>2, RunFields DEF Run
  <1> HIDE DEF run
  <1>5. Faithful(run, r[1], s)
    BY <1>1, <1>2, <1>4 DEF Faithful
  <1>6. Becomes(r, run, s)
    BY <1>1, <1>3, RunFields DEF Becomes
  <1>7. InFlight(r)
    BY <1>3 DEF InFlight
  <1> QED
    BY <1>1, <1>2, <1>3, <1>4, <1>5, <1>6, <1>7, UndisturbedRun, BecomesUndisturbed

\* No undisturbed run resumes.
LEMMA ResumeUndisturbed ==
  ASSUME SubagentInv, UndisturbedInv, NEW r \in Runs, InvokeToResume(r)
  PROVE  UndisturbedInv'
  <1>1. runs[r].pc = "invoke" /\ runs[r].resume /\ undisturbed' = undisturbed
    BY DEF InvokeToResume
  <1>2. ~undisturbed
    BY <1>1 DEF UndisturbedInv, Faithful
  <1> QED
    BY <1>1, <1>2 DEF UndisturbedInv

\* A run composes a draft in a thread that holds its turn.
LEMMA ComposeUndisturbed ==
  ASSUME SubagentInv, UndisturbedInv, NEW t \in Tasks, NEW n \in 1 .. TaskMaxAttempts,
         Compose(<<t, n>>)
  PROVE  UndisturbedInv'
  <1> DEFINE r == <<t, n>>
  <1>1. r \in Runs /\ r[1] = t
    BY AttemptIsRun
  <1> HIDE DEF r
  <1>2. PICK draft \in {"passes", "violates"} :
          LET s == Composed(runs[r].state, Goal[r[1]], draft)
          IN  /\ thread' = s
              /\ runs' = [runs EXCEPT ![r].pc = s.next, ![r].state = s,
                                      ![r].drafts = runs[r].drafts + 1]
    BY DEF Compose, r
  <1> DEFINE s == Composed(runs[r].state, Goal[r[1]], draft)
             run == [runs[r] EXCEPT !.pc = s.next, !.state = s, !.drafts = runs[r].drafts + 1]
  <1>3. /\ s \in SMSState /\ s.next = "output_guardrails"
        /\ s.heard = runs[r].state.heard
    BY <1>1, RunFields, ComposedType, OperatorsKeepHeard
  <1>4. runs' = [runs EXCEPT ![r] = run] /\ thread' = s
    BY <1>1, <1>2, RunFields
  <1>5. /\ runs[r].pc = "compose"
        /\ faults' = faults /\ undisturbed' = undisturbed
    BY DEF Compose, r
  <1> HIDE DEF s
  <1>6. runs[r].drafts + 1 \in Nat /\ runs[r].drafts + 1 > 0
    BY <1>1, RunFields
  <1>7. /\ run \in Run /\ run.pc = "output_guardrails"
        /\ run.drafts = runs[r].drafts + 1 /\ run.state = s
    BY <1>1, <1>3, <1>6, RunFields DEF Run
  <1> HIDE DEF run
  <1>8. InFlight(r)
    BY <1>5 DEF InFlight
  <1>9. undisturbed => /\ thread = runs[r].state /\ t \in thread.heard
                       /\ \A q \in Runs : InFlight(q) => q = r
    BY <1>1, <1>5, <1>8, UndisturbedRun DEF Faithful
  <1>10. undisturbed => Faithful(run, r[1], s)
    BY <1>1, <1>3, <1>6, <1>7, <1>9 DEF Faithful
  <1>11. Becomes(r, run, s)
    BY <1>1, <1>4, <1>5, RunFields DEF Becomes
  <1> QED
    BY <1>1, <1>3, <1>5, <1>7, <1>9, <1>10, <1>11, BecomesUndisturbed

\* A run has its draft checked: the thread is at its end, or at compose once more.
LEMMA GuardrailsUndisturbed ==
  ASSUME SubagentInv, UndisturbedInv, NEW r \in Runs, OutputGuardrails(r)
  PROVE  UndisturbedInv'
  <1> DEFINE s == Guarded(runs[r].state)
             run == [runs[r] EXCEPT !.pc = s.next, !.state = s]
  <1>1. /\ s \in SMSState /\ s.next \in {"END", "compose"}
        /\ s.heard = runs[r].state.heard
    BY RunFields, GuardedType, OperatorsKeepHeard
  <1>2. /\ runs' = [runs EXCEPT ![r] = run] /\ thread' = s
        /\ runs[r].pc = "output_guardrails"
        /\ faults' = faults /\ undisturbed' = undisturbed
    BY RunFields DEF OutputGuardrails
  <1> HIDE DEF s
  <1>3. /\ run \in Run /\ run.pc = s.next
        /\ run.drafts = runs[r].drafts /\ run.state = s
    BY <1>1, RunFields DEF Run
  <1> HIDE DEF run
  <1>4. InFlight(r)
    BY <1>2 DEF InFlight
  <1>5. undisturbed => /\ thread = runs[r].state /\ r[1] \in thread.heard
                       /\ runs[r].drafts > 0
                       /\ \A q \in Runs : InFlight(q) => q = r
    BY <1>2, <1>4, UndisturbedRun DEF Faithful
  <1>6. undisturbed => Faithful(run, r[1], s)
    BY <1>1, <1>3, <1>5 DEF Faithful
  <1>7. Becomes(r, run, s)
    BY <1>2, RunFields DEF Becomes
  <1> QED
    BY <1>1, <1>2, <1>3, <1>5, <1>6, <1>7, BecomesUndisturbed

\* A run that is over undisturbed has replied.
LEMMA ReturnUndisturbed ==
  ASSUME SubagentInv, UndisturbedInv, NEW r \in Runs, Return(r)
  PROVE  UndisturbedInv'
  <1>1. /\ thread' = thread /\ faults' = faults /\ runs[r].pc = "END"
        /\ undisturbed' = (undisturbed /\ thread.next = "END")
    BY DEF Return
  <1>2. CASE ~undisturbed'
    BY <1>2 DEF UndisturbedInv
  <1>3. CASE undisturbed'
    <2> DEFINE run == [runs[r] EXCEPT !.pc = "replied"]
    <2>1. undisturbed /\ thread.next = "END"
      BY <1>1, <1>3
    <2>2. runs' = [runs EXCEPT ![r] = run]
      BY <2>1 DEF Return
    <2>3. /\ run \in Run /\ run.pc = "replied"
          /\ run.drafts = runs[r].drafts /\ run.state = runs[r].state
      BY RunFields DEF Run
    <2> HIDE DEF run
    <2>4. InFlight(r)
      BY <1>1 DEF InFlight
    <2>5. Faithful(run, r[1], thread) /\ \A q \in Runs : InFlight(q) => q = r
      BY <1>1, <2>1, <2>3, <2>4, UndisturbedRun DEF Faithful
    <2>6. Becomes(r, run, thread)
      BY <1>1, <2>1, <2>2, RunFields DEF Becomes
    <2> QED
      BY <2>1, <2>3, <2>5, <2>6, RunFields, BecomesUndisturbed
  <1> QED
    BY <1>2, <1>3

\* Every step keeps the invariant.
LEMMA UndisturbedStep == SubagentInv /\ UndisturbedInv /\ [Next]_vars => UndisturbedInv'
  <1> SUFFICES ASSUME SubagentInv, UndisturbedInv, [Next]_vars PROVE UndisturbedInv'
    OBVIOUS
  <1>1. CASE UNCHANGED vars
    BY <1>1 DEF vars, UndisturbedInv, InFlight
  <1>2. CASE Next
    <2>1. PICK t \in Tasks, n \in 1 .. TaskMaxAttempts : RunStep(t, n) \/ RunEvent(t, n)
      BY <1>2 DEF Next
    <2>2. <<t, n>> \in Runs
      BY AttemptIsRun
    <2>3. CASE ComposeFails(<<t, n>>) \/ RunDies(<<t, n>>) \/ RunTimesOut(<<t, n>>)
      <3>1. ~undisturbed'
        BY <2>3 DEF ComposeFails, RunDies, RunTimesOut, Fails, Fault
      <3> QED
        BY <3>1 DEF UndisturbedInv
    <2>4. CASE \/ InvokeToResume(<<t, n>>) \/ OutputGuardrails(<<t, n>>) \/ Return(<<t, n>>)
      BY <2>2, <2>4, ResumeUndisturbed, GuardrailsUndisturbed, ReturnUndisturbed
    <2>5. CASE BeginRun(t, n) \/ InvokeWithInput(t, n) \/ Compose(<<t, n>>)
      BY <2>5, BeginUndisturbed, InvokeUndisturbed, ComposeUndisturbed
    <2> QED
      BY <2>1, <2>3, <2>4, <2>5 DEF RunStep, RunEvent
  <1> QED
    BY <1>1, <1>2

(* While a contact's interactions neither overlap nor fail, each has       *)
(* composed a draft of its own in a thread that holds its own turn, and the*)
(* thread keeps the turns of all those that have replied: ainvoke appends  *)
(* to the checkpoint, and no node drops a message.                         *)
THEOREM UndisturbedRunsShareTheThread == Spec => []UndisturbedSeesPriorTurns
  <1>1. Init => UndisturbedInv
    BY NewTypes DEF Init, UndisturbedInv, InFlight, Faithful, NewThread
  <1>2. UndisturbedInv => UndisturbedSeesPriorTurns
    BY DEF UndisturbedInv, UndisturbedSeesPriorTurns, Faithful
  <1> QED
    BY <1>1, <1>2, SubagentInvariant, UndisturbedStep, PTL DEF Spec
=============================================================================
