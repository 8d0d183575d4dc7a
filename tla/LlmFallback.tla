---------------------------- MODULE LlmFallback -----------------------------
(***************************************************************************)
(* LLMService.call (app/services/llm/service.py): a call asks one model,   *)
(* up to MAX_LLM_CALL_RETRIES times, and then the next one of the registry,*)
(* in a circle, until a model answers or as many models as there are have  *)
(* been tried.                                                             *)
(*                                                                         *)
(* Calls share an event loop, and yield only while they await a provider,  *)
(* so a step is what happens between two awaits.  Default calls share      *)
(* _current_model_index (_llm is the model it points at; no tools are      *)
(* bound, so re-binding them cannot fail); one-off calls keep their own.   *)
(***************************************************************************)
EXTENDS Integers

CONSTANTS
  Calls,                \* callers of the service; each has one call at a time
  OneOff,               \* those that name a model: nodes/voice_compose.py
  TotalModels,          \* len(LLMRegistry.LLMS)
  MAX_LLM_CALL_RETRIES

ASSUME LlmAssumption ==
  /\ OneOff \subseteq Calls
  /\ TotalModels \in Nat \ {0}
  /\ MAX_LLM_CALL_RETRIES \in Nat \ {0}

VARIABLES current_model_index, calls

vars == <<current_model_index, calls>>

Models == 0 .. TotalModels - 1

\* Wrong: the circle is not closed.
NextModelInLine(m) == m + 1

NextModel(m) == (m + 1) % TotalModels

(* tried and disturbed are history: the models this call has asked, and    *)
(* whether another default call moved the shared index meanwhile.          *)
Call ==
  [pc : {"idle", "trying", "all_failed"},
   current : Models, models_tried : 0 .. TotalModels, attempt : 1 .. MAX_LLM_CALL_RETRIES,
   tried : SUBSET Models, disturbed : BOOLEAN]

NoCall == [pc |-> "idle", current |-> 0, models_tried |-> 0, attempt |-> 1,
           tried |-> {}, disturbed |-> FALSE]

\* DEFAULT_LLM_MODEL may be any model; an unknown one means the first.
Init ==
  /\ current_model_index \in Models
  /\ calls = [c \in Calls |-> NoCall]

Trying(c) == calls[c].pc = "trying"

CallLlm(c) ==
  /\ ~Trying(c)
  /\ \E start \in IF c \in OneOff THEN Models ELSE {current_model_index} :
       calls' = [calls EXCEPT ![c] =
                   [pc |-> "trying", current |-> start, models_tried |-> 1, attempt |-> 1,
                    tried |-> {start}, disturbed |-> FALSE]]
  /\ UNCHANGED current_model_index

(* The model answers; or the total budget is spent, or something that is   *)
(* no OpenAIError is raised.  The index stays where the call has moved it. *)
CallEnds(c) ==
  /\ Trying(c)
  /\ calls' = [calls EXCEPT ![c] = NoCall]
  /\ UNCHANGED current_model_index

\* A rate limit, a timeout or an API error, with attempts left.
ModelIsRetried(c) ==
  /\ Trying(c)
  /\ calls[c].attempt < MAX_LLM_CALL_RETRIES
  /\ calls' = [calls EXCEPT ![c].attempt = calls[c].attempt + 1]
  /\ UNCHANGED current_model_index

\* Wrong: the model is not counted.
OnModelUncounted(call, m) ==
  [call EXCEPT !.current = m, !.attempt = 1, !.tried = call.tried \cup {m}]

OnModel(call, m) ==
  [pc |-> "trying", current |-> m, models_tried |-> call.models_tried + 1, attempt |-> 1,
   tried |-> call.tried \cup {m}, disturbed |-> call.disturbed]

\* Wrong: one model too few.
LastModelTooSoon(c) == calls[c].models_tried + 1 >= TotalModels

LastModel(c) == calls[c].models_tried >= TotalModels

(* A model has failed for good: on its last attempt, or on any with an     *)
(* OpenAIError that is not retried.  Nothing is left to try ...            *)
AllModelsFail(c) ==
  /\ Trying(c)
  /\ LastModel(c)
  /\ calls' = [calls EXCEPT ![c].pc = "all_failed"]
  /\ UNCHANGED current_model_index

\* ... a one-off call goes on with the model after its own ...
OneOffAdvances(c) ==
  /\ Trying(c)
  /\ c \in OneOff
  /\ ~LastModel(c)
  /\ calls' = [calls EXCEPT ![c] = OnModel(calls[c], NextModel(calls[c].current))]
  /\ UNCHANGED current_model_index

\* ... and a default call moves the shared index and goes on with its model.
SwitchToNextModel(c) ==
  LET next == NextModel(current_model_index)
      Disturbed(d) == Trying(d) /\ d \notin OneOff
  IN  /\ Trying(c)
      /\ c \notin OneOff
      /\ ~LastModel(c)
      /\ current_model_index' = next
      /\ calls' = [d \in Calls |->
                     IF d = c THEN OnModel(calls[c], next)
                     ELSE [calls[d] EXCEPT !.disturbed = calls[d].disturbed \/ Disturbed(d)]]

LlmStep(c) ==
  \/ CallEnds(c) \/ ModelIsRetried(c) \/ AllModelsFail(c)
  \/ OneOffAdvances(c) \/ SwitchToNextModel(c)

Next == \E c \in Calls : CallLlm(c) \/ LlmStep(c)

Spec == Init /\ [][Next]_vars

(* A provider answers, fails, or runs into the total budget: the outcome   *)
(* of a request that is out is only a matter of time.                      *)
FairSpec == Spec /\ \A c \in Calls : WF_vars(LlmStep(c))

-----------------------------------------------------------------------------
(* Every variable has the type of the attribute it stands for.             *)
LlmTypeOK ==
  /\ current_model_index \in Models
  /\ calls \in [Calls -> Call]

(* A call that reports that all models failed has asked every model of the *)
(* registry, provided that no other default call switched models while it  *)
(* ran.  A one-off call needs no such luck.  Without the proviso a default *)
(* call may ask one model twice and another, that would have answered, not *)
(* at all.                                                                 *)
UndisturbedTriesEveryModel ==
  \A c \in Calls :
    calls[c].pc = "all_failed" /\ ~calls[c].disturbed => calls[c].tried = Models

(* No call circles for ever, though other calls keep moving the index it   *)
(* follows: it ends after as many models as there are.                     *)
CallsEnd == \A c \in Calls : Trying(c) ~> ~Trying(c)

=============================================================================
