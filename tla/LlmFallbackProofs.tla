------------------------- MODULE LlmFallbackProofs --------------------------
(***************************************************************************)
(* A call of the LLM service that no other one disturbs tries every model  *)
(* of the registry before it gives up, however many models and callers     *)
(* there are.  The invariant behind it: such a call has tried an arc of the*)
(* circle of models, as long as its count, that ends where it is; and if it*)
(* follows the shared index, the index is there too.                       *)
(***************************************************************************)
EXTENDS LlmFallback, TLAPS

\* n models from s on.
Arc(s, n) == {(s + i) % TotalModels : i \in 0 .. n - 1}

-----------------------------------------------------------------------------
(* Arithmetic on the circle.                                               *)

\* Short of a full turn the remainder is the number ...
LEMMA ShortOfATurn ==
  ASSUME NEW d \in Nat \ {0}, NEW x \in 0 .. d - 1
  PROVE  x % d = x
  OBVIOUS

\* ... and one turn is cut off.
LEMMA OneTurn ==
  ASSUME NEW d \in Nat \ {0}, NEW x \in 0 .. d - 1
  PROVE  (x + d) % d = x
  OBVIOUS

\* A remainder is a model.
LEMMA RemainderIsModel ==
  ASSUME NEW x \in Nat
  PROVE  x % TotalModels \in Models
  BY LlmAssumption DEF Models

\* The model after that of a place is the model of the next place.
LEMMA NextOnCircle ==
  ASSUME NEW s \in Models, NEW n \in 1 .. TotalModels
  PROVE  NextModel((s + n - 1) % TotalModels) = (s + n) % TotalModels
  <1> DEFINE N == TotalModels
  <1>0. N \in Nat \ {0} /\ s \in 0 .. N - 1 /\ n \in 1 .. N
    BY LlmAssumption DEF Models
  <1> SUFFICES (((s + n - 1) % N) + 1) % N = (s + n) % N
    BY DEF NextModel
  <1> HIDE DEF N
  <1>1. CASE s + n - 1 < N
    BY <1>0, <1>1, ShortOfATurn
  <1>2. CASE s + n - 1 >= N
    <2>1. s + n - 1 - N \in 0 .. N - 1 /\ s + n - N \in 0 .. N - 1
      BY <1>0, <1>2
    <2>2. (s + n - 1 - N + N) % N = s + n - 1 - N /\ (s + n - N + N) % N = s + n - N
      BY <1>0, <2>1, OneTurn
    <2>3. (s + n - 1) % N = s + n - 1 - N /\ (s + n) % N = s + n - N
      BY <1>0, <2>2
    <2>4. (s + n - N) % N = s + n - N
      BY <1>0, <2>1, ShortOfATurn
    <2>5. ((s + n - 1) % N) + 1 = s + n - N
      BY <1>0, <2>3
    <2> QED
      BY <2>3, <2>4, <2>5
  <1> QED
    BY <1>0, <1>1, <1>2

\* An arc of one model, ...
LEMMA ArcOfOne ==
  ASSUME NEW s \in Models
  PROVE  Arc(s, 1) = {s} /\ (s + 1 - 1) % TotalModels = s
  <1>1. s % TotalModels = s /\ s \in Int
    BY LlmAssumption, ShortOfATurn DEF Models
  <1>2. 0 .. 1 - 1 = {0}
    OBVIOUS
  <1>3. s + 0 = s /\ s + 1 - 1 = s
    BY <1>1
  <1> QED
    BY <1>1, <1>2, <1>3 DEF Arc

\* ... one that is longer by one model ...
LEMMA ArcGrows ==
  ASSUME NEW s \in Models, NEW n \in Nat
  PROVE  Arc(s, n + 1) = Arc(s, n) \cup {(s + n) % TotalModels}
  <1>1. 0 .. (n + 1) - 1 = (0 .. n - 1) \cup {n}
    OBVIOUS
  <1> QED
    BY <1>1 DEF Arc

\* ... and one that goes all the way round.
LEMMA FullArc ==
  ASSUME NEW s \in Models
  PROVE  Arc(s, TotalModels) = Models
  <1> DEFINE N == TotalModels
  <1>0. N \in Nat \ {0} /\ s \in 0 .. N - 1 /\ Models = 0 .. N - 1
    BY LlmAssumption DEF Models
  <1>1. ASSUME NEW m \in Arc(s, N)
        PROVE  m \in Models
    <2>1. PICK i \in 0 .. N - 1 : m = (s + i) % N
      BY <1>1 DEF Arc
    <2>2. s + i \in Nat
      BY <1>0
    <2> QED
      BY <2>1, <2>2, RemainderIsModel
  <1>2. ASSUME NEW m \in Models
        PROVE  m \in Arc(s, N)
    <2> SUFFICES \E i \in 0 .. N - 1 : m = (s + i) % N
      BY DEF Arc
    <2> HIDE DEF N
    <2>1. CASE m >= s
      <3>1. m - s \in 0 .. N - 1 /\ (s + (m - s)) % N = m
        BY <1>0, <2>1, ShortOfATurn
      <3> QED
        BY <3>1
    <2>2. CASE m < s
      <3>1. m - s + N \in 0 .. N - 1 /\ s + (m - s + N) = m + N
        BY <1>0, <2>2
      <3>2. (m + N) % N = m
        BY <1>0, OneTurn
      <3> QED
        BY <3>1, <3>2
    <2> QED
      BY <1>0, <2>1, <2>2
  <1> QED
    BY <1>1, <1>2

-----------------------------------------------------------------------------
\* The call k, in flight or given up, has tried the arc that ends where it is.
OnArc(k) ==
  \E s \in Models : /\ k.tried = Arc(s, k.models_tried)
                    /\ k.current = (s + k.models_tried - 1) % TotalModels

Orderly(c) ==
  /\ calls[c].pc # "idle" => calls[c].models_tried >= 1
  /\ calls[c].pc # "idle" /\ ~calls[c].disturbed => OnArc(calls[c])
  /\ Trying(c) /\ ~calls[c].disturbed /\ c \notin OneOff
       => calls[c].current = current_model_index
  /\ calls[c].pc = "all_failed" => calls[c].models_tried = TotalModels

CycleInv == LlmTypeOK /\ \A c \in Calls : Orderly(c)

\* The record of an idle caller.
LEMMA NoCallType == NoCall \in Call
  BY LlmAssumption DEF NoCall, Call, Models

\* The first model of a call.
FirstCall(s) ==
  [pc |-> "trying", current |-> s, models_tried |-> 1, attempt |-> 1,
   tried |-> {s}, disturbed |-> FALSE]

\* A call that has just begun.
LEMMA FirstModel ==
  ASSUME NEW s \in Models
  PROVE  /\ FirstCall(s) \in Call
         /\ FirstCall(s).pc = "trying" /\ FirstCall(s).models_tried = 1
         /\ FirstCall(s).current = s
         /\ OnArc(FirstCall(s))
  <1>1. FirstCall(s) \in Call
    BY LlmAssumption DEF FirstCall, Call, Models
  <1>2. OnArc(FirstCall(s))
    BY ArcOfOne DEF OnArc, FirstCall
  <1> QED
    BY <1>1, <1>2 DEF FirstCall

\* The next model of a call that has tried too few.
LEMMA OnNextModel ==
  ASSUME NEW k \in Call, k.pc = "trying", k.models_tried < TotalModels, NEW m \in Models
  PROVE  /\ OnModel(k, m) \in Call
         /\ OnModel(k, m).pc = "trying"
         /\ OnModel(k, m).models_tried >= 1
         /\ OnModel(k, m).current = m
         /\ OnModel(k, m).disturbed = k.disturbed
         /\ OnArc(k) /\ k.models_tried >= 1 /\ m = NextModel(k.current) => OnArc(OnModel(k, m))
  <1>2. k.models_tried \in 0 .. TotalModels - 1
    BY LlmAssumption DEF Call
  <1>3. OnModel(k, m) \in Call
    BY <1>2, LlmAssumption DEF OnModel, Call, Models
  <1>4. ASSUME OnArc(k), k.models_tried >= 1, m = NextModel(k.current)
        PROVE  OnArc(OnModel(k, m))
    <2>1. PICK s \in Models : /\ k.tried = Arc(s, k.models_tried)
                              /\ k.current = (s + k.models_tried - 1) % TotalModels
      BY <1>4 DEF OnArc
    <2>2. m = (s + k.models_tried) % TotalModels
      BY <1>2, <1>4, <2>1, NextOnCircle, LlmAssumption
    <2>3. k.tried \cup {m} = Arc(s, k.models_tried + 1)
      BY <1>2, <2>1, <2>2, ArcGrows
    <2>4. s + (k.models_tried + 1) - 1 = s + k.models_tried
      BY <1>2, LlmAssumption DEF Models
    <2> QED
      BY <2>2, <2>3, <2>4 DEF OnArc, OnModel
  <1> QED
    BY <1>2, <1>3, <1>4 DEF OnModel

-----------------------------------------------------------------------------
\* It holds before any call.
LEMMA CycleInit == Init => CycleInv
  BY NoCallType DEF Init, CycleInv, LlmTypeOK, Orderly, Trying, NoCall

\* Every step keeps it.
LEMMA CycleStep == CycleInv /\ [Next]_vars => CycleInv'
  <1> SUFFICES ASSUME CycleInv, [Next]_vars
               PROVE  CycleInv'
    OBVIOUS
  <1>t. /\ current_model_index \in Models
        /\ calls \in [Calls -> Call]
        /\ \A c \in Calls : Orderly(c)
    BY DEF CycleInv, LlmTypeOK
  <1>1. CASE UNCHANGED vars
    BY <1>1 DEF vars, CycleInv, LlmTypeOK, Orderly, Trying
  <1>2. ASSUME NEW c \in Calls, CallLlm(c)
        PROVE  CycleInv'
    <2>1. PICK s \in Models :
            /\ c \notin OneOff => s = current_model_index
            /\ calls' = [calls EXCEPT ![c] = FirstCall(s)]
      BY <1>2, <1>t DEF CallLlm, FirstCall
    <2>2. UNCHANGED current_model_index
      BY <1>2 DEF CallLlm
    <2>3. /\ calls'[c] \in Call /\ calls'[c].pc = "trying" /\ calls'[c].models_tried = 1
          /\ calls'[c].current = s /\ OnArc(calls'[c])
          /\ calls' \in [Calls -> Call]
          /\ \A d \in Calls \ {c} : calls'[d] = calls[d]
      BY <2>1, <1>t, FirstModel
    <2> QED
      BY <2>1, <2>2, <2>3, <1>t DEF CycleInv, LlmTypeOK, Orderly, Trying
  <1>3. ASSUME NEW c \in Calls, CallEnds(c)
        PROVE  CycleInv'
    <2>1. /\ calls' \in [Calls -> Call] /\ calls'[c] = NoCall
          /\ \A d \in Calls \ {c} : calls'[d] = calls[d]
          /\ UNCHANGED current_model_index
      BY <1>3, <1>t, NoCallType DEF CallEnds
    <2> QED
      BY <2>1, <1>t DEF CycleInv, LlmTypeOK, Orderly, Trying, NoCall
  <1>4. ASSUME NEW c \in Calls, ModelIsRetried(c)
        PROVE  CycleInv'
    <2>1. calls[c] \in Call /\ calls[c].attempt < MAX_LLM_CALL_RETRIES
      BY <1>4, <1>t DEF ModelIsRetried
    <2>2. [calls[c] EXCEPT !.attempt = calls[c].attempt + 1] \in Call
      BY <2>1, LlmAssumption DEF Call
    <2>3. /\ calls' \in [Calls -> Call]
          /\ calls'[c] = [calls[c] EXCEPT !.attempt = calls[c].attempt + 1]
          /\ \A d \in Calls \ {c} : calls'[d] = calls[d]
          /\ UNCHANGED current_model_index
      BY <1>4, <1>t, <2>2 DEF ModelIsRetried
    <2>4. /\ calls'[c].pc = calls[c].pc /\ calls'[c].models_tried = calls[c].models_tried
          /\ calls'[c].tried = calls[c].tried /\ calls'[c].current = calls[c].current
          /\ calls'[c].disturbed = calls[c].disturbed
      BY <2>1, <2>3 DEF Call
    <2>5. OnArc(calls[c]) => OnArc(calls'[c])
      BY <2>4 DEF OnArc
    <2>6. Orderly(c)'
      BY <2>3, <2>4, <2>5, <1>t DEF Orderly, Trying
    <2>7. ASSUME NEW d \in Calls \ {c}
          PROVE  Orderly(d)'
      BY <2>3, <1>t DEF Orderly, Trying
    <2> QED
      BY <2>3, <2>6, <2>7, <1>t DEF CycleInv, LlmTypeOK
  <1>5. ASSUME NEW c \in Calls, AllModelsFail(c)
        PROVE  CycleInv'
    <2>1. /\ calls[c] \in Call /\ calls[c].pc = "trying"
          /\ calls[c].models_tried >= TotalModels
      BY <1>5, <1>t DEF AllModelsFail, Trying, LastModel
    <2>2. calls[c].models_tried = TotalModels
      BY <2>1, LlmAssumption DEF Call
    <2>3. /\ calls' \in [Calls -> Call]
          /\ calls'[c] = [calls[c] EXCEPT !.pc = "all_failed"]
          /\ \A d \in Calls \ {c} : calls'[d] = calls[d]
          /\ UNCHANGED current_model_index
      BY <1>5, <1>t, <2>1 DEF AllModelsFail, Call
    <2>4. /\ calls'[c].pc = "all_failed" /\ calls'[c].models_tried = calls[c].models_tried
          /\ calls'[c].tried = calls[c].tried /\ calls'[c].current = calls[c].current
          /\ calls'[c].disturbed = calls[c].disturbed
      BY <2>1, <2>3 DEF Call
    <2>5. OnArc(calls[c]) => OnArc(calls'[c])
      BY <2>4 DEF OnArc
    <2>6. Orderly(c)'
      BY <2>1, <2>2, <2>3, <2>4, <2>5, <1>t DEF Orderly, Trying
    <2>7. ASSUME NEW d \in Calls \ {c}
          PROVE  Orderly(d)'
      BY <2>3, <1>t DEF Orderly, Trying
    <2> QED
      BY <2>3, <2>6, <2>7, <1>t DEF CycleInv, LlmTypeOK
  <1>6. ASSUME NEW c \in Calls, OneOffAdvances(c)
        PROVE  CycleInv'
    <2>1. /\ calls[c] \in Call /\ calls[c].pc = "trying" /\ c \in OneOff
          /\ calls[c].models_tried < TotalModels
      BY <1>6, <1>t, LlmAssumption DEF OneOffAdvances, Trying, LastModel, Call
    <2>2. NextModel(calls[c].current) \in Models
      BY <2>1, LlmAssumption, RemainderIsModel DEF NextModel, Models, Call
    <2>3. /\ calls' \in [Calls -> Call]
          /\ calls'[c] = OnModel(calls[c], NextModel(calls[c].current))
          /\ \A d \in Calls \ {c} : calls'[d] = calls[d]
          /\ UNCHANGED current_model_index
      BY <1>6, <1>t, <2>1, <2>2, OnNextModel DEF OneOffAdvances
    <2>4. /\ calls'[c].pc = "trying" /\ calls'[c].models_tried >= 1
          /\ ~calls'[c].disturbed => OnArc(calls'[c])
      BY <2>1, <2>2, <2>3, <1>t, OnNextModel DEF Orderly
    <2> QED
      BY <2>1, <2>3, <2>4, <1>t DEF CycleInv, LlmTypeOK, Orderly, Trying
  <1>7. ASSUME NEW c \in Calls, SwitchToNextModel(c)
        PROVE  CycleInv'
    <2> DEFINE next == NextModel(current_model_index)
    <2>1. /\ calls[c] \in Call /\ calls[c].pc = "trying" /\ c \notin OneOff
          /\ calls[c].models_tried < TotalModels
      BY <1>7, <1>t, LlmAssumption DEF SwitchToNextModel, Trying, LastModel, Call
    <2>2. next \in Models
      BY <1>t, LlmAssumption, RemainderIsModel DEF NextModel, Models
    <2>3. /\ current_model_index' = next
          /\ calls'[c] = OnModel(calls[c], next)
      BY <1>7, <1>t DEF SwitchToNextModel
    <2>4. ASSUME NEW d \in Calls \ {c}
          PROVE  calls'[d] = [calls[d] EXCEPT !.disturbed =
                                calls[d].disturbed \/ (Trying(d) /\ d \notin OneOff)]
      BY <1>7, <1>t DEF SwitchToNextModel
    <2>5. /\ calls'[c] \in Call /\ calls'[c].pc = "trying" /\ calls'[c].models_tried >= 1
          /\ calls'[c].current = next
          /\ ~calls'[c].disturbed => OnArc(calls'[c])
      BY <2>1, <2>2, <2>3, <1>t, OnNextModel DEF Orderly, Trying
    <2>6. ASSUME NEW d \in Calls \ {c}
          PROVE  /\ calls'[d] \in Call
                 /\ calls'[d].pc = calls[d].pc /\ calls'[d].models_tried = calls[d].models_tried
                 /\ calls'[d].tried = calls[d].tried /\ calls'[d].current = calls[d].current
                 /\ calls'[d].disturbed = (calls[d].disturbed \/ (Trying(d) /\ d \notin OneOff))
      BY <2>4, <1>t DEF Call, Trying
    <2>7. calls' \in [Calls -> Call]
      BY <1>7, <2>5, <2>6 DEF SwitchToNextModel
    <2>8. ASSUME NEW d \in Calls \ {c}
          PROVE  Orderly(d)'
      BY <2>6, <1>t DEF Orderly, Trying, OnArc
    <2>9. Orderly(c)'
      BY <2>1, <2>3, <2>5 DEF Orderly, Trying
    <2> QED
      BY <2>2, <2>3, <2>7, <2>8, <2>9 DEF CycleInv, LlmTypeOK
  <1> QED
    BY <1>1, <1>2, <1>3, <1>4, <1>5, <1>6, <1>7 DEF Next, LlmStep

\* The invariant holds throughout.
LEMMA CycleCorrect == Spec => []CycleInv
  BY CycleInit, CycleStep, PTL DEF Spec

(* The shared index stays within the registry, however many calls advance  *)
(* it, and no call counts more models than there are.                      *)
THEOREM LlmTypeCorrect == Spec => []LlmTypeOK
  <1>1. CycleInv => LlmTypeOK
    BY DEF CycleInv
  <1> QED
    BY <1>1, CycleCorrect, PTL

(* An LLM call that reports that all models failed, and during which no    *)
(* other default call moved the shared model index, has asked every model  *)
(* of the registry; so has every one-off call.                             *)
THEOREM GivesUpAfterEveryModel == Spec => []UndisturbedTriesEveryModel
  <1>1. CycleInv => UndisturbedTriesEveryModel
    BY FullArc DEF CycleInv, Orderly, OnArc, UndisturbedTriesEveryModel
  <1> QED
    BY <1>1, CycleCorrect, PTL
=============================================================================
