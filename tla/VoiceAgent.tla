----------------------------- MODULE VoiceAgent -----------------------------
(***************************************************************************)
(* The LiveKit agent's side of a phone call (livekit_agent/src/agent.py,   *)
(* scheduling_tools.py, call_state.py): bootstrap, the three scheduling    *)
(* tools and the finalization when the session closes.  Which tool is      *)
(* called when is the language model's choice; that it books only slots    *)
(* from a list it was given is its instructions' rule.                     *)
(***************************************************************************)
EXTENDS VoiceApi

CONSTANTS
  Asks,         \* what callers ask get_availability for
  Spelled,      \* the addresses they spell
  MaxLookups    \* how often a call asks (a bound)

ASSUME AgentAssumption ==
  /\ Asks \subseteq Ask
  /\ Spelled \subseteq Addresses
  /\ MaxLookups \in Nat

VARIABLES
  calls,     \* the agent's job for each call
  offered,   \* slots read out in each call
  told       \* requests after which the agent said "Booked for ..."

_MAX_SPOKEN_SLOTS == 5

(* email is CallData.email; waiting is the number of the request whose     *)
(* answer the agent awaits, requested how many it has made.                *)
CallPhase == {"dialed", "live", "finalized", "abandoned"}
Call == [phase: CallPhase, email: Addresses \cup {NoAddress}, asked: Nat,
         requested: 0 .. MaxRequests, waiting: 0 .. MaxRequests]

NewCall == [phase |-> "dialed", email |-> NoAddress, asked |-> 0, requested |-> 0,
            waiting |-> 0]

Live(c) == calls[c].phase = "live"

\* The slots read out in a call, and those of the answer under way to it.
Found(c) == offered[c] \cup lookups[c].slots

\* All of them, call by call.
Offers == {o \in Calls \X UNION {Found(c) : c \in Calls} : o[2] \in Found(o[1])}

api == <<credential, flows, blocks, events, mails, requests, followups>>

-----------------------------------------------------------------------------
(* entrypoint: the ids arrive in time and the bootstrap is answered, or    *)
(* the job shuts down and finalizes nothing.                               *)
Bootstrap(c) ==
  /\ calls[c].phase = "dialed"
  /\ \/ calls' = [calls EXCEPT ![c].phase = "live"] /\ UNCHANGED calm
     \/ calls' = [calls EXCEPT ![c].phase = "abandoned"] /\ Disturbed
  /\ UNCHANGED <<api, lookups, stale, offered, told>>

\* The first slots of an answer.
Spoken(slots) ==
  {slot \in slots : Cardinality({s \in slots : s[1] < slot[1]}) < _MAX_SPOKEN_SLOTS}

\* get_availability, the tool, posts the question ...
AskAvailability(c, ask) ==
  /\ Live(c)
  /\ lookups[c].pc = "idle"
  /\ calls[c].asked < MaxLookups
  /\ calls' = [calls EXCEPT ![c].asked = @ + 1]
  /\ lookups' = [lookups EXCEPT ![c].pc = "load", ![c].ask = ask]
  /\ UNCHANGED <<api, stale, calm, offered, told>>

\* ... and reads out the first slots of the answer that has come back ...
ReadOut(c) ==
  /\ Live(c)
  /\ lookups[c].pc = "answered"
  /\ offered' = [offered EXCEPT ![c] = @ \cup Spoken(lookups[c].slots)]
  /\ lookups' = [lookups EXCEPT ![c] = Idle]
  /\ UNCHANGED <<api, stale, calm, calls, told>>

\* ... or nothing, after an error or 30 seconds without an answer.
LookUpFails(c) ==
  /\ Live(c)
  /\ lookups[c].pc # "idle"
  /\ lookups' = [lookups EXCEPT ![c] = Idle]
  /\ UNCHANGED <<api, stale, calm, calls, offered, told>>

\* capture_email, again when the caller corrects the address
CaptureEmail(c, address) ==
  /\ Live(c)
  /\ calls' = [calls EXCEPT ![c].email = address]
  /\ UNCHANGED <<api, lookups, stale, calm, offered, told>>

\* schedule_meeting posts the booking with the address stored now ...
ScheduleMeeting(c, slot) ==
  LET n == calls[c].requested + 1
  IN  /\ Live(c)
      /\ calls[c].waiting = 0
      /\ <<c, n>> \in RequestIds
      /\ Cardinality({r \in RequestIds : ~At(r, "unused")}) < MaxRequests
      /\ slot \in offered[c]
      /\ calls' = [calls EXCEPT ![c].requested = n, ![c].waiting = n]
      /\ requests' = [requests EXCEPT ![<<c, n>>] = NewRequest(slot, calls[c].email)]
      /\ UNCHANGED <<google, events, mails, followups, lookups, calm, stale, offered, told>>

\* Wrong: an error is not told from an answer.
SaysBookedAnyway(r) == TRUE

SaysBooked(r) == At(r, "answered") /\ requests[r].booked

\* ... and reports the answer ...
ToolReturns(c) ==
  LET r == <<c, calls[c].waiting>>
  IN  /\ Live(c)
      /\ calls[c].waiting # 0
      /\ requests[r].pc \in {"answered", "failed"}
      /\ told' = IF SaysBooked(r) THEN told \cup {r} ELSE told
      /\ calls' = [calls EXCEPT ![c].waiting = 0]
      /\ UNCHANGED <<api, lookups, calm, stale, offered>>

\* ... or a problem when none has come after 30 seconds; the request goes on.
ToolTimesOut(c) ==
  /\ Live(c)
  /\ calls[c].waiting # 0
  /\ calls' = [calls EXCEPT ![c].waiting = 0]
  /\ UNCHANGED <<api, lookups, calm, stale, offered, told>>

(* The caller hangs up, in the middle of a tool too, and finalize_call,    *)
(* the shutdown callback, posts the outcome: once, since `finalized` is    *)
(* set before a request that may fail.  From there it is AgentLoop's       *)
(* FinalizeVoiceSession.                                                   *)
SessionCloses(c) ==
  /\ Live(c)
  /\ calls' = [calls EXCEPT ![c].phase = "finalized", ![c].waiting = 0]
  /\ lookups' = [lookups EXCEPT ![c] = Idle]
  /\ UNCHANGED <<api, calm, stale, offered, told>>

CallRuns(c) ==
  \/ Bootstrap(c)
  \/ (\E ask \in Asks : AskAvailability(c, ask)) \/ ReadOut(c) \/ LookUpFails(c)
  \/ \E address \in Spelled : CaptureEmail(c, address)
  \/ \E slot \in offered[c] : ScheduleMeeting(c, slot)
  \/ ToolReturns(c) \/ ToolTimesOut(c) \/ SessionCloses(c)

AgentInit ==
  /\ calls = [c \in Calls |-> NewCall]
  /\ offered = [c \in Calls |-> {}]
  /\ told = {}

AgentTypeOK ==
  /\ calls \in [Calls -> Call]
  /\ offered \in [Calls -> SUBSET Intervals]
  /\ told \subseteq RequestIds
=============================================================================
