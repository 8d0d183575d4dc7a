---------------------------- MODULE MCAgentLoop -----------------------------
(* Instances of AgentLoop for TLC. *)
EXTENDS AgentLoop, TLC

CONSTANTS m1, m2, m3

\* What the messages say.  AllTexts tells no two of them apart.
AllTexts == [m \in Messages |-> "text"]
Texts == Permutations(Messages)
Keywords == [m \in Messages |-> CASE m = m1 -> "text" [] m = m2 -> "stop" [] OTHER -> "start"]

\* Bounds on the events of the environment.
Spending(fault, status, call, meeting) ==
  [kind \in BudgetKind |-> CASE kind = "fault" -> fault [] kind = "status" -> status
                             [] kind = "call" -> call [] kind = "meeting" -> meeting]
NoBudget == Spending(0, 0, 0, 0)
OneFault == Spending(1, 0, 0, 0)
TwoFaults == Spending(2, 0, 0, 0)
OneCall == Spending(0, 0, 1, 0)
OneEditOneCall == Spending(0, 1, 1, 0)
OneCallOneMeeting == Spending(0, 0, 1, 1)

\* What run_interaction returns.
Replies == {<<TRUE, "progressed">>}
Handoffs == {<<TRUE, "handoff_human">>}
ReplyOrEscalate == {<<TRUE, "progressed">>, <<FALSE, "handoff_human">>}
=============================================================================
