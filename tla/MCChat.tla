------------------------------- MODULE MCChat -------------------------------
(* Model-checking instance of the two parts of the web client that listen to a
   stream: the store of a chat session and the log of a job.  A behaviour is one
   of one of them; the other stays as it begins. *)
EXTENDS ChatSession, JobLog

VARIABLE part

vars == <<part, chatVars, logVars>>

E(name, p) == [event |-> name, part |-> p, piece |-> <<>>]
TwoTurns == {
  <<E("tool-call", "c1"), E("tool-result", "c1"), E("text-start", "p2"), E("delta", "p2"), E("error", "")>>,
  <<E("delta", "p1"), E("step-start", ""), E("delta", "p2"), E("turn-complete", "")>> }
OneTurn == {<<E("busy", ""), E("turn-complete", "")>>}

Init ==
  /\ part \in {"chat", "log"} /\ ChatInit /\ LogInit
  /\ part # "chat" => turn = <<>>

ChatStep == part = "chat" /\ ChatNext /\ UNCHANGED <<part, logVars>>
LogStep == part = "log" /\ LogNext /\ UNCHANGED <<part, chatVars>>
Next == ChatStep \/ LogStep

(* The fairness of the two modules.  A behaviour stays with its part, so what is
   fair in the one is taken together with what is fair in the other; Reconnect
   and Frame, which no property needs, are left out. *)
InChat(A) == part = "chat" /\ A /\ UNCHANGED <<part, logVars>>
InLog(A) == part = "log" /\ A /\ UNCHANGED <<part, chatVars>>
Fairness ==
  /\ WF_vars(InChat(Emit) \/ InLog(BreakOff))
  /\ WF_vars(InChat(Receive) \/ InLog(Deliver))
  /\ WF_vars(InChat(\E c \in calls : Serve(c) \/ Reply(c)) \/ InLog(LoadingTabs))

Spec == Init /\ [][Next]_vars /\ Fairness

==================================================
