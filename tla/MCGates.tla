------------------------------- MODULE MCGates -------------------------------
(***************************************************************************)
(* What stands between a message and the model, checked in one run: who is *)
(* let through, the owner's standing orders, the filter of a group, what   *)
(* the context engine decides of a turn, the prompt, and the profiles and  *)
(* lessons that go into it.  The components share no variables, so each is *)
(* explored with the others at rest, and their state counts add up.        *)
(***************************************************************************)
EXTENDS ContactApproval, OperationalRules, GroupGate, TurnRules, PromptRules,
        Relationships, Lessons, TLC

CONSTANTS c1, c2, p1, p2, k1, k2, k3, owner, guest

\* A chat with a number of the real form and one whose number the adapter
\* could not resolve; three codes, so that a rejected stranger can be asked
\* about again.
MCChats == {c1, c2}
MCPhones == {p1, p2}
MCRealPhones == {p1}
MCPhoneOf == (c1 :> p1) @@ (c2 :> p2)
MCCodes == {k1, k2, k3}
Symm == Permutations(MCCodes)

\* Orders that contradict each other: for good and for a while, about one
\* matter and about any, to one subsystem and to all.
StandingOrders ==
  {[subsystem |-> "email", action |-> "block", about |-> "apple", lasts |-> 0],
   [subsystem |-> "email", action |-> "block", about |-> AnyMatter, lasts |-> 2],
   [subsystem |-> EverySubsystem, action |-> "allow", about |-> "apple", lasts |-> 2]}

\* A message for each way through the context engine.
Plain == [marks |-> {}, minimal |-> FALSE, lacks |-> FALSE, tool |-> FALSE, people |-> 0]
Writings ==
  {Plain,
   [Plain EXCEPT !.marks = {"correction", "action_request"}],
   [Plain EXCEPT !.marks = {"status_query"}, !.tool = TRUE],
   [Plain EXCEPT !.marks = {"action_request"}, !.lacks = TRUE, !.tool = TRUE],
   [Plain EXCEPT !.minimal = TRUE],
   [Plain EXCEPT !.marks = {"question"}, !.people = 2]}
HostZones == {0, 4, -2}

\* Profiles and lessons.
ModelsAssessments == {[type |-> "client", style |-> "brief", score |-> 65]}
PhrasingOf == "t1" :> {"r1", "r2"} @@ "t2" :> {"r3"}

\* Messages whose prompt is composed.

PlainSignal ==
  [marks |-> {"a"}, bare |-> FALSE, owner |-> FALSE, group |-> FALSE, score |-> 20,
   style |-> "unknown", kind |-> "unknown", intent |-> "question",
   focus |-> "message", acts |-> FALSE, lacks |-> FALSE, conflict |-> FALSE,
   tool |-> FALSE, followups |-> "none", meeting |-> FALSE, people |-> 0,
   pronoun |-> FALSE, thing |-> FALSE, mood |-> "neutral", sure |-> FALSE,
   hour |-> 12, day |-> "sunday", tells |-> {}, explicit |-> FALSE,
   noted |-> "none", lasting |-> FALSE, learnt |-> FALSE, ruled |-> TRUE,
   remembered |-> TRUE, topics |-> {}]
Heard ==
  {PlainSignal,
   [PlainSignal EXCEPT !.marks = {}, !.bare = TRUE, !.intent = "continuation",
      !.focus = "followup", !.acts = TRUE, !.followups = "overdue",
      !.style = "warm", !.kind = "client", !.score = 90],
   [PlainSignal EXCEPT !.marks = {"b", "date"}, !.owner = TRUE,
      !.intent = "action_request", !.focus = "new_request", !.acts = TRUE,
      !.lacks = TRUE, !.conflict = TRUE, !.tool = TRUE, !.people = 2,
      !.followups = "overdue", !.meeting = TRUE, !.hour = 23, !.learnt = TRUE,
      !.topics = {"calendar"}],
   [PlainSignal EXCEPT !.marks = {"b", "long"}, !.intent = "correction",
      !.acts = TRUE, !.mood = "frustrated", !.sure = TRUE, !.tells = {"fact"},
      !.noted = "similar", !.pronoun = TRUE, !.meeting = TRUE, !.score = 70,
      !.day = "friday", !.hour = 15],
   [PlainSignal EXCEPT !.marks = {"a", "b"}, !.group = TRUE, !.intent = "greeting",
      !.followups = "open", !.thing = TRUE, !.tells = {"preference", "task"},
      !.mood = "happy", !.sure = TRUE, !.hour = 7, !.tool = TRUE],
   [PlainSignal EXCEPT !.marks = {"c"}, !.intent = "status_query",
      !.focus = "status", !.acts = TRUE, !.kind = "friend",
      !.tells = {"relationship"}, !.mood = "rushed"],
   [PlainSignal EXCEPT !.marks = {"tool"}, !.intent = "multi_step_request",
      !.acts = TRUE, !.tells = {"task"}, !.lasting = TRUE, !.style = "friendly"]}
Fade == <<9, 7, 4, 2, 1>>
Said == {{}, {"a", "decision"}}

VARIABLE part            \* which component of the behaviour moves

allVars ==
  <<part, vars, ruleVars, groupVars, ruledTurnVars, promptVars, relationshipVars,
    lessonVars>>

GatesInit ==
  /\ part \in {"approvals", "rules", "groups", "turns", "prompt",
               "relationships", "lessons"}
  /\ Init
  /\ OperationalRulesInit
  /\ GroupGateInit
  /\ TurnRulesInit
  /\ PromptInit
  /\ RelationshipsInit
  /\ LessonsInit
  /\ part # "turns" => zone = 0

\* Only the component that moves may change its variables.
Rests(component, itsVars) ==
  IF part = component THEN TRUE ELSE UNCHANGED itsVars

GatesNext ==
  /\ UNCHANGED part
  /\ \/ part = "approvals" /\ Next
     \/ part = "rules" /\ OperationalRulesNext
     \/ part = "groups" /\ GroupGateNext
     \/ part = "turns" /\ TurnRulesNext
     \/ part = "prompt" /\ PromptNext
     \/ part = "relationships" /\ RelationshipsNext
     \/ part = "lessons" /\ LessonsNext
  /\ Rests("approvals", vars)
  /\ Rests("rules", ruleVars)
  /\ Rests("groups", groupVars)
  /\ Rests("turns", ruledTurnVars)
  /\ Rests("prompt", promptVars)
  /\ Rests("relationships", relationshipVars)
  /\ Rests("lessons", lessonVars)

GatesSpec == GatesInit /\ [][GatesNext]_allVars
=============================================================================
