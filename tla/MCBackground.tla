----------------------------- MODULE MCBackground -----------------------------
(***************************************************************************)
(* The background work, checked in one run: the reminders, the three       *)
(* pollers and the agents share no state, so each is explored with the     *)
(* others at rest, and their state counts add up.                          *)
(***************************************************************************)
EXTENDS Reminders, EmailPoller, SmsPollers, AlertPoller, Agents, TLC

CONSTANTS f1, n1, n2, r1, r2, p1, p2, silent, loud

SubjectOf == f1 :> "call"

\* The first two messages are about one delivery.
EmailOrder == <<"book", "flight">>
SmsDelivery == <<"parcel", "parcel", NoDelivery>>
SmsDate == <<1, 3, 2>>

VARIABLE part            \* which component of the behaviour moves

allVars == <<part, remindersVars, emailVars, smsVars, alertVars, agentVars>>

Init ==
  /\ part \in {"reminders", "email", "sms", "alerts", "agents"}
  /\ RemindersInit /\ EmailInit /\ AlertInit
  /\ SmsInit /\ (part # "sms" => newestSms = 0)
  /\ AgentsInit /\ (part # "agents" => ~agentNight)

Next ==
  /\ UNCHANGED part
  /\ \/ /\ part = "reminders"
        /\ RemindersNext
        /\ UNCHANGED <<emailVars, smsVars, alertVars, agentVars>>
     \/ /\ part = "email"
        /\ EmailNext
        /\ UNCHANGED <<remindersVars, smsVars, alertVars, agentVars>>
     \/ /\ part = "sms"
        /\ SmsNext
        /\ UNCHANGED <<remindersVars, emailVars, alertVars, agentVars>>
     \/ /\ part = "alerts"
        /\ AlertNext
        /\ UNCHANGED <<remindersVars, emailVars, smsVars, agentVars>>
     \/ /\ part = "agents"
        /\ AgentsNext
        /\ UNCHANGED <<remindersVars, emailVars, smsVars, alertVars>>

Moves(component, action) == part = component /\ action

\* Timers fire, sends settle, the owner writes; the two-minute check is not
\* overtaken for ever by checks that run twice an hour or once a day.
RemindersFairness ==
  /\ WF_remindersVars(Moves("reminders", HoursPass))
  /\ WF_remindersVars(Moves("reminders", NightFalls \/ NightEnds))
  /\ WF_remindersVars(Moves("reminders", OwnerWrites))
  /\ \A r \in Runs :
       /\ WF_remindersVars(Moves("reminders", SendResolves(r) \/ RunEnds(r)))
       /\ WF_remindersVars(Moves("reminders", CalendarAnswers(r) \/ NothingToSay(r)))
  /\ SF_remindersVars(Moves("reminders", \E r \in Runs : CheckFollowups(r)))

\* Timers fire, calls settle, the hours pass; the day is long enough for
\* polls that begin, reach the server and end in it.
EmailFairness ==
  /\ WF_emailVars(Moves("email", EmailHourPasses))
  /\ \A p \in EmailPolls :
       /\ WF_emailVars(Moves("email", BaselineSet(p) \/ OrderAnnounced(p) \/ QueuedAnnounced(p)))
       /\ SF_emailVars(Moves("email", PollStarts(p) /\ ~emailNight))
       /\ SF_emailVars(Moves("email", PollFetched(p) /\ ~emailNight /\ poll'[p].at # "idle"))
       /\ SF_emailVars(Moves("email", ContractsLookedAt(p) /\ ~emailNight))

Spec == Init /\ [][Next]_allVars /\ RemindersFairness /\ EmailFairness
=============================================================================
