-------------------------------- MODULE Agents --------------------------------
(***************************************************************************)
(* The autonomous agents.  A cron job or an event starts a run, which asks *)
(* the model and its tools round after round, is logged, and then reports  *)
(* to the owner, or, for a silent agent, raises an alert with a cooldown   *)
(* of three hours.  A minimum interval is measured from the last logged    *)
(* run, so triggers during a run start another.  Followed from             *)
(* agents/autonomous/agent-lifecycle.ts, agent-state-store.ts and          *)
(* agents/agent-runner.ts.                                                 *)
(***************************************************************************)
EXTENDS Naturals, FiniteSets

CONSTANTS AutoAgents,     \* the agents with an autonomous config
          Reporting,        \* those with notifyOwner
          Spaced,           \* those whose interval exceeds the zone's offset
          AgentRuns,        \* runs under way
          MaxRounds,        \* MAX_AGENT_TOOL_ITERATIONS
          MaxAgentFaults,   \* restarts
          NoAgent

ASSUME AgentsAssumption == NoAgent \notin AutoAgents /\ IsFiniteSet(AgentRuns)

VARIABLES agentRun,       \* where each run stands
          tooSoon,          \* agents whose last logged run is too recent
          cooling,          \* agents in the cooldown of an alert, in memory
          agentNight,       \* isQuietHours
          agentFaults,      \* how many of MaxAgentFaults there were
          spate,            \* ghost: alerts of each agent in this cooldown
          overlapped        \* ghost: agents whose runs overlapped in it

agentVars == <<agentRun, tooSoon, cooling, agentNight, agentFaults, spate, overlapped>>

NoRun == [at |-> "idle", agent |-> NoAgent, rounds |-> 0]

AgentsTypeOK ==
  /\ agentRun \in [AgentRuns -> [at : {"idle", "thinking", "notifying", "excusing"},
                                 agent : AutoAgents \cup {NoAgent}, rounds : 0 .. MaxRounds]]
  /\ tooSoon \subseteq Spaced
  /\ cooling \subseteq AutoAgents \ Reporting
  /\ agentNight \in BOOLEAN
  /\ agentFaults \in 0 .. MaxAgentFaults
  /\ spate \in [AutoAgents -> 0 .. Cardinality(AgentRuns)]
  /\ overlapped \subseteq AutoAgents

AgentsInit ==
  /\ agentRun = [r \in AgentRuns |-> NoRun]
  /\ tooSoon = {}
  /\ cooling = {}
  /\ agentNight \in BOOLEAN
  /\ agentFaults = 0
  /\ spate = [a \in AutoAgents |-> 0]
  /\ overlapped = {}

RunsOf(a) == {r \in AgentRuns : agentRun[r].agent = a}

\* logAgentRun stores the time in UTC and getLastRunTime reads it as local
\* time, two or three hours early: a shorter interval is over at once.
Log(a) == tooSoon' = tooSoon \cup ({a} \cap Spaced)

\* runAutonomousAgent, unless a rule blocks the agent.
TriggerRun(r, a, trigger) ==
  /\ agentRun[r] = NoRun
  /\ a \notin tooSoon
  /\ ~(agentNight /\ trigger = "cron")
  /\ overlapped' = IF RunsOf(a) = {} THEN overlapped ELSE overlapped \cup {a}
  /\ agentRun' = [agentRun EXCEPT ![r] = [at |-> "thinking", agent |-> a, rounds |-> 0]]
  /\ UNCHANGED <<tooSoon, cooling, agentNight, agentFaults, spate>>

\* The model asks for tools; they have answered, and it is asked again.
CallTools(r) ==
  /\ agentRun[r].at = "thinking"
  /\ agentRun[r].rounds < MaxRounds
  /\ agentRun' = [agentRun EXCEPT ![r].rounds = @ + 1]
  /\ UNCHANGED <<tooSoon, cooling, agentNight, agentFaults, spate, overlapped>>

\* The run has its text, be it that the first call timed out: it is logged,
\* and notified unless it is empty, or an alert in the cooldown.
RunAnswers(r) ==
  LET a == agentRun[r].agent
  IN  /\ agentRun[r].at = "thinking"
      /\ Log(a)
      /\ \E empty \in BOOLEAN :
           agentRun' = [agentRun EXCEPT ![r] =
             IF empty \/ a \in cooling THEN NoRun ELSE [@ EXCEPT !.at = "notifying", !.rounds = 0]]
      /\ UNCHANGED <<cooling, agentNight, agentFaults, spate, overlapped>>

\* A mutant: what a slip in this code would do.

RunNotifiedUncooled(r) ==            \* the alert's time is not kept
  LET a == agentRun[r].agent
  IN  /\ agentRun[r].at = "notifying"
      /\ spate' = [spate EXCEPT ![a] = IF a \in Reporting THEN @ ELSE IF @ < 2 THEN @ + 1 ELSE @]
      /\ agentRun' = [agentRun EXCEPT ![r] = NoRun]
      /\ UNCHANGED <<tooSoon, cooling, agentNight, agentFaults, overlapped>>

\* The notification resolves; only now does the cooldown of an alert begin.
RunNotified(r) ==
  LET a == agentRun[r].agent
  IN  /\ agentRun[r].at = "notifying"
      /\ cooling' = cooling \cup ({a} \ Reporting)
      /\ spate' = [spate EXCEPT ![a] = IF a \in Reporting THEN @ ELSE @ + 1]
      /\ agentRun' = [agentRun EXCEPT ![r] = NoRun]
      /\ UNCHANGED <<tooSoon, agentNight, agentFaults, overlapped>>

\* The model failed, or the notification rejected: logged as an error, be it
\* for the second time, and the owner is told.
RunFails(r) ==
  /\ agentRun[r].at \in {"thinking", "notifying"}
  /\ Log(agentRun[r].agent)
  /\ agentRun' = [agentRun EXCEPT ![r].at = "excusing", ![r].rounds = 0]
  /\ UNCHANGED <<cooling, agentNight, agentFaults, spate, overlapped>>

FailureTold(r) ==
  /\ agentRun[r].at = "excusing"
  /\ agentRun' = [agentRun EXCEPT ![r] = NoRun]
  /\ UNCHANGED <<tooSoon, cooling, agentNight, agentFaults, spate, overlapped>>

---------------------------------------------------------------------------
(* Time and restarts *)

IntervalPasses(a) ==
  /\ a \in tooSoon
  /\ tooSoon' = tooSoon \ {a}
  /\ UNCHANGED <<agentRun, cooling, agentNight, agentFaults, spate, overlapped>>

\* ALERT_COOLDOWN_MS since the agent's last alert.
AlertCooldownPasses(a) ==
  /\ a \in cooling
  /\ cooling' = cooling \ {a}
  /\ spate' = [spate EXCEPT ![a] = 0]
  /\ overlapped' = IF Cardinality(RunsOf(a)) > 1 THEN overlapped ELSE overlapped \ {a}
  /\ UNCHANGED <<agentRun, tooSoon, agentNight, agentFaults>>

AgentHourPasses ==
  /\ agentNight' = ~agentNight
  /\ UNCHANGED <<agentRun, tooSoon, cooling, agentFaults, spate, overlapped>>

\* The runs under way are never logged (a run may restart the bot itself),
\* and the cooldowns are forgotten.
AgentsRestart ==
  /\ agentFaults < MaxAgentFaults
  /\ agentFaults' = agentFaults + 1
  /\ agentRun' = [r \in AgentRuns |-> NoRun]
  /\ cooling' = {}
  /\ spate' = [a \in AutoAgents |-> 0]
  /\ overlapped' = {}
  /\ UNCHANGED <<tooSoon, agentNight>>

AgentsNext ==
  \/ \E r \in AgentRuns :
       \/ \E a \in AutoAgents, trigger \in {"cron", "event"} : TriggerRun(r, a, trigger)
       \/ CallTools(r) \/ RunAnswers(r) \/ RunNotified(r) \/ RunFails(r) \/ FailureTold(r)
  \/ \E a \in AutoAgents : IntervalPasses(a) \/ AlertCooldownPasses(a)
  \/ AgentHourPasses \/ AgentsRestart

AgentsSpec == AgentsInit /\ [][AgentsNext]_agentVars

---------------------------------------------------------------------------
(* What is expected of it *)

\* A silent agent raises a second alert within three hours of the first only
\* if two of its runs overlapped: neither the interval, which may not hold,
\* nor the late start of the cooldown lets two runs one after the other do so.
AlertsSpaced == \A a \in AutoAgents : spate[a] > 1 => a \in overlapped
=============================================================================
