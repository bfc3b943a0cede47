-------------------------------- MODULE MCChat --------------------------------
(***************************************************************************)
(* The chat side of the bot, checked in one run: the turns, the            *)
(* connection, the send queue, the circuits of the services, the           *)
(* capabilities and the plans share no variables, so each is explored with *)
(* the others at rest, and their state counts add up.                      *)
(***************************************************************************)
EXTENDS ReplyTurns, Connection, SendQueue, CircuitBreaker, Capabilities, Plans, TLC

CONSTANTS chat1, chat2, note1, note2, job1, job2, s1, s2

\* The second message of a batch waits for the turn of another chat's before
\* it, and then for its own chat's.
InboundChat == <<chat1, chat2, chat1>>
InboundBatch == <<1, 2, 2>>

VARIABLE part            \* which component of the behaviour moves

allVars ==
  <<part, turnVars, connectionVars, queueVars, circuitVars, capVars, planVars>>

Init ==
  /\ part \in {"turns", "connection", "queue", "circuits", "capabilities",
               "plans"}
  /\ ReplyTurnsInit
  /\ ConnectionInit
  /\ QueueInit
  /\ CircuitInit
  /\ CapabilitiesInit
  /\ PlansInit

\* Only the component that moves may change its variables.
Rests(component, vars) == IF part = component THEN TRUE ELSE UNCHANGED vars

Next ==
  /\ UNCHANGED part
  /\ \/ part = "turns" /\ ReplyTurnsNext
     \/ part = "connection" /\ ConnectionNext
     \/ part = "queue" /\ QueueNext
     \/ part = "circuits" /\ CircuitNext
     \/ part = "capabilities" /\ CapabilitiesNext
     \/ part = "plans" /\ PlansNext
  /\ Rests("turns", turnVars)
  /\ Rests("connection", connectionVars)
  /\ Rests("queue", queueVars)
  /\ Rests("circuits", circuitVars)
  /\ Rests("capabilities", capVars)
  /\ Rests("plans", planVars)

Moves(component, action) == part = component /\ action

\* What a handler awaits settles, and the ten minutes pass; nothing is
\* assumed of the model and its tools.
TurnsFairness ==
  \A m \in Inbound : WF_turnVars(Moves("turns", HandlerSteps(m) /\ turn[m] # "unseen"))

\* Timers fire, pm2 starts what exits, a poll runs to its end, and of ever new
\* attempts to connect one succeeds.
ConnectionFairness ==
  /\ WF_connectionVars(Moves("connection", Reconnects \/ ReconnectFails))
  /\ WF_connectionVars(Moves("connection", Pm2Restarts))
  /\ WF_connectionVars(Moves("connection", PollClearsNotes))
  /\ SF_connectionVars(Moves("connection", Opens))

\* The queue's timers fire, and the transport settles every send.
QueueFairness ==
  /\ WF_queueVars(Moves("queue", Tick))
  /\ \A c \in Recipients :
        /\ WF_queueVars(Moves("queue", Loop(c)))
        /\ WF_queueVars(Moves("queue",
              Answered(c, "resolved") \/ Answered(c, "rejected")))

Spec ==
  /\ Init /\ [][Next]_allVars
  /\ TurnsFairness /\ ConnectionFairness /\ QueueFairness
=============================================================================
