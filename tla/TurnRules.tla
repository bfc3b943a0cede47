------------------------------ MODULE TurnRules ------------------------------
(***************************************************************************)
(* What the context engine makes of a message before the model sees it,    *)
(* the state of the conversation it keeps over turns and restarts, and the *)
(* follow-ups it creates of its own after a reply.  Followed from          *)
(* context/ and handleMessage of whatsapp/index.ts.  A message is what the *)
(* patterns of turn-intent, missing-info and tool-intent find in it; moods,*)
(* tones and wording, which no decision below rests on, are left out, and  *)
(* so is the routing of tools, which lets all of them through whatever is  *)
(* decided.  Time goes in ticks of half an hour.                           *)
(***************************************************************************)
EXTENDS Integers, Sequences, FiniteSets

CONSTANTS TurnChats,       \* direct chats
          OwnersChat,      \* the owner's, one of them
          TurnMessages,    \* what is written (see MessagesAreRead)
          Zones,           \* ticks a stored time seems older than it is, by
                           \* the zone of the host: 0 in Greenwich's
          StaleTicks,      \* STALE_THRESHOLD_MS
          MaxTurnTicks,    \* how long it is watched
          MaxTurnsTaken    \* how many messages are handled

\* The patterns of turn-intent.ts, in the order they are tried.
Intents == <<"correction", "status_query", "followup_query", "continuation",
             "greeting", "multi_step_request", "reminder_request",
             "action_request", "question">>
Marks == {Intents[n] : n \in DOMAIN Intents}

ASSUME MessagesAreRead ==
  /\ OwnersChat \in TurnChats
  /\ TurnMessages \subseteq [marks : SUBSET Marks, minimal : BOOLEAN,
                             lacks : BOOLEAN,       \* a detail, if it is a request
                             tool : BOOLEAN,        \* it, or else the last answer,
                                                    \* sounds like a tool's
                             people : 0 .. 2]       \* whom it names, or means
ASSUME TurnTimesAssumption ==
  Zones \subseteq Int /\ StaleTicks \in Nat /\ MaxTurnTicks \in Nat

StickyStates == {"awaiting_user_detail", "awaiting_owner_approval",
                 "awaiting_followup", "awaiting_meeting_response"}
PassingStates == {"correction_flow", "status_discussion", "new_chat",
                  "action_execution", "active_exchange"}
NoState == "none"

VARIABLES kept,          \* conversation_states: the state of a chat
          keptAt,        \* and its updated_at
          historied,        \* the chat has a history
          chatFollowups, \* the chat's pending follow-ups, in order
          meetingOpen, approvalsOpen,
          inTurn,        \* the decisions of the turn under way
          zone,          \* of the host
          turnClock, turnsTaken,
          carried        \* ghost: a state was carried over, and how old it was

ruledTurnVars == <<kept, keptAt, historied, chatFollowups, meetingOpen,
                   approvalsOpen, inTurn, zone, turnClock, turnsTaken, carried>>

AutoReasons == {"the missing detail", "the meeting"}
Reasons == AutoReasons \cup {"promised"}
NoTurn == [on |-> FALSE, state |-> NoState, follows |-> NoState, due |-> 0]
NotCarried == [on |-> FALSE, age |-> 0]

TurnRulesTypeOK ==
  /\ kept \in [TurnChats -> StickyStates \cup PassingStates \cup {NoState}]
  /\ keptAt \in [TurnChats -> 0 .. MaxTurnTicks]
  /\ historied \in [TurnChats -> BOOLEAN]
  /\ \A c \in TurnChats : \A n \in DOMAIN chatFollowups[c] :
       chatFollowups[c][n] \in [reason : Reasons, due : Nat]
  /\ meetingOpen \in [TurnChats -> BOOLEAN] /\ approvalsOpen \in BOOLEAN
  /\ inTurn \in [TurnChats -> [on : BOOLEAN, due : Nat,
                               state : StickyStates \cup PassingStates \cup {NoState},
                               follows : Reasons \cup {NoState}]]
  /\ zone \in Zones /\ turnClock \in 0 .. MaxTurnTicks /\ turnsTaken \in 0 .. MaxTurnsTaken
  /\ carried \in [on : BOOLEAN, age : 0 .. MaxTurnTicks]

TurnRulesInit ==
  /\ kept = [c \in TurnChats |-> NoState]
  /\ keptAt = [c \in TurnChats |-> 0]
  /\ historied = [c \in TurnChats |-> FALSE]
  /\ chatFollowups = [c \in TurnChats |-> <<>>]
  /\ meetingOpen = [c \in TurnChats |-> FALSE] /\ approvalsOpen = FALSE
  /\ inTurn = [c \in TurnChats |-> NoTurn]
  /\ zone \in Zones
  /\ turnClock = 0 /\ turnsTaken = 0
  /\ carried = NotCarried

----------------------------------------------------------------------------
\* classifyTurnIntent
TurnIntent(m) ==
  IF m.minimal THEN "continuation"
  ELSE IF m.marks = {} THEN "unclear"
  ELSE Intents[CHOOSE n \in DOMAIN Intents :
         /\ Intents[n] \in m.marks
         /\ \A k \in 1 .. n - 1 : Intents[k] \notin m.marks]
Asks(m) == TurnIntent(m) \in {"action_request", "reminder_request"}

\* resolveOpenLoops
Overdue(c) == \E n \in DOMAIN chatFollowups[c] : chatFollowups[c][n].due <= turnClock

\* resolvePrimaryFocus
PrimaryFocus(c, m) ==
  CASE TurnIntent(m) = "status_query" -> "status"
    [] TurnIntent(m) = "correction" -> "message"
    [] Asks(m) -> "new_request"
    [] OTHER -> IF Overdue(c) THEN "followup"
                ELSE IF meetingOpen[c] THEN "meeting"
                ELSE IF m.minimal /\ chatFollowups[c] # <<>> THEN "followup"
                ELSE "message"

\* resolveMissingInfo and resolveActionPlan
NeedsClarification(c, m) == PrimaryFocus(c, m) = "new_request" /\ m.lacks
ActionPlan(c, m) ==
  LET focus == PrimaryFocus(c, m)
  IN  CASE focus = "status" -> "give_status"
        [] TurnIntent(m) = "correction" -> "confirm_correction"
        [] focus = "followup" -> "mention_followup"
        [] focus = "meeting" -> "mention_meeting"
        [] focus = "new_request" -> IF m.lacks THEN "ask_for_missing_detail"
                                    ELSE "handle_new_request"
        [] OTHER -> IF TurnIntent(m) = "multi_step_request" THEN "handle_multi_step"
                    ELSE "reply_only"

\* resolveToolIntent
ShouldUseTool(m) == m.tool

\* resolveContradictions: those a decision rests on; missing information
\* always comes with the need to clarify.
ReferenceConflict(m) == m.people > 1

\* resolveResponseStrategy and resolveExecutionDecision: no decision ever
\* takes the tools away.
ClarifiesFirst(c, m) == NeedsClarification(c, m)
ExecutionDecision(c, m) ==
  IF ClarifiesFirst(c, m) \/ ReferenceConflict(m) THEN "clarify_before_execution"
  ELSE IF ShouldUseTool(m) THEN "allow_tool_execution"
  ELSE "reply_only"

\* evaluateOutcome: after how many ticks it suggests to come back, 0 for never.
FollowupSuggested(c, m) ==
  IF ExecutionDecision(c, m) = "allow_tool_execution" THEN 0   \* ten minutes, unused
  ELSE IF ClarifiesFirst(c, m) THEN 1
  ELSE IF ActionPlan(c, m) = "mention_followup" THEN 2
  ELSE IF ActionPlan(c, m) = "give_status" THEN 0
  ELSE IF ReferenceConflict(m) THEN 1 ELSE 0

----------------------------------------------------------------------------
\* getPersistedState.  updated_at is Greenwich's time and is read as the
\* host's: it seems older by the zone than it is.  A stale row is deleted.
Age(c) == turnClock - keptAt[c]
StaleNever(c) == FALSE               \* a mutant
Stale(c) == Age(c) + zone > StaleTicks
CarriesOn(c) == kept[c] \in StickyStates /\ ~Stale(c)

\* The strong signals, which resolveConversationState looks at first.
StrongState(c, m) ==
  IF TurnIntent(m) = "correction" THEN "correction_flow"
  ELSE IF NeedsClarification(c, m) THEN "awaiting_user_detail"
  ELSE IF PrimaryFocus(c, m) = "status" THEN "status_discussion"
  ELSE NoState

\* The rest of it, for a turn nothing is carried over to.
FreshState(c, m) ==
  IF ~historied[c] THEN "new_chat"
  ELSE IF approvalsOpen /\ c = OwnersChat THEN "awaiting_owner_approval"
  ELSE IF PrimaryFocus(c, m) = "followup" THEN "awaiting_followup"
  ELSE IF PrimaryFocus(c, m) = "meeting" THEN "awaiting_meeting_response"
  ELSE IF ShouldUseTool(m) THEN "action_execution"
  ELSE "active_exchange"

Carries(c, m) == StrongState(c, m) = NoState /\ CarriesOn(c)
ConversationState(c, m) ==
  IF StrongState(c, m) # NoState THEN StrongState(c, m)
  ELSE IF CarriesOn(c) THEN kept[c] ELSE FreshState(c, m)

\* setPersistedState
Persist(c, state) ==
  /\ kept' = [kept EXCEPT ![c] = state]
  /\ keptAt' = [keptAt EXCEPT ![c] = turnClock]

\* resolveFollowupAutomationDecision.  What it would say of an open follow-up
\* is a follow-up's own beginning, so it is there already.
SuggestedReason(c, m) ==
  IF ActionPlan(c, m) = "ask_for_missing_detail" THEN "the missing detail"
  ELSE IF ActionPlan(c, m) = "mention_meeting" THEN "the meeting"
  ELSE NoState
FollowsAnyway(c, reason) == reason \in AutoReasons     \* a mutant
NotYetFollowed(c, reason) ==
  \A n \in DOMAIN chatFollowups[c] : chatFollowups[c][n].reason # reason
FollowupDecision(c, m) ==
  LET reason == SuggestedReason(c, m)
  IN  IF /\ FollowupSuggested(c, m) # 0 /\ c # OwnersChat
         /\ reason # NoState /\ NotYetFollowed(c, reason)
      THEN reason ELSE NoState

\* getResolvedContext, once the message is in the history: all of it is decided
\* here, and the state is written before the model is asked.
ResolveTurn(c, m) ==
  /\ ~inTurn[c].on /\ turnsTaken < MaxTurnsTaken
  /\ turnsTaken' = turnsTaken + 1
  /\ Persist(c, ConversationState(c, m))
  /\ carried' = IF Carries(c, m) THEN [on |-> TRUE, age |-> Age(c)] ELSE NotCarried
  /\ inTurn' = [inTurn EXCEPT ![c] =
       [on |-> TRUE, state |-> ConversationState(c, m),
        follows |-> FollowupDecision(c, m),
        due |-> turnClock + FollowupSuggested(c, m)]]
  /\ historied' = [historied EXCEPT ![c] = TRUE]
  /\ UNCHANGED <<chatFollowups, meetingOpen, approvalsOpen, zone, turnClock>>

\* addFollowup takes no second entry of one reason, due within five minutes of
\* the first, whichever chat that one is of; "close" is whether two due in one
\* tick are.
AlreadyDue(entry) ==
  \E c \in TurnChats : \E n \in DOMAIN chatFollowups[c] : chatFollowups[c][n] = entry
WithFollowup(entries, entry, close) ==
  IF close /\ AlreadyDue(entry) THEN entries ELSE Append(entries, entry)

\* The reply is sent: the state is written once more, the follow-up decided at
\* the start is created, and what is promised in a reply to another than the
\* owner becomes one, too, due in six hours or more.
FinishTurn(c, promises, close) ==
  LET t   == inTurn[c]
      own == IF t.follows = NoState THEN chatFollowups[c]
             ELSE WithFollowup(chatFollowups[c], [reason |-> t.follows, due |-> t.due], close)
  IN  /\ inTurn[c].on
      /\ inTurn' = [inTurn EXCEPT ![c] = NoTurn]
      /\ Persist(c, inTurn[c].state)
      /\ chatFollowups' = [chatFollowups EXCEPT ![c] =
           IF promises /\ c # OwnersChat
           THEN WithFollowup(own, [reason |-> "promised", due |-> MaxTurnTicks + 1], close)
           ELSE own]
      /\ carried' = NotCarried
      /\ UNCHANGED <<historied, meetingOpen, approvalsOpen, zone, turnClock, turnsTaken>>

\* The model or the reply fails: nothing after it is done.
TurnFails(c) ==
  /\ inTurn[c].on
  /\ inTurn' = [inTurn EXCEPT ![c] = NoTurn]
  /\ carried' = NotCarried
  /\ UNCHANGED <<kept, keptAt, historied, chatFollowups, meetingOpen,
                 approvalsOpen, zone, turnClock, turnsTaken>>

\* /clear: the history and the state go.
ClearChat(c) ==
  /\ ~inTurn[c].on /\ historied[c]
  /\ kept' = [kept EXCEPT ![c] = NoState]
  /\ historied' = [historied EXCEPT ![c] = FALSE]
  /\ UNCHANGED <<keptAt, chatFollowups, meetingOpen, approvalsOpen, inTurn, zone,
                 turnClock, turnsTaken, carried>>

\* A restart loses the turns under way; what they wrote stays.
TurnsRestart ==
  /\ \E c \in TurnChats : inTurn[c].on
  /\ inTurn' = [c \in TurnChats |-> NoTurn]
  /\ carried' = NotCarried
  /\ UNCHANGED <<kept, keptAt, historied, chatFollowups, meetingOpen,
                 approvalsOpen, zone, turnClock, turnsTaken>>

\* Elsewhere a follow-up is done, a meeting is asked for or settled, and
\* somebody asks to be let in or is.
FollowupDone(c) ==
  /\ chatFollowups[c] # <<>>
  /\ chatFollowups' = [chatFollowups EXCEPT ![c] = Tail(@)]
  /\ UNCHANGED <<kept, keptAt, historied, meetingOpen, approvalsOpen, inTurn,
                 zone, turnClock, turnsTaken, carried>>
MeetingTurns(c) ==
  /\ c # OwnersChat
  /\ meetingOpen' = [meetingOpen EXCEPT ![c] = ~@]
  /\ UNCHANGED <<kept, keptAt, historied, chatFollowups, approvalsOpen, inTurn,
                 zone, turnClock, turnsTaken, carried>>
ApprovalsTurn ==
  /\ approvalsOpen' = ~approvalsOpen
  /\ UNCHANGED <<kept, keptAt, historied, chatFollowups, meetingOpen, inTurn,
                 zone, turnClock, turnsTaken, carried>>

TurnTime ==
  /\ turnClock < MaxTurnTicks /\ turnClock' = turnClock + 1
  /\ carried' = NotCarried
  /\ UNCHANGED <<kept, keptAt, historied, chatFollowups, meetingOpen,
                 approvalsOpen, inTurn, zone, turnsTaken>>

TurnRulesNext ==
  \/ \E c \in TurnChats, m \in TurnMessages : ResolveTurn(c, m)
  \/ \E c \in TurnChats, promises, close \in BOOLEAN : FinishTurn(c, promises, close)
  \/ \E c \in TurnChats : TurnFails(c) \/ ClearChat(c) \/ FollowupDone(c) \/ MeetingTurns(c)
  \/ TurnsRestart \/ ApprovalsTurn \/ TurnTime

TurnRulesSpec == TurnRulesInit /\ [][TurnRulesNext]_ruledTurnVars

----------------------------------------------------------------------------
(***************************************************************************)
(* A turn is told that the conversation waits for something only if it     *)
(* did within the last half hour, silences, restarts and failed turns      *)
(* included.  Left out is a host west of Greenwich, whose clock makes what *)
(* is stored seem younger than it is, by as much as it is behind.          *)
(***************************************************************************)
CarriedOnlyFresh == carried.on /\ zone >= 0 => carried.age <= StaleTicks

(***************************************************************************)
(* The bot reminds itself of one thing once: of its own a chat never has   *)
(* two follow-ups of one reason, although the one is decided on before the *)
(* model is asked and created after the reply, with turns of other chats,  *)
(* follow-ups done and restarts between.                                   *)
(***************************************************************************)
FollowedUpOnce ==
  \A c \in TurnChats : \A n, k \in DOMAIN chatFollowups[c] :
    chatFollowups[c][n].reason = chatFollowups[c][k].reason
      /\ chatFollowups[c][n].reason \in AutoReasons => n = k
=============================================================================
