------------------------------ MODULE ReplyTurns ------------------------------
(***************************************************************************)
(* The turns of the bot.  WhatsApp hands over messages in batches; those   *)
(* of a batch are handled one after the other, those of a chat under the   *)
(* chat's lock.  A turn keeps the message in the history, asks the model   *)
(* and its tools round after round, guards the text against claims of      *)
(* actions nobody took, keeps the answer and sends it.  After ten minutes  *)
(* the turn goes on without the model, which does not stop for that.       *)
(* Followed from whatsapp/index.ts, whatsapp/chat-lock.ts,                 *)
(* whatsapp/response-handler.ts, ai/send-message.ts and ai/guards.ts.      *)
(***************************************************************************)
EXTENDS Naturals, Sequences, FiniteSets, SequencesExt

CONSTANTS LastInbound,    \* the messages are 1 .. LastInbound
          ChatOf,           \* ChatOf[m]: its chat
          BatchOf,          \* BatchOf[m]: its batch; a batch's messages are adjacent
          Marked,           \* messages that hold the mark of what the system did
          MaxIterations,    \* MAX_TOOL_ITERATIONS
          MaxRows,          \* maxHistory * 2
          MaxNotes          \* messages the bot sends outside a turn

ASSUME ReplyTurnsAssumption == LastInbound \in Nat /\ MaxRows \in Nat

Inbound == 1 .. LastInbound
Chats == {ChatOf[m] : m \in Inbound}

VARIABLES turn,        \* where each message's handler stands
          chatLock,      \* the handlers waiting for each chat, the running one first
          rows,          \* conversations: each chat's history
          loop,          \* where the calls of the model and its tools stand
          reply,         \* the text the turn is about to send
          notes,         \* how many of MaxNotes there were
          gaveUp         \* ghost: turns the timeout ended while their loop goes on

turnVars == <<turn, chatLock, rows, loop, reply, notes, gaveUp>>

\* used: of what the loop knows; acted and retried are ghosts, a tool having
\* run, the guard's retry included, and the guard having sent the text back.
NoLoop == [at |-> "none", rounds |-> 0, offered |-> FALSE, used |-> FALSE,
           acted |-> FALSE, retried |-> FALSE]
Row(role, m) == [role |-> role, of |-> m]
NoMessage == 0

ReplyTurnsTypeOK ==
  /\ turn \in [Inbound -> {"unseen", "arriving", "queued", "opening", "refusing", "pdf", "replying",
                           "thinking", "answering", "reacting", "apologising", "done", "lost"}]
  /\ chatLock \in [Chats -> Seq(Inbound)]
  /\ rows \in [Chats -> Seq([role : {"user", "assistant"}, of : Inbound \cup {NoMessage}])]
  /\ \A c \in Chats : Len(rows[c]) <= MaxRows
  /\ loop \in [Inbound -> [at : {"none", "asking", "calling", "retrying", "recalling"},
                           rounds : 0 .. MaxIterations, offered : BOOLEAN, used : BOOLEAN,
                           acted : BOOLEAN, retried : BOOLEAN]]
  /\ reply \in [Inbound -> {"none", "plain", "claim"}]
  /\ notes \in 0 .. MaxNotes
  /\ gaveUp \subseteq Inbound

ReplyTurnsInit ==
  /\ turn = [m \in Inbound |-> "unseen"]
  /\ chatLock = [c \in Chats |-> <<>>]
  /\ rows = [c \in Chats |-> <<>>]
  /\ loop = [m \in Inbound |-> NoLoop]
  /\ reply = [m \in Inbound |-> "none"]
  /\ notes = 0
  /\ gaveUp = {}

---------------------------------------------------------------------------
(* Batches and the lock *)

FirstOfBatch(m) == \A n \in Inbound : n < m => BatchOf[n] # BatchOf[m]
RestOfBatch(m) == {n \in Inbound : n > m /\ BatchOf[n] = BatchOf[m]}
NextOfBatch(m) == {n \in RestOfBatch(m) : n = m + 1}

\* messages.upsert: the first message of a batch waits for its chat's data.
BatchArrives(m) ==
  /\ turn[m] = "unseen" /\ FirstOfBatch(m)
  /\ turn' = [turn EXCEPT ![m] = "arriving"]
  /\ UNCHANGED <<chatLock, rows, loop, reply, notes, gaveUp>>

\* It has it, or not: withChatLock chains the handler to the chat's last one.
Queued(m) ==
  /\ turn[m] = "arriving"
  /\ turn' = [turn EXCEPT ![m] = "queued"]
  /\ chatLock' = [chatLock EXCEPT ![ChatOf[m]] = Append(@, m)]
  /\ UNCHANGED <<rows, loop, reply, notes, gaveUp>>

OpensAtOnce(m) ==                  \* a mutant: the chat's last turn is not waited for
  /\ turn[m] = "queued"
  /\ turn' = [turn EXCEPT ![m] = "opening"]
  /\ UNCHANGED <<chatLock, rows, loop, reply, notes, gaveUp>>

\* handleMessage begins: media, contact and chat are awaited.
TurnOpens(m) ==
  /\ turn[m] = "queued" /\ chatLock[ChatOf[m]][1] = m
  /\ turn' = [turn EXCEPT ![m] = "opening"]
  /\ UNCHANGED <<chatLock, rows, loop, reply, notes, gaveUp>>

\* The handler of m settles: its lock passes on and so does its batch.
Settles(m) ==
  /\ turn' = [n \in Inbound |-> IF n = m THEN "done"
                                ELSE IF n \in NextOfBatch(m) THEN "arriving" ELSE turn[n]]
  /\ chatLock' = [chatLock EXCEPT ![ChatOf[m]] = Tail(@)]

\* It rejects: nobody awaits the listener's promise, and an unhandled
\* rejection ends the process.  Only the history survives; what was on its way
\* in is not handled again.
Underway(m) == turn[m] \notin {"unseen", "done"}
Rejects ==
  /\ turn' = [n \in Inbound |-> IF Underway(n) \/ \E m \in Inbound : Underway(m) /\ n \in RestOfBatch(m)
                                THEN "lost" ELSE turn[n]]
  /\ chatLock' = [c \in Chats |-> <<>>]
  /\ loop' = [m \in Inbound |-> NoLoop]
  /\ reply' = [m \in Inbound |-> "none"]
  /\ gaveUp' = {}

---------------------------------------------------------------------------
(* handleMessage up to the model *)

\* addMessage, which keeps the last MaxRows rows.
Kept(history) ==
  IF Len(history) > MaxRows THEN SubSeq(history, Len(history) - MaxRows + 1, Len(history))
  ELSE history
AddMessages(c, added) == rows' = [rows EXCEPT ![c] = Kept(@ \o added)]

\* fromMe, or nothing in it.
Ignored(m) ==
  /\ turn[m] = "opening"
  /\ Settles(m)
  /\ UNCHANGED <<rows, loop, reply, notes, gaveUp>>

\* A group that is muted, or a message the group filter skips.
Heard(m) ==
  /\ turn[m] = "opening"
  /\ AddMessages(ChatOf[m], <<Row("user", m)>>)
  /\ Settles(m)
  /\ UNCHANGED <<loop, reply, notes, gaveUp>>

\* Unreadable media is refused; an owner's command, the approval gate and
\* /help answer outside the history, /clear after emptying it; a PDF is
\* answered and then kept.
AnswersAside(m) ==
  /\ turn[m] = "opening"
  /\ \E at \in {"refusing", "replying", "pdf"} : turn' = [turn EXCEPT ![m] = at]
  /\ \/ UNCHANGED rows
     \/ turn'[m] = "replying" /\ rows' = [rows EXCEPT ![ChatOf[m]] = <<>>]
  /\ UNCHANGED <<chatLock, loop, reply, notes, gaveUp>>

AnsweredAside(m) ==
  /\ turn[m] \in {"refusing", "replying", "pdf"}
  /\ IF turn[m] = "pdf"
     THEN AddMessages(ChatOf[m], <<Row("user", m), Row("assistant", m)>>)
     ELSE UNCHANGED rows
  /\ Settles(m)
  /\ UNCHANGED <<loop, reply, notes, gaveUp>>

\* An await outside the try: the contact, the chat, these two replies.
OpeningThrows(m) ==
  /\ turn[m] \in {"opening", "refusing", "pdf"}
  /\ Rejects
  /\ UNCHANGED <<rows, notes>>

\* The message is kept and the model asked, with tools or without.
AsksModel(m) ==
  /\ turn[m] = "opening"
  /\ AddMessages(ChatOf[m], <<Row("user", m)>>)
  /\ turn' = [turn EXCEPT ![m] = "thinking"]
  /\ \E offered \in BOOLEAN :
       loop' = [loop EXCEPT ![m] = [NoLoop EXCEPT !.at = "asking", !.offered = offered]]
  /\ UNCHANGED <<chatLock, reply, notes, gaveUp>>

---------------------------------------------------------------------------
(* sendMessage: the race of the loop against the timeout *)

\* handleResponse keeps the text as the assistant's row before it is sent.
KeepsAnswer(m) ==
  /\ turn' = [turn EXCEPT ![m] = "answering"]
  /\ AddMessages(ChatOf[m], <<Row("assistant", m)>>)
  /\ UNCHANGED chatLock

\* [SKIP] says nothing, [REACT] leaves no row, a text may have one before it.
Responds(m, text) ==
  \/ /\ text = "skip" /\ Settles(m)
     /\ UNCHANGED <<rows, reply>>
  \/ /\ text # "skip"
     /\ turn' = [turn EXCEPT ![m] = "reacting"]
     /\ reply' = [reply EXCEPT ![m] = IF text = "react" THEN "none" ELSE text]
     /\ UNCHANGED <<chatLock, rows>>
  \/ /\ text \notin {"skip", "react"}
     /\ reply' = [reply EXCEPT ![m] = text]
     /\ KeepsAnswer(m)

\* The loop ends with a text: the turn has it, unless it gave up before.
LoopEnds(m, text) ==
  IF turn[m] = "thinking"
  THEN /\ Responds(m, text)
       /\ loop' = [loop EXCEPT ![m] = IF text = "claim" THEN [@ EXCEPT !.at = "none", !.rounds = 0]
                                      ELSE NoLoop]
       /\ UNCHANGED gaveUp
  ELSE /\ loop' = [loop EXCEPT ![m] = NoLoop]
       /\ gaveUp' = gaveUp \ {m}
       /\ UNCHANGED <<turn, chatLock, rows, reply>>

\* The model asks for tools, as often as the loop lets it.
ModelCallsTools(m) ==
  /\ loop[m].at \in {"asking", "retrying"}
  /\ loop[m].offered
  /\ loop[m].rounds < MaxIterations
  /\ loop' = [loop EXCEPT ![m].at = IF @ = "asking" THEN "calling" ELSE "recalling",
                          ![m].rounds = @ + 1]
  /\ UNCHANGED <<turn, chatLock, rows, reply, notes, gaveUp>>

\* All the calls of a round have returned; the model is asked again.
ToolsReturn(m) ==
  /\ loop[m].at \in {"calling", "recalling"}
  /\ loop' = [loop EXCEPT ![m].at = IF @ = "calling" THEN "asking" ELSE "retrying",
                          ![m].used = @ \/ loop[m].at = "calling",
                          ![m].acted = TRUE]
  /\ UNCHANGED <<turn, chatLock, rows, reply, notes, gaveUp>>

HallucinatedAnyway(m, text) ==       \* a mutant: the tools are checked the wrong way round
  text = "claim" /\ ~loop[m].used /\ ~loop[m].offered /\ m \notin Marked

\* checkHallucination: a claim, tools at hand and none used, of a message that
\* is without the mark.
Hallucinated(m, text) ==
  text = "claim" /\ ~loop[m].used /\ loop[m].offered /\ m \notin Marked

\* The model answers: the text it has, or the fixed one when it has none.  A
\* claim of an action is sent back to it once.
ModelAnswers(m) ==
  /\ loop[m].at = "asking"
  /\ \E text \in {"plain", "claim", "skip", "react"} :
       IF Hallucinated(m, text)
       THEN /\ loop' = [loop EXCEPT ![m].at = "retrying", ![m].rounds = 0, ![m].retried = TRUE]
            /\ UNCHANGED <<turn, chatLock, rows, reply, gaveUp>>
       ELSE LoopEnds(m, text)
  /\ UNCHANGED <<notes>>

\* What comes of the retry is sent as it is; a retry that fails or has no
\* text leaves the claim.
RetryAnswers(m) ==
  /\ loop[m].at = "retrying"
  /\ \E text \in {"plain", "claim", "skip", "react"} : LoopEnds(m, text)
  /\ UNCHANGED <<notes>>

\* The model's error reaches the turn, unless it gave up before.
ModelFails(m) ==
  /\ loop[m].at = "asking"
  /\ loop' = [loop EXCEPT ![m] = NoLoop]
  /\ turn' = [turn EXCEPT ![m] = IF @ = "thinking" THEN "apologising" ELSE @]
  /\ gaveUp' = gaveUp \ {m}
  /\ UNCHANGED <<chatLock, rows, reply, notes>>

TimesOutAsking(m) ==               \* a mutant: a call of a tool is not timed
  /\ turn[m] = "thinking"
  /\ loop[m].at \in {"asking", "retrying"}
  /\ reply' = [reply EXCEPT ![m] = "plain"]
  /\ KeepsAnswer(m)
  /\ gaveUp' = gaveUp \cup {m}
  /\ UNCHANGED <<loop, notes>>

\* SEND_MESSAGE_TIMEOUT_MS: the turn answers that it took too long, as of a
\* turn without tools; the loop is not stopped.
TimesOut(m) ==
  /\ turn[m] = "thinking"
  /\ reply' = [reply EXCEPT ![m] = "plain"]
  /\ KeepsAnswer(m)
  /\ gaveUp' = gaveUp \cup {m}
  /\ UNCHANGED <<loop, notes>>

---------------------------------------------------------------------------
(* The answer is sent *)

\* Nothing more is to be said of the message.
Said(m) ==
  /\ reply' = [reply EXCEPT ![m] = "none"]
  /\ loop' = [loop EXCEPT ![m] = IF @.at = "none" THEN NoLoop ELSE @]

\* A reaction is there; the text that goes with it is kept and sent.
Reacted(m) ==
  /\ turn[m] = "reacting" /\ reply[m] # "none"
  /\ KeepsAnswer(m)
  /\ UNCHANGED <<loop, reply, notes, gaveUp>>

\* The answer is there; what the turn still records may throw (its state).
AnswerSent(m) ==
  /\ turn[m] = "answering" \/ (turn[m] = "reacting" /\ reply[m] = "none")
  /\ Said(m)
  /\ \/ Settles(m)
     \/ turn' = [turn EXCEPT ![m] = "apologising"] /\ UNCHANGED chatLock
  /\ UNCHANGED <<rows, notes, gaveUp>>

\* The send rejects: the row stays.
SendRejects(m) ==
  /\ turn[m] \in {"answering", "reacting", "replying"}
  /\ turn' = [turn EXCEPT ![m] = "apologising"]
  /\ Said(m)
  /\ UNCHANGED <<chatLock, rows, notes, gaveUp>>

\* The apology of the catch is sent; if that rejects, so does the handler.
Apologised(m) ==
  /\ turn[m] = "apologising"
  /\ \/ Settles(m) /\ UNCHANGED <<loop, reply, gaveUp>>
     \/ Rejects
  /\ UNCHANGED <<rows, notes>>

\* A reminder, a tool of another chat's turn: the callbacks keep what they
\* have sent in the chat's history, outside its lock.
Note(c) ==
  /\ notes < MaxNotes
  /\ notes' = notes + 1
  /\ AddMessages(c, <<Row("assistant", NoMessage)>>)
  /\ UNCHANGED <<turn, chatLock, loop, reply, gaveUp>>

HandlerSteps(m) ==
  \/ BatchArrives(m) \/ Queued(m) \/ TurnOpens(m) \/ Ignored(m) \/ Heard(m)
  \/ AnswersAside(m) \/ AnsweredAside(m) \/ OpeningThrows(m) \/ AsksModel(m)
  \/ TimesOut(m) \/ Reacted(m) \/ AnswerSent(m) \/ SendRejects(m) \/ Apologised(m)
LoopSteps(m) ==
  \/ ModelCallsTools(m) \/ ToolsReturn(m) \/ ModelAnswers(m) \/ RetryAnswers(m) \/ ModelFails(m)

ReplyTurnsNext ==
  \/ \E m \in Inbound : HandlerSteps(m) \/ LoopSteps(m)
  \/ \E c \in Chats : Note(c)

ReplyTurnsSpec == ReplyTurnsInit /\ [][ReplyTurnsNext]_turnVars

---------------------------------------------------------------------------
(* What is expected of it *)

\* The last row before the i-th that is of a message, if there is one.
LastBefore(history, i) ==
  {j \in 1 .. i - 1 : /\ history[j].of # NoMessage
                      /\ \A k \in j + 1 .. i - 1 : history[k].of = NoMessage}

AnswersFollow(history) ==
  \A i \in DOMAIN history :
    history[i].role = "assistant" /\ history[i].of # NoMessage =>
      \A j \in LastBefore(history, i) : history[j] = Row("user", history[i].of)

\* However batches, timeouts and callbacks interleave: leaving out what the
\* bot says of its own accord, an answer in a chat's history stands right
\* after the message it answers, or first, its message trimmed or cleared.
AnswersFollowTheirMessage == \A c \in Chats : AnswersFollow(rows[c])

\* What a turn does and what it says of it belong together: the model and its
\* tools are at work only while their turn waits for them, or has given up;
\* and a claim of an action is sent only if a tool has run for the message,
\* the guard has sent the text back before, or the guard does not look: there
\* were no tools to use, or the message holds the mark of the system's deeds,
\* though nothing in the code ever puts it there.
DeedsMatchWords ==
  \A m \in Inbound :
    /\ loop[m].at # "none" => turn[m] = "thinking" \/ m \in gaveUp
    /\ reply[m] = "claim" =>
         loop[m].acted \/ loop[m].retried \/ ~loop[m].offered \/ m \in Marked

\* Every message that has come is answered, let be, or dropped with an error,
\* though the model and its tools may never return: the ten minutes end the
\* turn and free the lock.
EveryTurnEnds ==
  \A m \in Inbound : turn[m] = "arriving" ~> turn[m] \in {"done", "lost"}
=============================================================================
