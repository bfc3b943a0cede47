------------------------------ MODULE PromptRules ------------------------------
(***************************************************************************)
(* What the model is given of a chat: which rows of the history, which     *)
(* sections of the context, which directives and which policies.  Nothing  *)
(* here asks the model; every rule is a fixed one.  Followed from          *)
(* context/history-selector, prompt-compressor, response-guidance,         *)
(* response-mode, reference-resolver, memory-write-decider, memory-commit- *)
(* policy, policy-resolver, the urgency of context-builder and             *)
(* workspace-loader.  The rows and the message are what the patterns find  *)
(* in them; wording and labels are left out.                               *)
(***************************************************************************)
EXTENDS Integers, Sequences, FiniteSets, Lists

CONSTANTS Signals,        \* the messages, with what the other rules found (below)
          Answers,        \* sets of marks an answer of the bot may have
          MinToFilter,    \* MIN_MESSAGES_TO_FILTER
          RecencyWindow,
          MaxSelected,    \* MAX_SELECTED
          Fading,         \* Fading[age]: five points that fade with a row's age
          MaxSections,    \* MAX_SECTIONS
          MaxRows         \* bound

(* A message of Signals:
     marks     what a row is scored by: words, and "decision", "date", "tool",
               "long"; bare: a placeholder or too short to have words
     owner, group, score, style, kind     of the person; kind is its type
     intent, focus, acts, lacks, conflict, tool   of the turn (TurnRules)
     followups "none", "open" or "overdue"; meeting: one is pending
     people    how many it names; pronoun, thing: it says "him", "about this"
     mood, sure    and whether it is at least 0.6 sure
     hour, day     of Israel
     tells     kinds of things worth keeping; explicit: "remember that"
     noted     how the profile's notes compare: "none", "similar", "same"
     lasting   a habit told at some length
     learnt, ruled, remembered   whether there are instructions, active
               standing orders, a memory of the person; topics it touches  *)

VARIABLES chatRows,   \* the chat's history
          prompt      \* what the model was last given

promptVars == <<chatRows, prompt>>

NoPrompt == [on |-> FALSE]

Scored == {"decision", "date", "tool", "long"}

---------------------------------------------------------------------------
(* The history: scoreMessage and selectRelevantHistory, scores in halves   *)

Least2(a, b) == IF a < b THEN a ELSE b

RowScore(i, m) ==
  LET row  == chatRows[i]
      hits == Cardinality((row.marks \cap m.marks) \ Scored)
  IN  Least2(4 * hits, 20)
      + (IF "decision" \in row.marks THEN 2 ELSE 0)
      + (IF "date" \in row.marks THEN 4 ELSE 0)
      + (IF "tool" \in row.marks THEN 4 ELSE 0)
      + (IF "long" \in row.marks THEN 2 ELSE 0)
      + (IF row.role = "assistant" THEN 2 ELSE 0)
      + Fading[Len(chatRows) - i + 1]

Recent == {i \in DOMAIN chatRows : i > Len(chatRows) - RecencyWindow}

\* The best of the older rows, earlier ones first among equals.
Relevant(m) ==
  LET older == DOMAIN chatRows \ Recent
      Outranks(j, i) == \/ RowScore(j, m) > RowScore(i, m)
                        \/ RowScore(j, m) = RowScore(i, m) /\ j < i
  IN  {i \in older : /\ RowScore(i, m) >= 4
                     /\ Cardinality({j \in older : Outranks(j, i)})
                          < MaxSelected - Cardinality(Recent)}

\* One row more for each, whether or not that row's own pair is there, and
\* beyond MAX_SELECTED.
Paired(S) ==
  S \cup {i \in DOMAIN chatRows : i - 1 \in S /\ chatRows[i - 1].role = "user"}
    \cup {i \in DOMAIN chatRows : i + 1 \in S /\ chatRows[i + 1].role = "assistant"}

Selected(m) ==
  IF Len(chatRows) <= MinToFilter THEN DOMAIN chatRows
  ELSE IF m.bare THEN Recent
  ELSE Paired(Recent \cup Relevant(m))

---------------------------------------------------------------------------
(* The turn *)

\* buildConversationContext: the message itself is in the history by now, so
\* the person always waits for a reply; two messages at the end are repeated.
Repeated ==
  /\ Len(chatRows) >= 2
  /\ \A i \in Len(chatRows) - 1 .. Len(chatRows) : chatRows[i].role = "user"

\* buildUrgencyContext.  The profile's last interaction is the message itself,
\* so nobody is ever seen to have waited for an hour; and the two boosts of an
\* important contact add up.
Priority(m) ==
  IF m.followups = "overdue" \/ m.score > 70 THEN "high"
  ELSE IF m.followups = "open" \/ Repeated THEN "medium" ELSE "low"

\* resolveRegister
Register(m) ==
  IF m.day = "saturday" \/ (m.day = "friday" /\ m.hour >= 14) THEN "relaxed"
  ELSE IF m.hour \in 8 .. 17 THEN "professional" ELSE "casual"

\* resolveResponseMode: each rule overrules those before it, so the last is
\* looked at first.
Tone(m) ==
  CASE m.mood \in {"sad", "frustrated"} -> "warm"
    [] m.mood \in {"happy", "excited"} -> "friendly"
    [] m.mood \in {"stressed", "rushed"} -> "direct"
    [] OTHER -> IF m.intent = "greeting" /\ Priority(m) = "low" THEN "friendly"
                ELSE IF Repeated \/ m.followups = "overdue" THEN "direct"
                ELSE IF m.style \in {"friendly", "warm"} THEN m.style
                ELSE "professional"
Brief(m) == Repeated \/ m.mood \in {"stressed", "rushed", "frustrated"}
Structure(m) ==
  IF m.intent = "correction" THEN "action_confirmation"
  ELSE IF m.focus = "status" THEN "status_list" ELSE "direct_answer"

\* resolveReferences.  The topics of past conversations it would look up are
\* never stored.
References(m) ==
  {<<"person", n>> : n \in 1 .. m.people}
  \cup (IF m.people = 0 /\ m.pronoun /\ (m.meeting \/ m.followups # "none")
        THEN {<<"person", 0>>} ELSE {})
  \cup (IF m.thing /\ m.followups # "none" THEN {<<"followup", 0>>} ELSE {})

\* resolveMemoryWriteDecision: greetings, requests that lack something and
\* short messages hold nothing to keep.
MemoryWrite(m) ==
  IF m.bare \/ m.lacks THEN "none"
  ELSE IF "preference" \in m.tells THEN "preference"
  ELSE IF "fact" \in m.tells THEN "fact"
  ELSE IF "relationship" \in m.tells THEN "relationship_signal"
  ELSE IF "task" \in m.tells THEN "task_signal" ELSE "none"

\* resolveMemoryCommitDecision
MemoryCommit(m) ==
  IF MemoryWrite(m) = "none" \/ (m.owner /\ ~m.explicit) THEN "skip"
  ELSE CASE MemoryWrite(m) = "fact" ->
              (CASE m.noted = "none" -> "write_new"
                 [] m.noted = "same" -> "skip"
                 [] OTHER -> "reject_conflict")
         [] MemoryWrite(m) = "preference" ->
              IF m.noted = "none" THEN "write_new" ELSE "update_existing"
         [] MemoryWrite(m) = "relationship_signal" ->
              IF m.kind = "unknown" THEN "update_existing" ELSE "skip"
         [] OTHER -> IF m.lasting THEN "write_new" ELSE "skip"

\* generateResponseGuidance: the first three that apply.
GuidanceOrder == <<"overdue", "open items", "correction", "repeated", "status",
                   "greeting", "asked after", "many steps", "mood", "time of day">>
Applies(d, m) ==
  \/ d = "overdue" /\ m.followups = "overdue"
  \/ d = "open items" /\ m.bare /\ m.followups = "open"
  \/ d = "correction" /\ m.intent = "correction"
  \/ d = "repeated" /\ Repeated
  \/ d = "status" /\ m.intent = "status_query"
  \/ d = "greeting" /\ m.intent = "greeting" /\ m.followups # "none"
  \/ d = "asked after" /\ m.intent = "followup_query" /\ m.followups # "none"
  \/ d = "many steps" /\ m.intent = "multi_step_request"
  \/ d = "mood" /\ m.sure /\ m.mood # "neutral"
  \/ d = "time of day" /\ (m.hour >= 22 \/ m.hour < 9)
Guidance(m) ==
  LET all == Keep(GuidanceOrder,
                  {d \in {GuidanceOrder[n] : n \in DOMAIN GuidanceOrder} : Applies(d, m)})
  IN  SubSeq(all, 1, Least2(Len(all), 3))

---------------------------------------------------------------------------
(* The sections: buildAllSections and buildCompressedPrompt *)

SectionOrder == <<"primary_focus", "response_strategy", "execution_decision",
                  "missing_info", "contradictions", "tool_routing", "action_plan",
                  "open_loops", "references", "urgency", "conversation_state", "person",
                  "response_mode", "tool_intent", "memory_write", "guidance", "mood">>
Critical == {"primary_focus", "response_strategy", "execution_decision",
             "missing_info", "contradictions"}
Certain == Critical \cup {"tool_routing", "action_plan", "open_loops"}

\* There is room for all of these.
ASSUME PromptAssumption ==
  /\ MinToFilter \in Nat /\ RecencyWindow \in Nat
  /\ MaxSections \in Nat /\ MaxSections >= Cardinality(Certain)

\* Tools are always allowed (TurnRules), so the routing depends on the intent.
Wanted(s, m) ==
  CASE s = "missing_info"  -> m.lacks
    [] s = "contradictions" -> m.conflict
    [] s \in {"tool_routing", "tool_intent"} -> m.tool
    [] s = "action_plan"   -> m.acts
    [] s = "open_loops"    -> m.followups # "none" \/ m.meeting
    [] s = "references"    -> References(m) # {}
    [] s = "urgency"       -> Priority(m) # "low"
    [] s = "person"        -> m.owner \/ m.score >= 70 \/ m.kind # "unknown"
    [] s = "response_mode" -> \/ Tone(m) # "professional" \/ Brief(m)
                              \/ Structure(m) # "direct_answer"
                              \/ Register(m) # "professional"
    [] s = "memory_write"  -> MemoryCommit(m) # "skip"
    [] s = "guidance"      -> Guidance(m) # <<>>
    [] s = "mood"          -> m.sure /\ m.mood # "neutral"
    [] OTHER -> TRUE

RankOf(s, m) ==
  IF s \in Critical THEN 1
  ELSE IF \/ s \in {"tool_routing", "action_plan", "open_loops", "references",
                    "urgency", "conversation_state", "person"}
          \/ s = "memory_write" /\ MemoryCommit(m) = "reject_conflict"
  THEN 2 ELSE 3

\* Mutants, here and below: what a slip in this code would do.
PackedByRank(m) ==      \* a whole rank goes in, or none of it
  {s \in {SectionOrder[n] : n \in DOMAIN SectionOrder} :
     /\ Wanted(s, m)
     /\ Cardinality({t \in {SectionOrder[n] : n \in DOMAIN SectionOrder} :
                       Wanted(t, m) /\ RankOf(t, m) < RankOf(s, m)}) < MaxSections}

\* The first MAX_SECTIONS of those wanted, by rank and then as they were built.
\* Four are always wanted, so that the minimum never has to be made up.
Packed(m) ==
  LET wanted == {k \in DOMAIN SectionOrder : Wanted(SectionOrder[k], m)}
      rank == [k \in wanted |-> RankOf(SectionOrder[k], m)]
  IN  {SectionOrder[k] : k \in {k \in wanted :
         Cardinality({j \in wanted : Sooner(rank, j, k)}) < MaxSections}}

\* Two directives at most, and none when their section is left out.
Told(m) ==
  IF "guidance" \in Packed(m) THEN SubSeq(Guidance(m), 1, Least2(Len(Guidance(m)), 2)) ELSE <<>>

---------------------------------------------------------------------------
(* The policies: getRelevantContext and resolvePolicies *)

PolicyFiles(m) ==
  {"privacy"} \cup (IF m.owner THEN {"owner_interaction"} ELSE {})
  \cup (IF m.group THEN {"groups"} ELSE {}) \cup m.topics

PolicyLayers(m) ==
  <<[level |-> 1, of |-> {"identity"}],
    [level |-> 2, of |-> IF m.learnt THEN {"instructions"} ELSE {}],
    [level |-> 2, of |-> IF m.ruled THEN {"standing orders"} ELSE {}],
    [level |-> 4, of |-> PolicyFiles(m)],
    [level |-> 6, of |-> IF m.remembered THEN {"memory"} ELSE {}]>>

Policies(m) ==
  LET all == PolicyLayers(m)
  IN  Keep(all, {p \in {all[n] : n \in DOMAIN all} : p.of # {}})

---------------------------------------------------------------------------
(* The chat *)

PromptInit == chatRows = <<>> /\ prompt = NoPrompt

\* A message is stored, and may wait for others (a batch), or fail.
Stores(m) ==
  /\ Len(chatRows) < MaxRows
  /\ chatRows' = Append(chatRows, [role |-> "user", marks |-> m.marks])
  /\ prompt' = NoPrompt

\* handleMessage, of the message that ends the history.
Composes(m) ==
  /\ prompt = NoPrompt
  /\ chatRows # <<>>
  /\ chatRows[Len(chatRows)] = [role |-> "user", marks |-> m.marks]
  /\ prompt' = [on |-> TRUE, message |-> m, rows |-> Selected(m),
                sections |-> Packed(m), guidance |-> Told(m),
                policies |-> Policies(m)]
  /\ UNCHANGED chatRows

\* An answer, or what another part of the program says in this chat.
Answered(marks) ==
  /\ Len(chatRows) < MaxRows
  /\ chatRows' = Append(chatRows, [role |-> "assistant", marks |-> marks])
  /\ prompt' = NoPrompt

PromptNext ==
  \/ \E m \in Signals : Stores(m) \/ Composes(m)
  \/ \E marks \in Answers : Answered(marks)

PromptSpec == PromptInit /\ [][PromptNext]_promptVars

---------------------------------------------------------------------------
(* Properties *)

\* However much there is to say of a turn, the model is told what the decision
\* rests on: the latest rows of the chat, whatever older ones score; what is
\* missing, in conflict or open, and what it may do, though no more than
\* MAX_SECTIONS in all; directives unless the prompt is full without them, and
\* if any, an overdue promise's before every other; and nothing learnt of a
\* person stands before the owner's instructions.
WhatMattersIsTold ==
  prompt.on =>
    /\ \A i \in Len(chatRows) - RecencyWindow + 1 .. Len(chatRows) : i > 0 => i \in prompt.rows
    /\ Cardinality(prompt.sections) <= MaxSections
    /\ \A s \in Certain : Wanted(s, prompt.message) => s \in prompt.sections
    /\ prompt.guidance = <<>> =>
         Guidance(prompt.message) = <<>> \/ Cardinality(prompt.sections) = MaxSections
    /\ prompt.message.followups = "overdue" /\ prompt.guidance # <<>> =>
         Head(prompt.guidance) = "overdue"
    /\ \A i, j \in DOMAIN prompt.policies :
         i < j => prompt.policies[i].level <= prompt.policies[j].level

\* What the comment at the directive of an overdue promise says
\* (context/response-guidance.ts:15): it always surfaces, before all others.
\* Its section is of medium rank, and eight of a higher one leave it out.
OverdueSurfaces ==
  prompt.on /\ prompt.message.followups = "overdue" =>
    prompt.guidance # <<>> /\ Head(prompt.guidance) = "overdue"
=============================================================================
