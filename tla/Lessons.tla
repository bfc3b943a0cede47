------------------------------- MODULE Lessons -------------------------------
(***************************************************************************)
(* The instructions the bot lives by: the owner teaches and withdraws      *)
(* them, his corrections become some, and a tool that keeps failing        *)
(* becomes one, once.  A failure is logged in one synchronous step, and    *)
(* when it is the PatternThreshold-th of its tool within a week the model  *)
(* is asked for a rule in the background.  Followed from instructions.ts,  *)
(* context/failure-learner.ts, context/correction-learner.ts,              *)
(* ai/handle-tool-call.ts and state-migration.ts.                          *)
(***************************************************************************)
EXTENDS Naturals, Sequences, FiniteSets

CONSTANTS Tools,
          Phrasing,          \* Phrasing[t]: rules the model may draw from t's failures
          OtherRules,        \* what the owner teaches, or his corrections
          MaxInstructions,   \* MAX_INSTRUCTIONS
          MaxEntries,        \* MAX_ENTRIES of the failure log
          PatternThreshold,  \* PATTERN_THRESHOLD
          MaxAsked,          \* bound: analyses of one tool under way
          MaxTaught,         \* bound: rules drawn from failures
          MaxLessonFaults

VARIABLES instructions,  \* instructions.json, oldest first
          failures,      \* the entries of failure-log.json, oldest first
          ruled,         \* its rulesGenerated
          analysing,     \* how many analyses of each tool await the model
          lessonFaults,  \* how many of MaxLessonFaults there were
          taught,        \* ghost: how many rules came of each tool's failures
          overlapping,   \* ghost: analyses under way when the first was saved
          unmarked       \* ghost: tools whose mark was lost

lessonVars ==
  <<instructions, failures, ruled, analysing, lessonFaults, taught, overlapping, unmarked>>

LessonRules == OtherRules \cup UNION {Phrasing[t] : t \in Tools}

LessonsTypeOK ==
  /\ instructions \in Seq(LessonRules) /\ Len(instructions) <= MaxInstructions
  /\ \A i, j \in DOMAIN instructions : i # j => instructions[i] # instructions[j]
  /\ Len(failures) <= MaxEntries
  /\ \A i \in DOMAIN failures : failures[i] \in [tool : Tools, recent : BOOLEAN]
  /\ ruled \subseteq Tools
  /\ analysing \in [Tools -> 0 .. MaxAsked]
  /\ lessonFaults \in 0 .. MaxLessonFaults
  /\ taught \in [Tools -> Nat] /\ overlapping \in [Tools -> Nat]
  /\ unmarked \subseteq Tools

LessonsInit ==
  /\ instructions = <<>>
  /\ failures = <<>>
  /\ ruled = {}
  /\ analysing = [t \in Tools |-> 0]
  /\ lessonFaults = 0
  /\ taught = [t \in Tools |-> 0]
  /\ overlapping = taught
  /\ unmarked = {}

LastOf(s, n) == IF Len(s) > n THEN SubSeq(s, Len(s) - n + 1, Len(s)) ELSE s

---------------------------------------------------------------------------
(* The instructions *)

\* saveInstruction: a text that is there already is not saved again.
WithInstruction(rule) ==
  IF \E i \in DOMAIN instructions : instructions[i] = rule THEN instructions
  ELSE LastOf(Append(instructions, rule), MaxInstructions)

\* learn_instruction, and learnFromCorrection once the model has answered.
Teaches(rule) ==
  /\ instructions' = WithInstruction(rule)
  /\ UNCHANGED <<failures, ruled, analysing, lessonFaults, taught, overlapping, unmarked>>

\* forget_instruction, by number or by a part of the text.
Forgets(i) ==
  /\ i \in DOMAIN instructions
  /\ instructions' = SubSeq(instructions, 1, i - 1)
                     \o SubSeq(instructions, i + 1, Len(instructions))
  /\ UNCHANGED <<failures, ruled, analysing, lessonFaults, taught, overlapping, unmarked>>

---------------------------------------------------------------------------
(* The failures *)

Logged(t) == LastOf(Append(failures, [tool |-> t, recent |-> TRUE]), MaxEntries)

RecentOf(log, t) == {i \in DOMAIN log : log[i].tool = t /\ log[i].recent}

\* Mutants, here and below: what a slip in this code would do.

AnyPattern(log, t) == Cardinality(RecentOf(log, t)) >= PatternThreshold

\* Is there a pattern, and no rule for it yet?
ShowsPattern(log, t) ==
  /\ Cardinality(RecentOf(log, t)) >= PatternThreshold
  /\ t \notin ruled

\* handleToolCall: the handler throws, or its answer tells of an error.
ToolFails(t) ==
  /\ analysing[t] < MaxAsked
  /\ failures' = Logged(t)
  /\ analysing' = [analysing EXCEPT ![t] = IF ShowsPattern(failures', t) THEN @ + 1 ELSE @]
  /\ UNCHANGED <<instructions, ruled, lessonFaults, taught, overlapping, unmarked>>

\* A failure a week ago no longer counts.
WeekPasses ==
  /\ failures' = [i \in DOMAIN failures |-> [failures[i] EXCEPT !.recent = FALSE]]
  /\ UNCHANGED <<instructions, ruled, analysing, lessonFaults, taught, overlapping, unmarked>>

\* analyzeFailurePattern: the model draws a rule.
RuleDrawn(t, rule) ==
  /\ analysing[t] > 0
  /\ taught[t] < MaxTaught
  /\ rule \in Phrasing[t]
  /\ instructions' = WithInstruction(rule)
  /\ analysing' = [analysing EXCEPT ![t] = @ - 1]
  /\ taught' = [taught EXCEPT ![t] = @ + 1]
  /\ overlapping' = IF taught[t] = 0
                    THEN [overlapping EXCEPT ![t] = analysing[t] - 1] ELSE overlapping

\* The log is read again and marks the tool.
AnalysisTeaches(t, rule) ==
  /\ RuleDrawn(t, rule)
  /\ ruled' = ruled \cup {t}
  /\ UNCHANGED <<failures, lessonFaults, unmarked>>

\* A passing trouble, an answer that is no JSON, or a failed call: no mark.
AnalysisTeachesNothing(t) ==
  /\ analysing[t] > 0
  /\ analysing' = [analysing EXCEPT ![t] = @ - 1]
  /\ UNCHANGED <<instructions, failures, ruled, lessonFaults, taught, overlapping, unmarked>>

---------------------------------------------------------------------------
(* Restarts *)

Dies ==
  /\ lessonFaults < MaxLessonFaults
  /\ lessonFaults' = lessonFaults + 1

LessonRestart ==
  /\ Dies
  /\ analysing' = [t \in Tools |-> 0]
  /\ UNCHANGED <<instructions, failures, ruled, taught, overlapping, unmarked>>

\* Between saveInstruction and saveLog.
DiesBeforeMarking(t, rule) ==
  /\ Dies
  /\ analysing[t] > 0
  /\ rule \in Phrasing[t]
  /\ instructions' = WithInstruction(rule)
  /\ taught' = [taught EXCEPT ![t] = @ + 1]
  /\ analysing' = [u \in Tools |-> 0]
  /\ unmarked' = unmarked \cup {t}
  /\ UNCHANGED <<failures, ruled, overlapping>>

\* In the middle of a write: a log or a list that is no JSON counts as empty,
\* and the next save makes it so.
DiesWritingLog ==
  /\ Dies
  /\ failures' = <<>> /\ ruled' = {}
  /\ unmarked' = unmarked \cup ruled
  /\ analysing' = [t \in Tools |-> 0]
  /\ UNCHANGED <<instructions, taught, overlapping>>

DiesWritingInstructions ==
  /\ Dies
  /\ instructions' = <<>>
  /\ analysing' = [t \in Tools |-> 0]
  /\ UNCHANGED <<failures, ruled, taught, overlapping, unmarked>>

LessonsNext ==
  \/ \E rule \in OtherRules : Teaches(rule)
  \/ \E i \in 1 .. MaxInstructions : Forgets(i)
  \/ \E t \in Tools :
       \/ ToolFails(t)
       \/ AnalysisTeachesNothing(t)
       \/ \E rule \in Phrasing[t] : AnalysisTeaches(t, rule) \/ DiesBeforeMarking(t, rule)
  \/ WeekPasses
  \/ LessonRestart \/ DiesWritingLog \/ DiesWritingInstructions

LessonsSpec == LessonsInit /\ [][LessonsNext]_lessonVars

---------------------------------------------------------------------------
(* Properties *)

\* A tool that keeps failing is made a rule of once: beyond it only the
\* analyses that were already under way when it was saved may add another,
\* however often the tool fails on, the log is trimmed, or the owner withdraws
\* the rule; unless a crash cost the mark.
EachToolTaughtOnce ==
  \A t \in Tools : taught[t] > 0 /\ t \notin unmarked =>
    taught[t] + analysing[t] <= 1 + overlapping[t]
=============================================================================
