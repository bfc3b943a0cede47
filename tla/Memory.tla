------------------------------- MODULE Memory -------------------------------
(***************************************************************************)
(* What the bot remembers of its owner: facts and preferences drawn from   *)
(* each turn in the background, patterns found at night, moods noticed on  *)
(* the way, all in one Markdown file that every save reads and writes      *)
(* whole.  Each save is one synchronous step; only the cleaning of the     *)
(* facts by the model holds a copy of the file across an await, and saves  *)
(* that copy.  Followed from memory.ts, ai/extract-facts.ts,               *)
(* insights/insight-scheduler.ts, context/mood-detector.ts and the end of  *)
(* handleMessage in whatsapp/index.ts.                                     *)
(***************************************************************************)
EXTENDS Integers, Sequences, FiniteSets, Lists

CONSTANTS Facts,         \* what a turn may teach
          OldFacts,        \* those of the retired memories.json, in order
          AlikeFacts,      \* pairs of facts or of preferences isSimilar joins
          Preferences,     \* values of one category
          PatternAnswers,  \* lists of patterns the nightly analysis may return
          Moods,           \* in the order of MOOD_SIGNALS
          Weight,          \* Weight[mood] of one signal, in tenths
          FactCap, PrefCap, PatternCap, MoodCap,
          CleanEvery,      \* the facts are cleaned at each multiple of this
          MinToClean,      \* and when they are this many
          Cleaners,        \* cleanings of the facts under way
          MaxMemoryDays, MaxMemorySaves, MaxMemoryFaults

ASSUME MemoryAssumption ==
  /\ OldFacts \in Seq(Facts)
  /\ AlikeFacts \subseteq SUBSET (Facts \cup Preferences)
  /\ Moods \in Seq(STRING) /\ PatternAnswers \subseteq Seq(STRING)
  /\ \A n \in {FactCap, PrefCap, PatternCap, MoodCap, CleanEvery} : n \in Nat \ {0}

VARIABLES memory,        \* the user's file
          cleaning,      \* the copy of the file each cleaning holds
          memoryDay,     \* today
          memorySaves,   \* how many of MaxMemorySaves there were
          memoryFaults,  \* how many of MaxMemoryFaults there were
          known,         \* ghost: what was saved and neither capped nor replaced
          beside         \* ghost: what was saved or dropped beside a cleaning

memoryVars ==
  <<memory, cleaning, memoryDay, memorySaves, memoryFaults, known, beside>>

MoodNames == {Moods[i] : i \in DOMAIN Moods}

PatternNames == UNION {{p[i] : i \in DOMAIN p} : p \in PatternAnswers}

Forgotten == [facts |-> <<>>, prefs |-> <<>>, patterns |-> <<>>, moods |-> <<>>]

NoMemoryCopy == Forgotten      \* of a cleaning not under way: a real copy has facts

\* Everything a file holds, each with its section.
Entries(file) ==
  UNION {{<<s, file[s][i]>> : i \in DOMAIN file[s]} : s \in DOMAIN file}

FitsCap(file) ==
  /\ DOMAIN file = DOMAIN Forgotten
  /\ \A i \in DOMAIN file.facts : file.facts[i] \in Facts
  /\ \A i \in DOMAIN file.prefs : file.prefs[i] \in Preferences
  /\ \A i \in DOMAIN file.moods : file.moods[i] \in (1 .. MaxMemoryDays) \X MoodNames
  /\ Len(file.facts) <= FactCap
  /\ Len(file.prefs) <= PrefCap
  /\ Len(file.patterns) <= PatternCap
  /\ Len(file.moods) <= MoodCap

MemoryTypeOK ==
  /\ FitsCap(memory)
  /\ DOMAIN cleaning = Cleaners
  /\ \A c \in Cleaners : cleaning[c] = NoMemoryCopy \/ FitsCap(cleaning[c])
  /\ memoryDay \in 1 .. MaxMemoryDays
  /\ memorySaves \in 0 .. MaxMemorySaves
  /\ memoryFaults \in 0 .. MaxMemoryFaults

\* No file yet: the first load takes the facts of the retired store over.
MemoryInit ==
  /\ memory = [Forgotten EXCEPT !.facts = OldFacts]
  /\ cleaning = [c \in Cleaners |-> NoMemoryCopy]
  /\ memoryDay = 1
  /\ memorySaves = 0
  /\ memoryFaults = 0
  /\ known = Entries(memory)
  /\ beside = {}

---------------------------------------------------------------------------
(* The sections of the file *)

Last(s, n) == IF Len(s) > n THEN SubSeq(s, Len(s) - n + 1, Len(s)) ELSE s

\* Mutants, here and below: what a slip in this code would do.

LearntKeepingFirst(list, new, cap) == \* the cap refuses what comes last
  LET longer == IF \E i \in DOMAIN list : list[i] = new THEN list ELSE Append(list, new)
  IN  SubSeq(longer, 1, IF Len(longer) > cap THEN cap ELSE Len(longer))

\* A value is added unless one like it is there, and the oldest gives way.
HasAlike(list, new) ==
  \E i \in DOMAIN list : list[i] = new \/ {list[i], new} \in AlikeFacts
Longer(list, new) == IF HasAlike(list, new) THEN list ELSE Append(list, new)
Learnt(list, new, cap) == Last(Longer(list, new), cap)

\* What Learnt means to do, for the ghosts: what gives way, and what is new.
\* Facts of the retired store may be more than the cap, and repeat themselves.
Oldest(s, cap) ==
  {s[i] : i \in {k \in DOMAIN s : k <= Len(s) - cap}}
    \ {s[i] : i \in {k \in DOMAIN s : k > Len(s) - cap}}
Displaced(list, new, cap) == Oldest(Longer(list, new), cap)
Novel(list, new) == IF HasAlike(list, new) THEN {} ELSE {new}

In(section, values) == {section} \X values

\* saveExtractedFacts and savePreference, of one value each; "none" of none.
FactSaved(file, f) ==
  IF f = "none" THEN file ELSE [file EXCEPT !.facts = Learnt(@, f, FactCap)]
PreferenceSaved(file, p) ==
  IF p = "none" THEN file ELSE [file EXCEPT !.prefs = Learnt(@, p, PrefCap)]

NeedsCleaning(file) ==
  /\ Len(file.facts) > 0
  /\ Len(file.facts) % CleanEvery = 0
  /\ Len(file.facts) >= MinToClean

Score(signals, m) == signals[m] * Weight[m]

\* detectMood: the first of the moods with the highest score; its confidence,
\* 0.5 and a fifth of the score, must reach 0.7.
DetectedMoods(signals) ==
  {m \in MoodNames :
     /\ Score(signals, m) >= 10
     /\ \E i \in DOMAIN Moods :
          /\ Moods[i] = m
          /\ \A j \in DOMAIN Moods :
               /\ Score(signals, Moods[j]) <= Score(signals, m)
               /\ Score(signals, Moods[j]) = Score(signals, m) => j >= i}

---------------------------------------------------------------------------
(* The ghosts *)

Cleanings == {c \in Cleaners : cleaning[c] # NoMemoryCopy}

\* What is saved or dropped beside a cleaning is held against it for as long
\* as one is under way, or the file shows it.
NotedFacts(marked, underWay) ==
  beside' = IF underWay THEN beside \cup marked
            ELSE (beside \cup marked)
                 \cap ((known' \ Entries(memory')) \cup (Entries(memory') \ known'))

\* One section is saved: gone and came are what that is meant to do.
Saves(new, gone, came) ==
  /\ memorySaves < MaxMemorySaves
  /\ memorySaves' = memorySaves + 1
  /\ memory' = new
  /\ known' = (known \ gone) \cup came
  /\ NotedFacts(IF Cleanings = {} THEN {} ELSE gone \cup came, Cleanings # {})

---------------------------------------------------------------------------
(* The turns *)

\* extractFacts has answered, which held nothing of the file: the facts are
\* saved, which may start a cleaning with the file as it is then, and in the
\* same step the preferences.
Learns(c, f, p, named) ==
  LET saved == FactSaved(memory, f)
      cleans == (f # "none" \/ named) /\ NeedsCleaning(saved)
      factGone == IF f = "none" THEN {} ELSE In("facts", Displaced(memory.facts, f, FactCap))
      factCame == IF f = "none" THEN {} ELSE In("facts", Novel(memory.facts, f))
      prefGone == IF p = "none" THEN {} ELSE In("prefs", Displaced(memory.prefs, p, PrefCap))
      prefCame == IF p = "none" THEN {} ELSE In("prefs", Novel(memory.prefs, p))
  IN  /\ memorySaves < MaxMemorySaves
      /\ memorySaves' = memorySaves + 1
      /\ f # "none" \/ p # "none" \/ named
      /\ cleaning[c] = NoMemoryCopy
      /\ memory' = PreferenceSaved(saved, p)
      /\ cleaning' = [cleaning EXCEPT ![c] = IF cleans THEN saved ELSE NoMemoryCopy]
      /\ known' = (known \ (factGone \cup prefGone)) \cup factCame \cup prefCame
      /\ NotedFacts((IF Cleanings = {} THEN {} ELSE factGone \cup factCame)
               \cup (IF Cleanings = {} /\ ~cleans THEN {} ELSE prefGone \cup prefCame),
               Cleanings # {} \/ cleans)
      /\ UNCHANGED <<memoryDay, memoryFaults>>

\* The model's list replaces the facts of the copy, and the copy the file.
\* It keeps some of the facts; that it may also reword them is left out.
CleaningSaves(c, kept) ==
  LET copy == cleaning[c]
      listed == {copy.facts[i] : i \in DOMAIN copy.facts}
  IN  /\ copy # NoMemoryCopy
      /\ kept \subseteq listed
      /\ memory' = [copy EXCEPT !.facts = Keep(@, kept)]
      /\ known' = known \ In("facts", listed \ kept)
      /\ NotedFacts(IF Cleanings = {c} THEN {} ELSE In("facts", listed \ kept), Cleanings # {c})
      /\ cleaning' = [cleaning EXCEPT ![c] = NoMemoryCopy]
      /\ UNCHANGED <<memoryDay, memorySaves, memoryFaults>>

\* No answer, an empty list, or one that is no JSON.
CleaningFails(c) ==
  /\ cleaning[c] # NoMemoryCopy
  /\ cleaning' = [cleaning EXCEPT ![c] = NoMemoryCopy]
  /\ UNCHANGED <<memory, memoryDay, memorySaves, memoryFaults, known>>
  /\ NotedFacts({}, Cleanings # {c})

\* saveEmotionalState, once a day for each mood.
NoticesMood(signals) ==
  \E m \in DetectedMoods(signals) :
    LET entry == <<memoryDay, m>>
    IN  /\ \A i \in DOMAIN memory.moods : memory.moods[i] # entry
        /\ Saves([memory EXCEPT !.moods = Last(Append(@, entry), MoodCap)],
                 In("moods", Oldest(Append(memory.moods, entry), MoodCap)),
                 In("moods", {entry}))
        /\ UNCHANGED <<cleaning, memoryDay, memoryFaults>>

---------------------------------------------------------------------------
(* The night *)

\* replacePatterns reads the file again, after the model's answer, and sets
\* one section of it.
PatternsReplaced(file, p) ==
  [file EXCEPT !.patterns = SubSeq(p, 1, IF Len(p) > PatternCap THEN PatternCap ELSE Len(p))]

InsightSaves(p) ==
  LET new == PatternsReplaced(memory, p)
  IN  /\ Len(p) > 0
      /\ Saves(new, In("patterns", {memory.patterns[i] : i \in DOMAIN memory.patterns}),
               In("patterns", {new.patterns[i] : i \in DOMAIN new.patterns}))
      /\ UNCHANGED <<cleaning, memoryDay, memoryFaults>>

NextMemoryDay ==
  /\ memoryDay < MaxMemoryDays
  /\ memoryDay' = memoryDay + 1
  /\ UNCHANGED <<memory, cleaning, memorySaves, memoryFaults, known, beside>>

\* What a write cut short leaves: the sections stand in this order.
CutShort(file) ==
  {[Forgotten EXCEPT !.facts = SubSeq(file.facts, 1, k)] : k \in 0 .. Len(file.facts)}
  \cup {[file EXCEPT !.prefs = SubSeq(@, 1, k), !.patterns = <<>>, !.moods = <<>>] :
          k \in 0 .. Len(file.prefs)}
  \cup {[file EXCEPT !.patterns = SubSeq(@, 1, k), !.moods = <<>>] : k \in 0 .. Len(file.patterns)}
  \cup {[file EXCEPT !.moods = SubSeq(@, 1, k)] : k \in 0 .. Len(file.moods)}

\* The process ends, perhaps within a write: the next one reads what is there.
MemoryRestart ==
  /\ memoryFaults < MaxMemoryFaults
  /\ memoryFaults' = memoryFaults + 1
  /\ memory' \in CutShort(memory)
  /\ known' = (known \ Entries(memory)) \cup Entries(memory')
  /\ NotedFacts({}, FALSE)
  /\ cleaning' = [c \in Cleaners |-> NoMemoryCopy]
  /\ UNCHANGED <<memoryDay, memorySaves>>

MemoryNext ==
  \/ \E c \in Cleaners :
       \/ \E f \in Facts \cup {"none"}, p \in Preferences \cup {"none"}, named \in BOOLEAN :
            Learns(c, f, p, named)
       \/ \E kept \in SUBSET Facts \ {{}} : CleaningSaves(c, kept)
       \/ CleaningFails(c)
  \/ \E signals \in [MoodNames -> 0 .. 1] : NoticesMood(signals)
  \/ \E p \in PatternAnswers : InsightSaves(p)
  \/ NextMemoryDay \/ MemoryRestart

MemorySpec == MemoryInit /\ [][MemoryNext]_memoryVars

---------------------------------------------------------------------------
(* Properties *)

\* The file is what was last learned: nothing that was saved is missing and
\* nothing that was dropped is back, but for what was saved or dropped while
\* a cleaning of the facts held its copy of the file.
OnlyCleaningForgets ==
  (known \ Entries(memory)) \cup (Entries(memory) \ known) \subseteq beside
=============================================================================
