---------------------------- MODULE KeepingProofs -----------------------------
(***************************************************************************)
(* What the bot keeps, for any number of tools, contacts, facts, documents *)
(* and faults: its lessons, its profiles, its memory of the owner, the     *)
(* books of bills and contracts and the book of contacts.                  *)
(***************************************************************************)
EXTENDS Lessons, Relationships, Memory, Contracts, ContactBook, SequenceLemmas

-----------------------------------------------------------------------------
(* Lessons *)

(* The counts are counts. *)
LessonCounts ==
    /\ analysing \in [Tools -> Nat]
    /\ taught \in [Tools -> Nat]
    /\ overlapping \in [Tools -> Nat]

(* EachToolTaughtOnce is not inductive: that a tool's analyses do not      *)
(* become more after its first rule rests on its mark in the log.          *)
TaughtAreMarked ==
    \A t \in Tools : taught[t] > 0 => t \in ruled \cup unmarked

LessonsInv == LessonCounts /\ TaughtAreMarked /\ EachToolTaughtOnce

LEMMA LessonsInvInit == LessonsInit => LessonsInv
  BY DEF LessonsInit, LessonsInv, LessonCounts, TaughtAreMarked, EachToolTaughtOnce

(* A rule drawn adds one to the taught and takes one from the analyses;    *)
(* the first one notes how many others are under way.                      *)
LEMMA DrawingKeepsTheSum ==
    ASSUME LessonsInv, NEW t \in Tools, NEW rule, RuleDrawn(t, rule)
    PROVE  /\ LessonCounts'
           /\ taught' = [taught EXCEPT ![t] = @ + 1]
           /\ \A u \in Tools \ {t} : /\ analysing'[u] = analysing[u]
                                     /\ overlapping'[u] = overlapping[u]
           /\ t \notin unmarked =>
                taught'[t] + analysing'[t] <= 1 + overlapping'[t]
<1> USE DEF LessonsInv, LessonCounts
<1>1. analysing[t] \in Nat /\ analysing[t] > 0 /\ taught[t] \in Nat
  BY DEF RuleDrawn
<1>2. CASE taught[t] = 0
  <2>1. overlapping' = [overlapping EXCEPT ![t] = analysing[t] - 1]
    BY <1>2 DEF RuleDrawn
  <2>2. analysing' = [analysing EXCEPT ![t] = @ - 1] /\ taught' = [taught EXCEPT ![t] = @ + 1]
    BY DEF RuleDrawn
  <2>3. QED
    BY <1>1, <1>2, <2>1, <2>2
<1>3. CASE taught[t] # 0
  <2>1. UNCHANGED overlapping
    BY <1>3 DEF RuleDrawn
  <2>2. analysing' = [analysing EXCEPT ![t] = @ - 1] /\ taught' = [taught EXCEPT ![t] = @ + 1]
    BY DEF RuleDrawn
  <2>3. t \notin unmarked => taught[t] + analysing[t] <= 1 + overlapping[t]
    BY <1>1, <1>3 DEF EachToolTaughtOnce
  <2>4. QED
    BY <1>1, <2>1, <2>2, <2>3
<1>4. QED
  BY <1>2, <1>3

(* A step that sets the model's analyses aside, or ends some, and leaves   *)
(* the rest of the lessons as it was, keeps the invariant.                 *)
LEMMA FewerAnalyses ==
    ASSUME LessonsInv, UNCHANGED <<taught, overlapping>>,
           analysing' \in [Tools -> Nat],
           \A t \in Tools : analysing'[t] <= analysing[t],
           unmarked \subseteq unmarked', ruled \subseteq ruled' \cup unmarked'
    PROVE  LessonsInv'
<1>1. LessonCounts' /\ TaughtAreMarked'
  BY DEF LessonsInv, LessonCounts, TaughtAreMarked
<1>2. ASSUME NEW t \in Tools, taught'[t] > 0, t \notin unmarked'
      PROVE  taught'[t] + analysing'[t] <= 1 + overlapping'[t]
  <2>1. taught[t] + analysing[t] <= 1 + overlapping[t]
    BY <1>2 DEF LessonsInv, EachToolTaughtOnce
  <2>2. /\ taught[t] \in Nat /\ overlapping[t] \in Nat
        /\ analysing[t] \in Nat /\ analysing'[t] \in Nat
    BY DEF LessonsInv, LessonCounts
  <2>3. QED
    BY <2>1, <2>2
<1>3. QED
  BY <1>1, <1>2 DEF LessonsInv, EachToolTaughtOnce

LEMMA LessonsInvStep == LessonsInv /\ [LessonsNext]_lessonVars => LessonsInv'
<1> SUFFICES ASSUME LessonsInv, [LessonsNext]_lessonVars PROVE LessonsInv'
  OBVIOUS
<1>0. LessonCounts
  BY DEF LessonsInv
<1>1. ASSUME NEW rule \in OtherRules, Teaches(rule) PROVE LessonsInv'
  BY <1>0, <1>1, FewerAnalyses DEF Teaches, LessonCounts
<1>2. ASSUME NEW i \in 1 .. MaxInstructions, Forgets(i) PROVE LessonsInv'
  BY <1>0, <1>2, FewerAnalyses DEF Forgets, LessonCounts
<1>3. ASSUME NEW t \in Tools, ToolFails(t) PROVE LessonsInv'
  <2>1. CASE ShowsPattern(failures', t)
    <3>1. t \notin ruled /\ analysing' = [analysing EXCEPT ![t] = @ + 1]
      BY <1>0, <1>3, <2>1 DEF ToolFails, ShowsPattern, LessonCounts
    <3>2. UNCHANGED <<ruled, taught, overlapping, unmarked>>
      BY <1>3 DEF ToolFails
    <3>3. ~(taught[t] > 0 /\ t \notin unmarked)
      BY <3>1 DEF LessonsInv, TaughtAreMarked
    <3>4. QED
      BY <3>1, <3>2, <3>3 DEF LessonsInv, LessonCounts, TaughtAreMarked, EachToolTaughtOnce
  <2>2. CASE ~ShowsPattern(failures', t)
    <3>1. analysing' = analysing
      BY <1>0, <1>3, <2>2 DEF ToolFails, LessonCounts
    <3>2. QED
      BY <1>0, <1>3, <3>1, FewerAnalyses DEF ToolFails, LessonCounts
  <2>3. QED
    BY <2>1, <2>2
<1>4. ASSUME NEW t \in Tools, AnalysisTeachesNothing(t) PROVE LessonsInv'
  <2>1. analysing' \in [Tools -> Nat] /\ \A u \in Tools : analysing'[u] <= analysing[u]
    BY <1>0, <1>4 DEF AnalysisTeachesNothing, LessonCounts
  <2>2. QED
    BY <1>4, <2>1, FewerAnalyses DEF AnalysisTeachesNothing
<1>5. ASSUME NEW t \in Tools, NEW rule \in Phrasing[t], AnalysisTeaches(t, rule)
      PROVE  LessonsInv'
  <2>1. /\ LessonCounts'
        /\ taught' = [taught EXCEPT ![t] = @ + 1]
        /\ \A u \in Tools \ {t} : /\ analysing'[u] = analysing[u]
                                  /\ overlapping'[u] = overlapping[u]
        /\ t \notin unmarked => taught'[t] + analysing'[t] <= 1 + overlapping'[t]
    BY <1>5, DrawingKeepsTheSum DEF AnalysisTeaches
  <2>2. ruled' = ruled \cup {t} /\ unmarked' = unmarked
    BY <1>5 DEF AnalysisTeaches
  <2>3. \A u \in Tools \ {t} : taught'[u] = taught[u]
    BY <1>0, <2>1 DEF LessonCounts
  <2>4. TaughtAreMarked'
    BY <2>2, <2>3 DEF LessonsInv, TaughtAreMarked
  <2>5. EachToolTaughtOnce'
    BY <2>1, <2>2, <2>3 DEF LessonsInv, EachToolTaughtOnce
  <2>6. QED
    BY <2>1, <2>4, <2>5 DEF LessonsInv
<1>6. ASSUME NEW t \in Tools, NEW rule \in Phrasing[t], DiesBeforeMarking(t, rule)
      PROVE  LessonsInv'
  <2>1. /\ taught' = [taught EXCEPT ![t] = @ + 1] /\ overlapping' = overlapping
        /\ analysing' = [u \in Tools |-> 0]
        /\ unmarked' = unmarked \cup {t} /\ ruled' = ruled
    BY <1>6 DEF DiesBeforeMarking
  <2>2. LessonCounts' /\ \A u \in Tools \ {t} : taught'[u] = taught[u]
    BY <1>0, <2>1 DEF LessonCounts
  <2>3. TaughtAreMarked'
    BY <2>1, <2>2 DEF LessonsInv, TaughtAreMarked
  <2>4. ASSUME NEW u \in Tools, taught'[u] > 0, u \notin unmarked'
        PROVE  taught'[u] + analysing'[u] <= 1 + overlapping'[u]
    <3>1. u # t /\ u \notin unmarked /\ taught'[u] = taught[u] /\ taught[u] > 0
      BY <2>1, <2>2, <2>4
    <3>2. taught[u] + analysing[u] <= 1 + overlapping[u]
      BY <3>1 DEF LessonsInv, EachToolTaughtOnce
    <3>3. analysing[u] \in Nat /\ taught[u] \in Nat /\ overlapping[u] \in Nat
      BY <1>0 DEF LessonCounts
    <3>4. QED
      BY <2>1, <3>1, <3>2, <3>3
  <2>5. QED
    BY <2>2, <2>3, <2>4 DEF LessonsInv, EachToolTaughtOnce
<1>7. CASE WeekPasses
  BY <1>0, <1>7, FewerAnalyses DEF WeekPasses, LessonCounts
<1>8. CASE LessonRestart \/ DiesWritingLog \/ DiesWritingInstructions
  <2>1. /\ analysing' = [t \in Tools |-> 0]
        /\ UNCHANGED <<taught, overlapping>>
        /\ unmarked \subseteq unmarked' /\ ruled \subseteq ruled' \cup unmarked'
    BY <1>8 DEF LessonRestart, DiesWritingLog, DiesWritingInstructions
  <2>2. analysing' \in [Tools -> Nat] /\ \A t \in Tools : analysing'[t] <= analysing[t]
    BY <1>0, <2>1 DEF LessonCounts
  <2>3. QED
    BY <2>1, <2>2, FewerAnalyses
<1>9. CASE UNCHANGED lessonVars
  BY <1>0, <1>9, FewerAnalyses DEF lessonVars, LessonCounts
<1>10. QED
  BY <1>1, <1>2, <1>3, <1>4, <1>5, <1>6, <1>7, <1>8, <1>9 DEF LessonsNext

(* However many failures, analyses and restarts there are, a tool that     *)
(* keeps failing is made a rule of once (EachToolTaughtOnce).              *)
THEOREM ToolsAreTaughtOnce == LessonsSpec => []EachToolTaughtOnce
<1>1. LessonsInv => EachToolTaughtOnce
  BY DEF LessonsInv
<1>2. QED
  BY LessonsInvInit, LessonsInvStep, <1>1, PTL DEF LessonsSpec

-----------------------------------------------------------------------------
(* Relationships *)

(* A profile has its four fields, whatever the model's verdict puts in     *)
(* them, and the count of its contact.                                     *)
IsProfile(p, count) ==
    p = [type |-> p.type, style |-> p.style, score |-> p.score, count |-> count]

ProfilesInv ==
    /\ asked \in Seq(Contacts)
    /\ counted \in [Contacts -> Int]
    /\ DOMAIN cache = Contacts /\ DOMAIN profiles = Contacts
    /\ \A c \in Contacts : \A p \in cache[c] \cup profiles[c] : IsProfile(p, counted[c])

LEMMA ProfilesInvInit == RelationshipsInit => ProfilesInv
  BY DEF RelationshipsInit, ProfilesInv

(* What Stored leaves in both stores: p for c, and the cache of the rest.  *)
LEMMA StoredEverywhere ==
    ASSUME NEW c \in Contacts, NEW p, Stored(c, p), DOMAIN cache = Contacts
    PROVE  /\ DOMAIN cache' = Contacts /\ profiles' = cache'
           /\ cache'[c] = {p}
           /\ \A d \in Contacts \ {c} : cache'[d] = cache[d]
  BY DEF Stored

(* A message adds one to the count of the profile it finds, and makes one  *)
(* that counts two where there is none.                                    *)
LEMMA MessageCountsOne ==
    ASSUME ProfilesInv, NEW c \in Contacts, NEW words, NEW style,
           MessageCounts(c, words, style)
    PROVE  ProfilesInv'
<1> DEFINE cached == cache[c] # {}
           old == IF cached THEN CHOOSE p \in cache[c] : TRUE ELSE NewProfile
           new == [old EXCEPT
                     !.type = TypeAfter(old.type, words),
                     !.style = IF style = "unknown" THEN @ ELSE style,
                     !.score = ScoreOf(TypeAfter(old.type, words), old.count + 1,
                                       IF cached THEN away[c] ELSE "hours", c \in Approved),
                     !.count = @ + 1]
<1>1. /\ Stored(c, new)
      /\ counted' = [counted EXCEPT ![c] = IF cached THEN @ + 1 ELSE 2]
      /\ UNCHANGED asked
  BY DEF MessageCounts
<1>2. IsProfile(old, IF cached THEN counted[c] ELSE 1)
  <2>1. CASE cached
    <3>1. old \in cache[c]
      BY <2>1
    <3>2. QED
      BY <2>1, <3>1 DEF ProfilesInv
  <2>2. CASE ~cached
    BY <2>2 DEF NewProfile, IsProfile
  <2>3. QED
    BY <2>1, <2>2
<1> HIDE DEF old
<1>3. IsProfile(new, counted'[c])
  <2>1. counted'[c] = IF cached THEN counted[c] + 1 ELSE 2
    BY <1>1 DEF ProfilesInv
  <2>2. old.count = IF cached THEN counted[c] ELSE 1
    BY <1>2 DEF IsProfile
  <2>3. old = [type |-> old.type, style |-> old.style, score |-> old.score, count |-> old.count]
    BY <1>2, <2>2 DEF IsProfile
  <2>4. new.count = old.count + 1
    BY <2>3
  <2>5. new = [type |-> new.type, style |-> new.style, score |-> new.score, count |-> new.count]
    <3> DEFINE type == TypeAfter(old.type, words)
               manner == IF style = "unknown" THEN old.style ELSE style
               score == ScoreOf(type, old.count + 1, IF cached THEN away[c] ELSE "hours",
                                c \in Approved)
               typed == [old EXCEPT !.type = type]
               styled == [typed EXCEPT !.style = manner]
               scored == [styled EXCEPT !.score = score]
               full == [scored EXCEPT !.count = old.count + 1]
    <3>1. new = full
      OBVIOUS
    <3> HIDE DEF type, manner, score, new
    <3>2. typed = [type |-> type, style |-> old.style, score |-> old.score, count |-> old.count]
      BY <2>3
    <3> HIDE DEF typed
    <3>3. styled = [type |-> type, style |-> manner, score |-> old.score, count |-> old.count]
      BY <3>2
    <3> HIDE DEF styled
    <3>4. scored = [type |-> type, style |-> manner, score |-> score, count |-> old.count]
      BY <3>3
    <3> HIDE DEF scored
    <3>5. full = [type |-> type, style |-> manner, score |-> score, count |-> old.count + 1]
      BY <3>4
    <3> HIDE DEF full
    <3>6. QED
      BY <3>1, <3>5
  <2>6. new.count = counted'[c]
    BY <2>1, <2>2, <2>4
  <2> HIDE DEF new
  <2>7. QED
    BY <2>5, <2>6 DEF IsProfile
<1> HIDE DEF new
<1>4. /\ DOMAIN cache' = Contacts /\ profiles' = cache' /\ cache'[c] = {new}
      /\ \A d \in Contacts \ {c} : cache'[d] = cache[d] /\ counted'[d] = counted[d]
  BY <1>1, StoredEverywhere DEF ProfilesInv
<1>5. counted' \in [Contacts -> Int] /\ asked' \in Seq(Contacts)
  BY <1>1 DEF ProfilesInv
<1>6. QED
  BY <1>3, <1>4, <1>5 DEF ProfilesInv

(* The model's verdict replaces what it speaks of and leaves the count.    *)
LEMMA VerdictsLeaveTheCount ==
    ASSUME ProfilesInv, NEW v, NEW rows, AnalysisAnswers(v, rows)
    PROVE  ProfilesInv'
<1> DEFINE c == Head(asked)
           cached == cache[c] # {}
           old == IF cached THEN CHOOSE p \in cache[c] : TRUE ELSE NewProfile
           new == [type |-> v.type, style |-> v.style, score |-> v.score,
                   count |-> IF cached THEN old.count ELSE rows]
<1>1. asked # <<>> /\ rows \in Int /\ asked' = Tail(asked)
  BY DEF AnalysisAnswers, NextAsked
<1>2. c \in Contacts /\ asked' \in Seq(Contacts)
  BY <1>1 DEF ProfilesInv
<1>3. CASE UNCHANGED <<cache, profiles, counted>>
  BY <1>2, <1>3 DEF ProfilesInv
<1>4. CASE /\ Stored(c, new)
           /\ counted' = IF cached THEN counted ELSE [counted EXCEPT ![c] = rows]
  <2>1. cached => old \in cache[c] /\ IsProfile(old, counted[c])
    BY <1>2 DEF ProfilesInv
  <2>2. new.count = counted'[c]
    BY <1>1, <1>2, <1>4, <2>1 DEF ProfilesInv, IsProfile
  <2>3. IsProfile(new, counted'[c])
    BY <2>2 DEF IsProfile
  <2> HIDE DEF new
  <2>4. /\ DOMAIN cache' = Contacts /\ profiles' = cache' /\ cache'[c] = {new}
        /\ \A d \in Contacts \ {c} : cache'[d] = cache[d]
    BY <1>2, <1>4, StoredEverywhere DEF ProfilesInv
  <2>5. /\ counted' \in [Contacts -> Int]
        /\ \A d \in Contacts \ {c} : counted'[d] = counted[d]
    BY <1>1, <1>2, <1>4 DEF ProfilesInv
  <2>6. QED
    BY <1>2, <2>3, <2>4, <2>5 DEF ProfilesInv
<1>5. QED
  BY <1>3, <1>4 DEF AnalysisAnswers, ProfileNow

LEMMA ProfilesInvStep ==
    ProfilesInv /\ [RelationshipsNext]_relationshipVars => ProfilesInv'
<1> SUFFICES ASSUME ProfilesInv, [RelationshipsNext]_relationshipVars
             PROVE  ProfilesInv'
  OBVIOUS
<1>1. ASSUME NEW c \in Contacts, NEW words \in Words, NEW style \in Styles \cup {"unknown"},
             MessageCounts(c, words, style)
      PROVE  ProfilesInv'
  BY <1>1, MessageCountsOne
<1>2. ASSUME NEW c \in Contacts, TimePasses(c) PROVE ProfilesInv'
  BY <1>2 DEF TimePasses, ProfilesInv
<1>3. ASSUME NEW n \in 1 .. Cardinality(Contacts), NEW order \in [1 .. n -> Contacts],
             AnalysisStarts(order)
      PROVE  ProfilesInv'
  <2>1. asked' \in Seq(Contacts) /\ UNCHANGED <<cache, profiles, counted>>
    BY <1>3 DEF AnalysisStarts
  <2>2. QED
    BY <2>1 DEF ProfilesInv
<1>4. ASSUME NEW v \in Assessments, NEW rows \in 1 .. 2 * MaxMessages, AnalysisAnswers(v, rows)
      PROVE  ProfilesInv'
  BY <1>4, VerdictsLeaveTheCount
<1>5. CASE AnalysisSkips
  <2>1. asked' = Tail(asked) /\ asked # <<>> /\ UNCHANGED <<cache, profiles, counted>>
    BY <1>5 DEF AnalysisSkips, NextAsked
  <2>2. asked' \in Seq(Contacts)
    BY <2>1 DEF ProfilesInv
  <2>3. QED
    BY <2>1, <2>2 DEF ProfilesInv
<1>6. CASE RelationshipRestart
  BY <1>6 DEF RelationshipRestart, ProfilesInv
<1>7. CASE UNCHANGED relationshipVars
  BY <1>7 DEF relationshipVars, ProfilesInv
<1>8. QED
  BY <1>1, <1>2, <1>3, <1>4, <1>5, <1>6, <1>7 DEF RelationshipsNext

(* Whatever the model says of a contact, and whenever it says it, no       *)
(* message is lost to the count of the profile (InteractionsCounted).      *)
THEOREM EveryMessageCounts == RelationshipsSpec => []InteractionsCounted
<1>1. ProfilesInv => InteractionsCounted
  BY DEF ProfilesInv, InteractionsCounted, IsProfile
<1>2. QED
  BY ProfilesInvInit, ProfilesInvStep, <1>1, PTL DEF RelationshipsSpec

-----------------------------------------------------------------------------
(* Memory *)

Files == [facts : Seq(Facts), prefs : Seq(Preferences),
          patterns : Seq(STRING), moods : Seq(Nat \X MoodNames)]

(* How what should be known and what a file holds differ. *)
Differ(should, does) == (should \ does) \cup (does \ should)

(* Neither the file nor a copy that a cleaning will save differs from what *)
(* is known, but by what happened beside a cleaning.                       *)
MemoryInv ==
    /\ memory \in Files /\ cleaning \in [Cleaners -> Files] /\ memoryDay \in Nat
    /\ Differ(known, Entries(memory)) \subseteq beside
    /\ \A c \in Cleaners :
         cleaning[c] # NoMemoryCopy => Differ(known, Entries(cleaning[c])) \subseteq beside

(* What the file holds, section by section. *)
LEMMA EntriesOf ==
    ASSUME NEW file \in Files
    PROVE  Entries(file) = In("facts", Range(file.facts)) \cup In("prefs", Range(file.prefs))
                             \cup In("patterns", Range(file.patterns))
                             \cup In("moods", Range(file.moods))
<1>1. /\ DOMAIN file = {"facts", "prefs", "patterns", "moods"}
      /\ file["facts"] = file.facts /\ file["prefs"] = file.prefs
      /\ file["patterns"] = file.patterns /\ file["moods"] = file.moods
  BY DEF Files
<1>2. \A s, x : x \in In(s, Range(file[s])) <=> \E i \in DOMAIN file[s] : x = <<s, file[s][i]>>
  BY DEF In, Range
<1>3. \A x : x \in Entries(file) <=> \E s \in DOMAIN file : x \in In(s, Range(file[s]))
  BY <1>2 DEF Entries
<1>4. \A x : x \in Entries(file) <=>
               \/ x \in In("facts", Range(file["facts"])) \/ x \in In("prefs", Range(file["prefs"]))
               \/ x \in In("patterns", Range(file["patterns"]))
               \/ x \in In("moods", Range(file["moods"]))
  BY <1>1, <1>3
<1>5. QED
  BY <1>1, <1>4

LEMMA SectionsApart ==
    \A s, t, v, w : s # t => In(s, v) \cap In(t, w) = {}
  BY DEF In

(* The last ones are what is left when the oldest give way, unless they    *)
(* repeat themselves.                                                      *)
LEMMA LastOnes ==
    ASSUME NEW T, NEW s \in Seq(T), NEW n \in Nat \ {0}
    PROVE  /\ Last(s, n) \in Seq(T)
           /\ Range(Last(s, n)) = Range(s) \ Oldest(s, n)
           /\ \A k \in DOMAIN s : k > Len(s) - n => s[k] \in Range(Last(s, n))
<1> DEFINE m == Len(s) - n
           late == {s[i] : i \in {k \in DOMAIN s : k > Len(s) - n}}
<1>1. Len(s) \in Nat /\ DOMAIN s = 1 .. Len(s) /\ m \in Int
  OBVIOUS
<1>2. Range(s) \ Oldest(s, n) = late
  <2>1. Range(s) = late \cup {s[i] : i \in {k \in DOMAIN s : k <= Len(s) - n}}
    BY <1>1 DEF Range
  <2>2. QED
    BY <2>1 DEF Oldest
<1>3. CASE Len(s) > n
  <2>1. /\ Last(s, n) = SubSeq(s, m + 1, Len(s)) /\ m \in Nat
    BY <1>1, <1>3 DEF Last
  <2>2. /\ SubSeq(s, m + 1, Len(s)) \in Seq(T) /\ Len(SubSeq(s, m + 1, Len(s))) = n
        /\ \A k \in 1 .. n : SubSeq(s, m + 1, Len(s))[k] = s[m + k]
    BY <1>1, <1>3, <2>1
  <2> DEFINE r == Last(s, n)
  <2>3. Range(r) = {s[m + k] : k \in 1 .. n}
    <3>1. r \in Seq(T) /\ Len(r) = n /\ \A k \in 1 .. n : r[k] = s[m + k]
      BY <2>1, <2>2
    <3> HIDE DEF r
    <3>2. DOMAIN r = 1 .. n
      BY <3>1
    <3>3. QED
      BY <3>1, <3>2 DEF Range
  <2>4. ASSUME NEW x PROVE x \in {s[m + k] : k \in 1 .. n} <=> x \in late
    <3>1. ASSUME NEW k \in 1 .. n, x = s[m + k] PROVE x \in late
      <4>1. m + k \in DOMAIN s /\ m + k > Len(s) - n
        BY <1>1, <1>3
      <4>2. QED
        BY <3>1, <4>1
    <3>2. ASSUME NEW i \in DOMAIN s, i > Len(s) - n, x = s[i]
          PROVE  \E k \in 1 .. n : x = s[m + k]
      <4>1. i - m \in 1 .. n /\ m + (i - m) = i
        BY <1>1, <1>3, <3>2
      <4>2. QED
        BY <3>2, <4>1
    <3>3. QED
      BY <3>1, <3>2
  <2>5. Range(r) = late
    BY <2>3, <2>4
  <2>6. \A k \in DOMAIN s : k > Len(s) - n => s[k] \in late
    OBVIOUS
  <2>7. r \in Seq(T)
    BY <2>1, <2>2
  <2> HIDE DEF r, late
  <2>8. QED
    BY <1>2, <2>5, <2>6, <2>7 DEF r
<1>4. CASE ~ (Len(s) > n)
  <2>1. Last(s, n) = s
    BY <1>4 DEF Last
  <2>2. {k \in DOMAIN s : k > Len(s) - n} = DOMAIN s
    BY <1>1, <1>4
  <2>3. Range(s) = late
    BY <2>2 DEF Range
  <2>4. \A k \in DOMAIN s : k > Len(s) - n => s[k] \in late
    OBVIOUS
  <2> HIDE DEF late
  <2>5. QED
    BY <1>2, <2>1, <2>3, <2>4
<1>5. QED
  BY <1>3, <1>4

(* What comes last is never the oldest. *)
LEMMA AppendedStays ==
    ASSUME NEW T, NEW s \in Seq(T), NEW x \in T, NEW n \in Nat \ {0}
    PROVE  /\ Last(Append(s, x), n) \in Seq(T)
           /\ Range(Last(Append(s, x), n)) =
                (Range(s) \ Oldest(Append(s, x), n)) \cup {x}
<1> DEFINE t == Append(s, x)
<1>1. /\ t \in Seq(T) /\ Len(t) = Len(s) + 1 /\ Len(s) \in Nat /\ t[Len(s) + 1] = x
      /\ DOMAIN t = 1 .. Len(s) + 1 /\ DOMAIN s = 1 .. Len(s)
      /\ \A i \in 1 .. Len(s) : t[i] = s[i]
  OBVIOUS
<1> HIDE DEF t
<1>2. Range(t) = Range(s) \cup {x}
  BY <1>1 DEF Range
<1>3. /\ Last(t, n) \in Seq(T) /\ Range(Last(t, n)) = Range(t) \ Oldest(t, n)
      /\ \A k \in DOMAIN t : k > Len(t) - n => t[k] \in Range(Last(t, n))
  BY <1>1, LastOnes
<1>4. Len(s) + 1 \in DOMAIN t /\ Len(s) + 1 > Len(t) - n
  BY <1>1
<1>5. x \in Range(Last(t, n))
  BY <1>1, <1>3, <1>4
<1>6. Range(Last(t, n)) = (Range(s) \ Oldest(t, n)) \cup {x}
  BY <1>2, <1>3, <1>5
<1>7. QED
  BY <1>3, <1>6 DEF t

(* Learning one value: what gives way goes, what is new comes. *)
LEMMA LearntList ==
    ASSUME NEW T, NEW s \in Seq(T), NEW new \in T, NEW cap \in Nat \ {0}
    PROVE  /\ Learnt(s, new, cap) \in Seq(T)
           /\ Range(Learnt(s, new, cap)) =
                (Range(s) \ Displaced(s, new, cap)) \cup Novel(s, new)
<1>1. CASE HasAlike(s, new)
  <2>1. Longer(s, new) = s /\ Novel(s, new) = {}
    BY <1>1 DEF Longer, Novel
  <2>2. QED
    BY <2>1, LastOnes DEF Learnt, Displaced
<1>2. CASE ~ HasAlike(s, new)
  <2>1. Longer(s, new) = Append(s, new) /\ Novel(s, new) = {new}
    BY <1>2 DEF Longer, Novel
  <2>2. QED
    BY <2>1, AppendedStays DEF Learnt, Displaced
<1>3. QED
  BY <1>1, <1>2

(* A change made to both leaves them as different as they were; made to    *)
(* one, it is all that is added to the difference.                         *)
LEMMA ChangedBoth ==
    ASSUME NEW should, NEW does, NEW but, Differ(should, does) \subseteq but,
           NEW gone, NEW came
    PROVE  /\ Differ((should \ gone) \cup came, (does \ gone) \cup came) \subseteq but
           /\ Differ((should \ gone) \cup came, does) \subseteq but \cup gone \cup came
  BY DEF Differ

LEMMA EmptySections ==
    /\ <<>> \in Seq(Facts) /\ <<>> \in Seq(Preferences)
    /\ <<>> \in Seq(STRING) /\ <<>> \in Seq(Nat \X MoodNames)
  OBVIOUS

LEMMA NoCopyIsAFile == NoMemoryCopy \in Files
  BY DEF NoMemoryCopy, Forgotten, Files

(* What every step has to show. *)
LEMMA MemoryStep ==
    ASSUME MemoryInv, memory' \in Files, cleaning' \in [Cleaners -> Files], memoryDay' \in Nat,
           NEW marked, NEW underWay \in BOOLEAN, NotedFacts(marked, underWay),
           Differ(known', Entries(memory')) \subseteq beside \cup marked,
           \A c \in Cleaners : cleaning'[c] # NoMemoryCopy =>
             underWay /\ Differ(known', Entries(cleaning'[c])) \subseteq beside \cup marked
    PROVE  MemoryInv'
<1>1. beside' = IF underWay THEN beside \cup marked
                ELSE (beside \cup marked) \cap Differ(known', Entries(memory'))
  BY DEF NotedFacts, Differ
<1>2. QED
  BY <1>1 DEF MemoryInv

(* One section saved, beside the cleanings under way. *)
LEMMA SavesKeepsMemory ==
    ASSUME MemoryInv, NEW new \in Files, NEW gone, NEW came, Saves(new, gone, came),
           Entries(new) = (Entries(memory) \ gone) \cup came,
           UNCHANGED <<cleaning, memoryDay>>
    PROVE  MemoryInv'
<1> DEFINE marked == IF Cleanings = {} THEN {} ELSE gone \cup came
           underWay == Cleanings # {}
<1>1. /\ memory' = new /\ known' = (known \ gone) \cup came
      /\ NotedFacts(marked, underWay) /\ underWay \in BOOLEAN
  BY DEF Saves
<1>2. Differ(known', Entries(memory')) \subseteq beside \cup marked
  <2>1. Differ(known', Entries(memory')) \subseteq beside
    <3>1. Differ((known \ gone) \cup came, (Entries(memory) \ gone) \cup came) \subseteq beside
      BY ChangedBoth DEF MemoryInv
    <3>2. known' = (known \ gone) \cup came /\ Entries(memory') = (Entries(memory) \ gone) \cup came
      BY <1>1
    <3>3. QED
      BY <3>1, <3>2
  <2>2. QED
    BY <2>1
<1>3. ASSUME NEW c \in Cleaners, cleaning'[c] # NoMemoryCopy
      PROVE  underWay /\ Differ(known', Entries(cleaning'[c])) \subseteq beside \cup marked
  <2>1. c \in Cleanings /\ cleaning' = cleaning
    BY <1>3 DEF Cleanings
  <2>2. Differ(known, Entries(cleaning[c])) \subseteq beside
    BY <1>3, <2>1 DEF MemoryInv
  <2>3. Differ(known', Entries(cleaning[c])) \subseteq beside \cup gone \cup came
    <3>1. Differ((known \ gone) \cup came, Entries(cleaning[c])) \subseteq beside \cup gone \cup came
      BY <2>2 DEF Differ
    <3>2. QED
      BY <1>1, <3>1
  <2>4. QED
    BY <2>1, <2>3
<1> HIDE DEF marked, underWay
<1>4. QED
  BY <1>1, <1>2, <1>3, MemoryStep DEF MemoryInv

(* A file with one of its sections replaced. *)
Changed(old, new, gone, came) == new = (old \ gone) \cup came

LEMMA PartOfSection ==
    /\ \A s, v, gone, came :
         In(s, (v \ gone) \cup came) = (In(s, v) \ In(s, gone)) \cup In(s, came)
    /\ \A s, t, v, w : s # t => In(s, v) \ In(t, w) = In(s, v)
  BY DEF In

LEMMA FactsReplaced ==
    ASSUME NEW file \in Files, NEW s \in Seq(Facts), NEW gone, NEW came,
           Changed(Range(file.facts), Range(s), gone, came),
           NEW new, new = [file EXCEPT !.facts = s]
    PROVE  /\ new \in Files /\ new.facts = s /\ new.prefs = file.prefs
           /\ Changed(Entries(file), Entries(new), In("facts", gone), In("facts", came))
<1> DEFINE F == In("facts", Range(file.facts))
           P == In("prefs", Range(file.prefs))
           Q == In("patterns", Range(file.patterns))
           M == In("moods", Range(file.moods))
<1>1. /\ new \in Files
      /\ new.facts = s /\ new.prefs = file.prefs /\ new.patterns = file.patterns /\ new.moods = file.moods
  BY DEF Files
<1>2. Entries(new) = In("facts", Range(s)) \cup P \cup Q \cup M
  BY <1>1, EntriesOf
<1>3. Entries(file) = F \cup P \cup Q \cup M
  BY EntriesOf
<1>4. In("facts", Range(s)) = (F \ In("facts", gone)) \cup In("facts", came)
  BY PartOfSection DEF Changed
<1>5. /\ P \ In("facts", gone) = P
      /\ Q \ In("facts", gone) = Q
      /\ M \ In("facts", gone) = M
  BY PartOfSection
<1> HIDE DEF F, P, Q, M
<1>6. QED
  BY <1>1, <1>2, <1>3, <1>4, <1>5 DEF Changed

LEMMA PreferencesReplaced ==
    ASSUME NEW file \in Files, NEW s \in Seq(Preferences), NEW gone, NEW came,
           Changed(Range(file.prefs), Range(s), gone, came),
           NEW new, new = [file EXCEPT !.prefs = s]
    PROVE  /\ new \in Files
           /\ Changed(Entries(file), Entries(new), In("prefs", gone), In("prefs", came))
<1> DEFINE F == In("facts", Range(file.facts))
           P == In("prefs", Range(file.prefs))
           Q == In("patterns", Range(file.patterns))
           M == In("moods", Range(file.moods))
<1>1. /\ new \in Files
      /\ new.facts = file.facts /\ new.prefs = s /\ new.patterns = file.patterns /\ new.moods = file.moods
  BY DEF Files
<1>2. Entries(new) = F \cup In("prefs", Range(s)) \cup Q \cup M
  BY <1>1, EntriesOf
<1>3. Entries(file) = F \cup P \cup Q \cup M
  BY EntriesOf
<1>4. In("prefs", Range(s)) = (P \ In("prefs", gone)) \cup In("prefs", came)
  BY PartOfSection DEF Changed
<1>5. /\ F \ In("prefs", gone) = F
      /\ Q \ In("prefs", gone) = Q
      /\ M \ In("prefs", gone) = M
  BY PartOfSection
<1> HIDE DEF F, P, Q, M
<1>6. QED
  BY <1>1, <1>2, <1>3, <1>4, <1>5 DEF Changed

LEMMA PatternListReplaced ==
    ASSUME NEW file \in Files, NEW s \in Seq(STRING), NEW gone, NEW came,
           Changed(Range(file.patterns), Range(s), gone, came),
           NEW new, new = [file EXCEPT !.patterns = s]
    PROVE  /\ new \in Files
           /\ Changed(Entries(file), Entries(new), In("patterns", gone), In("patterns", came))
<1> DEFINE F == In("facts", Range(file.facts))
           P == In("prefs", Range(file.prefs))
           Q == In("patterns", Range(file.patterns))
           M == In("moods", Range(file.moods))
<1>1. /\ new \in Files
      /\ new.facts = file.facts /\ new.prefs = file.prefs /\ new.patterns = s /\ new.moods = file.moods
  BY DEF Files
<1>2. Entries(new) = F \cup P \cup In("patterns", Range(s)) \cup M
  BY <1>1, EntriesOf
<1>3. Entries(file) = F \cup P \cup Q \cup M
  BY EntriesOf
<1>4. In("patterns", Range(s)) = (Q \ In("patterns", gone)) \cup In("patterns", came)
  BY PartOfSection DEF Changed
<1>5. /\ F \ In("patterns", gone) = F
      /\ P \ In("patterns", gone) = P
      /\ M \ In("patterns", gone) = M
  BY PartOfSection
<1> HIDE DEF F, P, Q, M
<1>6. QED
  BY <1>1, <1>2, <1>3, <1>4, <1>5 DEF Changed

LEMMA MoodsReplaced ==
    ASSUME NEW file \in Files, NEW s \in Seq(Nat \X MoodNames), NEW gone, NEW came,
           Changed(Range(file.moods), Range(s), gone, came),
           NEW new, new = [file EXCEPT !.moods = s]
    PROVE  /\ new \in Files
           /\ Changed(Entries(file), Entries(new), In("moods", gone), In("moods", came))
<1> DEFINE F == In("facts", Range(file.facts))
           P == In("prefs", Range(file.prefs))
           Q == In("patterns", Range(file.patterns))
           M == In("moods", Range(file.moods))
<1>1. /\ new \in Files
      /\ new.facts = file.facts /\ new.prefs = file.prefs /\ new.patterns = file.patterns /\ new.moods = s
  BY DEF Files
<1>2. Entries(new) = F \cup P \cup Q \cup In("moods", Range(s))
  BY <1>1, EntriesOf
<1>3. Entries(file) = F \cup P \cup Q \cup M
  BY EntriesOf
<1>4. In("moods", Range(s)) = (M \ In("moods", gone)) \cup In("moods", came)
  BY PartOfSection DEF Changed
<1>5. /\ F \ In("moods", gone) = F
      /\ P \ In("moods", gone) = P
      /\ Q \ In("moods", gone) = Q
  BY PartOfSection
<1> HIDE DEF F, P, Q, M
<1>6. QED
  BY <1>1, <1>2, <1>3, <1>4, <1>5 DEF Changed

LEMMA CapsAreCounts ==
    /\ FactCap \in Nat \ {0} /\ PrefCap \in Nat \ {0}
    /\ PatternCap \in Nat \ {0} /\ MoodCap \in Nat \ {0}
  BY MemoryAssumption

(* One lemma for each action that saves. *)
LEMMA LearnsKeepsMemory ==
    ASSUME MemoryInv, NEW c \in Cleaners, NEW f \in Facts \cup {"none"},
           NEW p \in Preferences \cup {"none"}, NEW named \in BOOLEAN,
           Learns(c, f, p, named)
    PROVE  MemoryInv'
<1> DEFINE saved == FactSaved(memory, f)
           cleans == (f # "none" \/ named) /\ NeedsCleaning(saved)
           fg == IF f = "none" THEN {} ELSE In("facts", Displaced(memory.facts, f, FactCap))
           fc == IF f = "none" THEN {} ELSE In("facts", Novel(memory.facts, f))
           pg == IF p = "none" THEN {} ELSE In("prefs", Displaced(memory.prefs, p, PrefCap))
           pc == IF p = "none" THEN {} ELSE In("prefs", Novel(memory.prefs, p))
           marked == (IF Cleanings = {} THEN {} ELSE fg \cup fc)
                       \cup (IF Cleanings = {} /\ ~cleans THEN {} ELSE pg \cup pc)
           underWay == Cleanings # {} \/ cleans
           last == PreferenceSaved(saved, p)
<1>1. memory \in Files
  BY DEF MemoryInv
<1>2. /\ saved \in Files /\ saved.prefs = memory.prefs
      /\ Entries(saved) = (Entries(memory) \ fg) \cup fc
  <2>1. CASE f = "none"
    BY <1>1, <2>1 DEF FactSaved
  <2>2. CASE f # "none"
    <3> DEFINE s == Learnt(memory.facts, f, FactCap)
    <3>1. memory.facts \in Seq(Facts) /\ f \in Facts
      BY <1>1, <2>2 DEF Files
    <3>2. /\ s \in Seq(Facts)
          /\ Range(s) = (Range(memory.facts) \ Displaced(memory.facts, f, FactCap))
                          \cup Novel(memory.facts, f)
      BY <3>1, LearntList, CapsAreCounts
    <3>3. saved = [memory EXCEPT !.facts = s]
      BY <2>2 DEF FactSaved
    <3> DEFINE g == Displaced(memory.facts, f, FactCap)
               k == Novel(memory.facts, f)
    <3>4. fg = In("facts", g) /\ fc = In("facts", k)
      BY <2>2
    <3>5. Changed(Range(memory.facts), Range(s), g, k)
      BY <3>2 DEF Changed
    <3> HIDE DEF s, saved, g, k, fg, fc
    <3>6. /\ saved \in Files /\ saved.prefs = memory.prefs
          /\ Changed(Entries(memory), Entries(saved), In("facts", g), In("facts", k))
      BY <1>1, <3>2, <3>3, <3>5, FactsReplaced
    <3>7. QED
      BY <3>4, <3>6 DEF Changed
  <2>3. QED
    BY <2>1, <2>2
<1> HIDE DEF saved
<1>3. last \in Files /\ Entries(last) = (Entries(saved) \ pg) \cup pc
  <2>1. CASE p = "none"
    BY <1>2, <2>1 DEF PreferenceSaved
  <2>2. CASE p # "none"
    <3> DEFINE s == Learnt(saved.prefs, p, PrefCap)
    <3>1. saved.prefs \in Seq(Preferences) /\ p \in Preferences
      BY <1>2, <2>2 DEF Files
    <3>2. /\ s \in Seq(Preferences)
          /\ Range(s) = (Range(saved.prefs) \ Displaced(saved.prefs, p, PrefCap))
                          \cup Novel(saved.prefs, p)
      BY <3>1, LearntList, CapsAreCounts
    <3>3. last = [saved EXCEPT !.prefs = s]
      BY <2>2 DEF PreferenceSaved
    <3> DEFINE g == Displaced(saved.prefs, p, PrefCap)
               k == Novel(saved.prefs, p)
    <3>4. pg = In("prefs", g) /\ pc = In("prefs", k)
      BY <1>2, <2>2
    <3>5. Changed(Range(saved.prefs), Range(s), g, k)
      BY <3>2 DEF Changed
    <3> HIDE DEF s, last, g, k, pg, pc
    <3>6. last \in Files
          /\ Changed(Entries(saved), Entries(last), In("prefs", g), In("prefs", k))
      BY <1>2, <3>2, <3>3, <3>5, PreferencesReplaced
    <3>7. QED
      BY <3>4, <3>6 DEF Changed
  <2>3. QED
    BY <2>1, <2>2
<1>4. pg \cap fc = {}
  BY SectionsApart
<1>5. /\ memory' = last /\ cleaning' = [cleaning EXCEPT ![c] = IF cleans THEN saved ELSE NoMemoryCopy]
      /\ known' = (known \ (fg \cup pg)) \cup fc \cup pc
      /\ NotedFacts(marked, underWay) /\ underWay \in BOOLEAN /\ memoryDay' = memoryDay
  BY DEF Learns, saved
<1>6. cleans \in BOOLEAN
  BY DEF NeedsCleaning
<1>7. /\ cleans \/ Cleanings # {} => pg \cup pc \subseteq marked
      /\ Cleanings # {} => fg \cup fc \subseteq marked
  OBVIOUS
<1>8. /\ cleans => underWay
      /\ Cleanings # {} => underWay
  OBVIOUS
<1> HIDE DEF fg, fc, pg, pc, marked, underWay, cleans, last
<1>9. Differ(known, Entries(memory)) \subseteq beside
  BY DEF MemoryInv
<1>10. Differ(known', Entries(memory')) \subseteq beside \cup marked
  <2>1. Entries(last) = (((Entries(memory) \ fg) \cup fc) \ pg) \cup pc
    BY <1>2, <1>3
  <2>2. Entries(memory') = (((Entries(memory) \ fg) \cup fc) \ pg) \cup pc
    BY <1>5, <2>1
  <2> HIDE DEF MemoryInv
  <2>3. QED
    BY <1>4, <1>5, <1>9, <2>2 DEF Differ
<1>11. ASSUME NEW d \in Cleaners, cleaning'[d] # NoMemoryCopy
       PROVE  underWay /\ Differ(known', Entries(cleaning'[d])) \subseteq beside \cup marked
  <2>0. cleaning \in [Cleaners -> Files]
    BY DEF MemoryInv
  <2>1. CASE d = c
    <3>1. cleans /\ cleaning'[d] = saved
      BY <1>5, <1>11, <2>0, <2>1
    <3>2. Entries(cleaning'[d]) = (Entries(memory) \ fg) \cup fc
      BY <1>2, <3>1
    <3>3. pg \cup pc \subseteq marked
      BY <1>7, <3>1
    <3>4. Differ(known', Entries(cleaning'[d])) \subseteq beside \cup marked
      BY <1>5, <1>9, <3>2, <3>3 DEF Differ
    <3>5. QED
      BY <1>8, <3>1, <3>4
  <2>2. CASE d # c
    <3>1. cleaning'[d] = cleaning[d] /\ cleaning[d] # NoMemoryCopy
      BY <1>5, <1>11, <2>0, <2>2
    <3>2. Cleanings # {}
      BY <3>1 DEF Cleanings
    <3>3. Differ(known, Entries(cleaning[d])) \subseteq beside
      BY <3>1 DEF MemoryInv
    <3>4. fg \cup fc \cup pg \cup pc \subseteq marked
      BY <1>7, <3>2
    <3>5. Differ(known', Entries(cleaning[d])) \subseteq beside \cup marked
      BY <1>5, <3>3, <3>4 DEF Differ
    <3>6. QED
      BY <1>8, <3>1, <3>2, <3>5
  <2>3. QED
    BY <2>1, <2>2
<1>12. memory' \in Files /\ cleaning' \in [Cleaners -> Files] /\ memoryDay' \in Nat
  <2>1. cleaning \in [Cleaners -> Files] /\ memoryDay \in Nat
    BY DEF MemoryInv
  <2>2. QED
    BY <1>2, <1>3, <1>5, <2>1, NoCopyIsAFile
<1>13. QED
  BY <1>5, <1>10, <1>11, <1>12, MemoryStep

LEMMA CleaningKeepsMemory ==
    ASSUME MemoryInv, NEW c \in Cleaners, NEW kept \in SUBSET Facts \ {{}},
           CleaningSaves(c, kept)
    PROVE  MemoryInv'
<1> DEFINE copy == cleaning[c]
           listed == {copy.facts[i] : i \in DOMAIN copy.facts}
           gone == In("facts", listed \ kept)
           marked == IF Cleanings = {c} THEN {} ELSE gone
           underWay == Cleanings # {c}
           s == Keep(copy.facts, kept)
           new == [copy EXCEPT !.facts = s]
<1>1. /\ copy # NoMemoryCopy /\ kept \subseteq listed /\ memory' = new
      /\ known' = known \ gone /\ NotedFacts(marked, underWay) /\ underWay \in BOOLEAN
      /\ cleaning' = [cleaning EXCEPT ![c] = NoMemoryCopy] /\ memoryDay' = memoryDay
  BY DEF CleaningSaves
<1>2. copy \in Files /\ copy.facts \in Seq(Facts) /\ cleaning \in [Cleaners -> Files]
      /\ memoryDay \in Nat
  <2>1. copy \in Files /\ cleaning \in [Cleaners -> Files] /\ memoryDay \in Nat
    BY DEF MemoryInv
  <2>2. QED
    BY <2>1 DEF Files
<1>3. Differ(known, Entries(copy)) \subseteq beside
  BY <1>1 DEF MemoryInv
<1>4. new \in Files /\ Entries(new) = Entries(copy) \ gone
  <2>1. s \in Seq(Facts) /\ Range(s) = Range(copy.facts) \cap kept
    BY <1>2, KeptOnce
  <2>2. listed = Range(copy.facts)
    BY DEF Range
  <2>3. Changed(Range(copy.facts), Range(s), listed \ kept, {})
    BY <2>1, <2>2 DEF Changed
  <2>4. In("facts", {}) = {}
    BY DEF In
  <2> HIDE DEF copy, listed, s, new
  <2>5. new \in Files
        /\ Changed(Entries(copy), Entries(new), In("facts", listed \ kept), In("facts", {}))
    BY <1>2, <2>1, <2>3, FactsReplaced DEF new
  <2>6. QED
    BY <2>4, <2>5 DEF Changed
<1>5. /\ underWay => gone \subseteq marked
      /\ ~ underWay => Cleanings = {c}
  OBVIOUS
<1> HIDE DEF gone, marked, underWay, new
<1>6. Differ(known', Entries(memory')) \subseteq beside \cup marked
  BY <1>1, <1>3, <1>4 DEF Differ
<1>7. ASSUME NEW d \in Cleaners, cleaning'[d] # NoMemoryCopy
      PROVE  underWay /\ Differ(known', Entries(cleaning'[d])) \subseteq beside \cup marked
  <2>1. d # c /\ cleaning'[d] = cleaning[d]
    BY <1>1, <1>2, <1>7
  <2>2. d \in Cleanings
    BY <1>7, <2>1 DEF Cleanings
  <2>3. underWay
    BY <1>5, <2>1, <2>2
  <2>4. Differ(known, Entries(cleaning[d])) \subseteq beside
    BY <1>7, <2>1 DEF MemoryInv
  <2>5. Differ(known', Entries(cleaning[d])) \subseteq beside \cup marked
    BY <1>1, <1>5, <2>3, <2>4 DEF Differ
  <2>6. QED
    BY <2>1, <2>3, <2>5
<1>8. memory' \in Files /\ cleaning' \in [Cleaners -> Files] /\ memoryDay' \in Nat
  BY <1>1, <1>2, <1>4, NoCopyIsAFile
<1>9. QED
  BY <1>1, <1>6, <1>7, <1>8, MemoryStep

LEMMA MoodKeepsMemory ==
    ASSUME MemoryInv, NEW signals, NoticesMood(signals)
    PROVE  MemoryInv'
<1>1. PICK m \in DetectedMoods(signals) :
         LET entry == <<memoryDay, m>>
         IN  /\ Saves([memory EXCEPT !.moods = Last(Append(@, entry), MoodCap)],
                      In("moods", Oldest(Append(memory.moods, entry), MoodCap)),
                      In("moods", {entry}))
             /\ UNCHANGED <<cleaning, memoryDay, memoryFaults>>
  BY DEF NoticesMood
<1> DEFINE entry == <<memoryDay, m>>
           s == Last(Append(memory.moods, entry), MoodCap)
           old == Oldest(Append(memory.moods, entry), MoodCap)
           new == [memory EXCEPT !.moods = s]
<1>2. memory \in Files /\ memory.moods \in Seq(Nat \X MoodNames) /\ entry \in Nat \X MoodNames
  <2>1. memory \in Files /\ memoryDay \in Nat /\ m \in MoodNames
    BY <1>1 DEF MemoryInv, DetectedMoods
  <2>2. QED
    BY <2>1 DEF Files
<1>3. Saves(new, In("moods", old), In("moods", {entry})) /\ UNCHANGED <<cleaning, memoryDay>>
  BY <1>1
<1> HIDE DEF entry
<1>4. s \in Seq(Nat \X MoodNames) /\ Changed(Range(memory.moods), Range(s), old, {entry})
  BY <1>2, AppendedStays, CapsAreCounts DEF Changed
<1> HIDE DEF s, old
<1>5. new \in Files
      /\ Changed(Entries(memory), Entries(new), In("moods", old), In("moods", {entry}))
  BY <1>2, <1>4, MoodsReplaced
<1> HIDE DEF new
<1>6. QED
  BY <1>3, <1>5, SavesKeepsMemory DEF Changed

LEMMA InsightKeepsMemory ==
    ASSUME MemoryInv, NEW p \in PatternAnswers, InsightSaves(p)
    PROVE  MemoryInv'
<1> DEFINE new == PatternsReplaced(memory, p)
           s == SubSeq(p, 1, IF Len(p) > PatternCap THEN PatternCap ELSE Len(p))
           gone == {memory.patterns[i] : i \in DOMAIN memory.patterns}
           came == {new.patterns[i] : i \in DOMAIN new.patterns}
<1>1. Saves(new, In("patterns", gone), In("patterns", came)) /\ UNCHANGED <<cleaning, memoryDay>>
  BY DEF InsightSaves
<1>2. memory \in Files
  BY DEF MemoryInv
<1>3. s \in Seq(STRING)
  <2>1. p \in Seq(STRING) /\ PatternCap \in Nat \ {0}
    BY MemoryAssumption, CapsAreCounts
  <2>2. QED
    BY <2>1
<1>4. new = [memory EXCEPT !.patterns = s] /\ new.patterns = s
  BY <1>2 DEF PatternsReplaced, Files
<1>5. Changed(Range(memory.patterns), Range(s), gone, came)
  <2>1. gone = Range(memory.patterns) /\ came = Range(s)
    BY <1>4 DEF Range
  <2>2. QED
    BY <2>1 DEF Changed
<1> HIDE DEF s, gone, came, new
<1>6. new \in Files
      /\ Changed(Entries(memory), Entries(new), In("patterns", gone), In("patterns", came))
  BY <1>2, <1>3, <1>4, <1>5, PatternListReplaced
<1>7. QED
  BY <1>1, <1>6, SavesKeepsMemory DEF Changed

(* What a write cut short leaves is a file. *)
LEMMA CutShortIsAFile ==
    ASSUME NEW file \in Files, NEW cut \in CutShort(file)
    PROVE  cut \in Files
<1>1. /\ file.facts \in Seq(Facts) /\ file.prefs \in Seq(Preferences)
      /\ file.patterns \in Seq(STRING) /\ file.moods \in Seq(Nat \X MoodNames)
  BY DEF Files
<1>2. /\ \A k \in 0 .. Len(file.facts) : SubSeq(file.facts, 1, k) \in Seq(Facts)
      /\ \A k \in 0 .. Len(file.prefs) : SubSeq(file.prefs, 1, k) \in Seq(Preferences)
      /\ \A k \in 0 .. Len(file.patterns) : SubSeq(file.patterns, 1, k) \in Seq(STRING)
      /\ \A k \in 0 .. Len(file.moods) : SubSeq(file.moods, 1, k) \in Seq(Nat \X MoodNames)
  BY <1>1
<1>3. \A k \in 0 .. Len(file.facts) :
         [Forgotten EXCEPT !.facts = SubSeq(file.facts, 1, k)] \in Files
  <2>1. \A s : [Forgotten EXCEPT !.facts = s] =
                 [facts |-> s, prefs |-> <<>>, patterns |-> <<>>, moods |-> <<>>]
    BY DEF Forgotten
  <2>2. QED
    BY <1>2, <2>1, EmptySections DEF Files
<1>4. /\ \A f \in Files, s \in Seq(Preferences) : [f EXCEPT !.prefs = s] \in Files
      /\ \A f \in Files : [f EXCEPT !.patterns = <<>>] \in Files
      /\ \A f \in Files, s \in Seq(STRING) : [f EXCEPT !.patterns = s] \in Files
      /\ \A f \in Files : [f EXCEPT !.moods = <<>>] \in Files
  BY EmptySections DEF Files
<1>5. \A k \in 0 .. Len(file.prefs) :
         [file EXCEPT !.prefs = SubSeq(@, 1, k), !.patterns = <<>>, !.moods = <<>>] \in Files
  <2> SUFFICES ASSUME NEW k \in 0 .. Len(file.prefs)
               PROVE  [file EXCEPT !.prefs = SubSeq(@, 1, k), !.patterns = <<>>, !.moods = <<>>]
                        \in Files
    OBVIOUS
  <2>1. [file EXCEPT !.prefs = SubSeq(@, 1, k), !.patterns = <<>>, !.moods = <<>>] =
          [[[file EXCEPT !.prefs = SubSeq(file.prefs, 1, k)] EXCEPT !.patterns = <<>>]
             EXCEPT !.moods = <<>>]
    OBVIOUS
  <2>2. QED
    BY <1>2, <1>4, <2>1
<1>6. \A k \in 0 .. Len(file.patterns) :
         [file EXCEPT !.patterns = SubSeq(@, 1, k), !.moods = <<>>] \in Files
  <2> SUFFICES ASSUME NEW k \in 0 .. Len(file.patterns)
               PROVE  [file EXCEPT !.patterns = SubSeq(@, 1, k), !.moods = <<>>] \in Files
    OBVIOUS
  <2>1. [file EXCEPT !.patterns = SubSeq(@, 1, k), !.moods = <<>>] =
          [[file EXCEPT !.patterns = SubSeq(file.patterns, 1, k)] EXCEPT !.moods = <<>>]
    OBVIOUS
  <2>2. QED
    BY <1>2, <1>4, <2>1
<1>7. \A k \in 0 .. Len(file.moods) : [file EXCEPT !.moods = SubSeq(@, 1, k)] \in Files
  BY <1>1, <1>2 DEF Files
<1>8. QED
  BY <1>3, <1>5, <1>6, <1>7 DEF CutShort

(***************************************************************************)
(* The file is what was last learned, but for what was saved or dropped    *)
(* while a cleaning of the facts held its copy: for any facts, answers,    *)
(* caps, cleanings and deaths within a write.                              *)
(***************************************************************************)
THEOREM OnlyCleaningsForget == MemorySpec => []OnlyCleaningForgets
<1>1. MemoryInit => MemoryInv
  <2> SUFFICES ASSUME MemoryInit PROVE MemoryInv
    OBVIOUS
  <2>1. memory \in Files /\ memoryDay \in Nat
    <3>1. memory = [facts |-> OldFacts, prefs |-> <<>>, patterns |-> <<>>, moods |-> <<>>]
      BY DEF MemoryInit, Forgotten
    <3>2. OldFacts \in Seq(Facts)
      BY MemoryAssumption
    <3>3. memory \in Files
      BY <3>1, <3>2, EmptySections DEF Files
    <3>4. QED
      BY <3>3 DEF MemoryInit
  <2>2. cleaning \in [Cleaners -> Files] /\ \A c \in Cleaners : cleaning[c] = NoMemoryCopy
    BY NoCopyIsAFile DEF MemoryInit
  <2>3. known = Entries(memory)
    BY DEF MemoryInit
  <2>4. QED
    BY <2>1, <2>2, <2>3 DEF MemoryInv, Differ
<1>2. MemoryInv /\ [MemoryNext]_memoryVars => MemoryInv'
  <2> SUFFICES ASSUME MemoryInv, [MemoryNext]_memoryVars PROVE MemoryInv'
    OBVIOUS
  <2>1. ASSUME NEW c \in Cleaners, NEW f \in Facts \cup {"none"},
               NEW p \in Preferences \cup {"none"}, NEW named \in BOOLEAN,
               Learns(c, f, p, named)
        PROVE  MemoryInv'
    BY <2>1, LearnsKeepsMemory
  <2>2. ASSUME NEW c \in Cleaners, NEW kept \in SUBSET Facts \ {{}}, CleaningSaves(c, kept)
        PROVE  MemoryInv'
    BY <2>2, CleaningKeepsMemory
  <2>3. ASSUME NEW c \in Cleaners, CleaningFails(c)
        PROVE  MemoryInv'
    <3> DEFINE underWay == Cleanings # {c}
    <3>1. /\ memory' = memory /\ known' = known /\ memoryDay' = memoryDay
          /\ cleaning' = [cleaning EXCEPT ![c] = NoMemoryCopy]
          /\ NotedFacts({}, underWay) /\ underWay \in BOOLEAN
      BY <2>3 DEF CleaningFails
    <3>2. cleaning' \in [Cleaners -> Files] /\ cleaning \in [Cleaners -> Files]
      BY <3>1, NoCopyIsAFile DEF MemoryInv
    <3>3. ASSUME NEW d \in Cleaners, cleaning'[d] # NoMemoryCopy
          PROVE  underWay /\ Differ(known', Entries(cleaning'[d])) \subseteq beside \cup {}
      <4>1. d # c /\ cleaning'[d] = cleaning[d]
        BY <3>1, <3>2, <3>3
      <4>2. d \in Cleanings
        BY <3>3, <4>1 DEF Cleanings
      <4>3. Differ(known', Entries(cleaning'[d])) \subseteq beside
        BY <3>1, <3>3, <4>1 DEF MemoryInv
      <4>4. QED
        BY <4>1, <4>2, <4>3
    <3> HIDE DEF underWay
    <3>4. Differ(known', Entries(memory')) \subseteq beside \cup {}
      BY <3>1 DEF MemoryInv
    <3>5. memory' \in Files /\ memoryDay' \in Nat
      BY <3>1 DEF MemoryInv
    <3>6. QED
      BY <3>1, <3>2, <3>3, <3>4, <3>5, MemoryStep
  <2>4. ASSUME NEW signals \in [MoodNames -> 0 .. 1], NoticesMood(signals)
        PROVE  MemoryInv'
    BY <2>4, MoodKeepsMemory
  <2>5. ASSUME NEW p \in PatternAnswers, InsightSaves(p)
        PROVE  MemoryInv'
    BY <2>5, InsightKeepsMemory
  <2>6. CASE NextMemoryDay
    BY <2>6 DEF NextMemoryDay, MemoryInv
  <2>7. CASE MemoryRestart
    <3>1. /\ memory' \in CutShort(memory) /\ memoryDay' = memoryDay
          /\ known' = (known \ Entries(memory)) \cup Entries(memory')
          /\ NotedFacts({}, FALSE)
          /\ cleaning' = [c \in Cleaners |-> NoMemoryCopy]
      BY <2>7 DEF MemoryRestart
    <3>2. memory' \in Files /\ memoryDay' \in Nat
      BY <3>1, CutShortIsAFile DEF MemoryInv
    <3>3. cleaning' \in [Cleaners -> Files] /\ \A c \in Cleaners : cleaning'[c] = NoMemoryCopy
      BY <3>1, NoCopyIsAFile
    <3>4. Differ(known', Entries(memory')) \subseteq beside \cup {}
      <4>1. Differ(known, Entries(memory)) \subseteq beside
        BY DEF MemoryInv
      <4>2. QED
        BY <3>1, <4>1 DEF Differ
    <3>5. QED
      BY <3>1, <3>2, <3>3, <3>4, MemoryStep
  <2>8. CASE UNCHANGED memoryVars
    BY <2>8 DEF memoryVars, MemoryInv
  <2>9. QED
    BY <2>1, <2>2, <2>3, <2>4, <2>5, <2>6, <2>7, <2>8 DEF MemoryNext
<1>3. MemoryInv => OnlyCleaningForgets
  BY DEF MemoryInv, OnlyCleaningForgets, Differ
<1>4. QED
  BY <1>1, <1>2, <1>3, PTL DEF MemorySpec

-----------------------------------------------------------------------------
(* Bills *)

CategoriesRead == {p.category : p \in Papers} \cup {"other"}

BillRows ==
    [id : Nat, vendor : {Normalised(p.name, BillAliases) : p \in Papers},
     category : CategoriesRead \cup {CategoryOf[v] : v \in DOMAIN CategoryOf},
     invoice : STRING \cup {NoDate}, period : Int \cup {NoDate}, due : Int \cup {NoDate},
     paidAt : BOOLEAN, status : {"unpaid", "overdue", "paid"}]

(* The file, and the copy of it that the dashboard holds: PaidOnceForAll,  *)
(* which is of no use without knowing that ids are different, and old.     *)
SoundBills(file, next, seen, lost) ==
    /\ file \in Seq(BillRows)
    /\ \A i \in DOMAIN file : file[i].id < next
    /\ \A i, j \in DOMAIN file : file[i].id = file[j].id => i = j
    /\ \A i \in DOMAIN file : file[i].id \in seen \ lost => file[i].status = "paid"
    /\ \A i, j \in DOMAIN file : i # j =>
         ~SameInvoice(file[i], file[j]) /\ ~SamePeriod(file[i], file[j])

BillsInv ==
    /\ nextBill \in Nat
    /\ \A id \in paidOnce : id \in Nat /\ id < nextBill
    /\ SoundBills(bills, nextBill, paidOnce, payLost)
    /\ dashBills # NoCopy => SoundBills(dashBills, nextBill, paidOnce, payLost)

(* Rewriting rows, but for what they are of and what is settled of them.   *)
LEMMA RewrittenBills ==
    ASSUME NEW next \in Nat, NEW seen, NEW lost, NEW seen2, NEW lost2, NEW file, NEW new,
           SoundBills(file, next, seen, lost), new \in Seq(BillRows), DOMAIN new = DOMAIN file,
           \A i \in DOMAIN file :
             /\ new[i].id = file[i].id /\ new[i].vendor = file[i].vendor
             /\ new[i].category = file[i].category /\ new[i].invoice = file[i].invoice
             /\ new[i].period = file[i].period
             /\ file[i].id \in seen2 \ lost2 => new[i].status = "paid"
    PROVE  SoundBills(new, next, seen2, lost2)
<1>1. \A i, j \in DOMAIN file :
         /\ SameInvoice(new[i], new[j]) => SameInvoice(file[i], file[j])
         /\ SamePeriod(new[i], new[j]) => SamePeriod(file[i], file[j])
  BY DEF SameInvoice, SamePeriod
<1>2. QED
  BY <1>1 DEF SoundBills

(* A sound file is sound of what was seen less, or of more ids. *)
LEMMA SoundForLess ==
    ASSUME NEW next \in Nat, NEW seen, NEW lost, NEW seen2, NEW lost2, NEW file,
           SoundBills(file, next, seen, lost), NEW next2 \in Nat, next <= next2,
           \A id \in Nat : id < next /\ id \in seen2 \ lost2 => id \in seen \ lost
    PROVE  SoundBills(file, next2, seen2, lost2)
<1>1. \A i \in DOMAIN file : file[i].id \in Nat
  <2>1. \A i \in DOMAIN file : file[i] \in BillRows
    BY DEF SoundBills
  <2>2. QED
    BY <2>1 DEF BillRows
<1>2. QED
  BY <1>1 DEF SoundBills

LEMMA StatusIsStatus ==
    ASSUME NEW row
    PROVE  /\ ComputeStatus(row) \in {"unpaid", "overdue", "paid"}
           /\ row.status = "paid" => ComputeStatus(row) = "paid"
  BY DEF ComputeStatus, StatusByDue

LEMMA RefreshedIsSound ==
    ASSUME BillsInv
    PROVE  SoundBills(Refreshed, nextBill, paidOnce, payLost)
<1> DEFINE r == Refreshed
<1>1. bills \in Seq(BillRows)
  BY DEF BillsInv, SoundBills
<1>2. DOMAIN bills = 1 .. Len(bills) /\ Len(bills) \in Nat
  BY <1>1
<1>3. r = [i \in 1 .. Len(bills) |-> [bills[i] EXCEPT !.status = ComputeStatus(bills[i])]]
  BY <1>2 DEF Refreshed
<1>4. ASSUME NEW i \in 1 .. Len(bills)
      PROVE  /\ r[i] \in BillRows
             /\ r[i].id = bills[i].id /\ r[i].vendor = bills[i].vendor
             /\ r[i].category = bills[i].category /\ r[i].invoice = bills[i].invoice
             /\ r[i].period = bills[i].period
             /\ bills[i].id \in paidOnce \ payLost => r[i].status = "paid"
  <2>1. bills[i] \in BillRows
    BY <1>1, <1>2
  <2>2. r[i] = [bills[i] EXCEPT !.status = ComputeStatus(bills[i])]
    BY <1>3
  <2> HIDE DEF r
  <2>3. /\ r[i] \in BillRows /\ r[i].status = ComputeStatus(bills[i])
        /\ r[i].id = bills[i].id /\ r[i].vendor = bills[i].vendor
        /\ r[i].category = bills[i].category /\ r[i].invoice = bills[i].invoice
        /\ r[i].period = bills[i].period
    BY <2>1, <2>2, StatusIsStatus DEF BillRows
  <2>4. bills[i].id \in paidOnce \ payLost => bills[i].status = "paid"
    BY <1>2 DEF BillsInv, SoundBills
  <2>5. QED
    BY <2>3, <2>4, StatusIsStatus
<1> HIDE DEF r
<1>5. r \in Seq(BillRows) /\ DOMAIN r = DOMAIN bills
  <2>1. r \in [1 .. Len(bills) -> BillRows]
    BY <1>3, <1>4
  <2>2. QED
    BY <1>2, <2>1
<1>6. SoundBills(r, nextBill, paidOnce, payLost)
  BY <1>2, <1>4, <1>5, RewrittenBills DEF BillsInv
<1>7. QED
  BY <1>6 DEF r

LEMMA MarkedIsSound ==
    ASSUME NEW next \in Nat, NEW seen, NEW lost, NEW file, NEW seen2, NEW lost2,
           SoundBills(file, next, seen, lost), NEW i \in DOMAIN file,
           \A id : id \in seen2 \ lost2 => id = file[i].id \/ id \in seen \ lost
    PROVE  SoundBills(MarkPaid(file, i), next, seen2, lost2)
<1> DEFINE new == MarkPaid(file, i)
<1>1. file \in Seq(BillRows)
  BY DEF SoundBills
<1>2. DOMAIN file = 1 .. Len(file) /\ Len(file) \in Nat /\ file[i] \in BillRows
  BY <1>1
<1> DEFINE row == [file[i] EXCEPT !.status = "paid", !.paidAt = TRUE]
<1>3. /\ row \in BillRows /\ row.status = "paid"
      /\ row.id = file[i].id /\ row.vendor = file[i].vendor
      /\ row.category = file[i].category /\ row.invoice = file[i].invoice
      /\ row.period = file[i].period
  BY <1>2 DEF BillRows
<1>4. new = [file EXCEPT ![i] = row]
  BY <1>2 DEF MarkPaid
<1> HIDE DEF row, new
<1>5. new \in Seq(BillRows) /\ DOMAIN new = DOMAIN file
  BY <1>1, <1>2, <1>3, <1>4
<1>6. \A j \in DOMAIN file : new[j] = IF j = i THEN row ELSE file[j]
  BY <1>1, <1>4
<1>7. ASSUME NEW j \in DOMAIN file
      PROVE  /\ new[j].id = file[j].id /\ new[j].vendor = file[j].vendor
             /\ new[j].category = file[j].category /\ new[j].invoice = file[j].invoice
             /\ new[j].period = file[j].period
             /\ file[j].id \in seen2 \ lost2 => new[j].status = "paid"
  <2>1. CASE j = i
    BY <1>3, <1>6, <2>1
  <2>2. CASE j # i
    BY <1>6, <2>2 DEF SoundBills
  <2>3. QED
    BY <2>1, <2>2
<1>8. SoundBills(new, next, seen2, lost2)
  BY <1>5, <1>7, RewrittenBills
<1>9. QED
  BY <1>8 DEF new

LEMMA AddKeepsBills ==
    ASSUME BillsInv, NEW paper \in Papers, NEW as, AddBill(as),
           as.name = paper.name, as.invoice = paper.invoice, as.period = paper.period,
           as.due = paper.due, as.category \in CategoriesRead, as.paid \in BOOLEAN
    PROVE  BillsInv'
<1> DEFINE bill == Filed(as)
           row == [bill EXCEPT !.status = ComputeStatus(bill)]
<1>1. /\ ~Duplicate(bill) /\ bills' = Append(bills, row) /\ nextBill' = nextBill + 1
      /\ paidOnce' = IF as.paid THEN paidOnce \cup {nextBill} ELSE paidOnce
      /\ payLost' = IF as.paid /\ dashBills # NoCopy THEN payLost \cup {nextBill} ELSE payLost
      /\ dashBills' = dashBills
  BY DEF AddBill
<1>2. /\ nextBill \in Nat /\ bills \in Seq(BillRows)
      /\ \A id \in paidOnce : id \in Nat /\ id < nextBill
  BY DEF BillsInv, SoundBills
<1>3. /\ bill \in BillRows /\ bill.id = nextBill
      /\ as.paid => bill.status = "paid"
  <2>1. /\ paper.invoice \in STRING \cup {NoDate} /\ paper.period \in Int \cup {NoDate}
        /\ paper.due \in Int \cup {NoDate}
    BY PapersAssumption
  <2>2. Normalised(as.name, BillAliases) \in {Normalised(p.name, BillAliases) : p \in Papers}
    OBVIOUS
  <2>3. QED
    BY <1>2, <2>1, <2>2 DEF Filed, BillRows
<1> HIDE DEF bill
<1>4. /\ row \in BillRows /\ row.id = nextBill /\ row.status = ComputeStatus(bill)
      /\ row.vendor = bill.vendor /\ row.category = bill.category
      /\ row.invoice = bill.invoice /\ row.period = bill.period
  BY <1>3, StatusIsStatus DEF BillRows
<1>5. as.paid => row.status = "paid"
  BY <1>3, <1>4, StatusIsStatus
<1> HIDE DEF row
<1>6. /\ Len(bills) \in Nat /\ DOMAIN bills = 1 .. Len(bills)
      /\ DOMAIN bills' = 1 .. Len(bills) + 1 /\ bills' \in Seq(BillRows)
      /\ \A i \in 1 .. Len(bills) : bills'[i] = bills[i]
      /\ bills'[Len(bills) + 1] = row
  BY <1>1, <1>2, <1>4
<1>7. \A i \in 1 .. Len(bills) : bills[i].id \in Nat /\ bills[i].id < nextBill
  <2>1. \A i \in 1 .. Len(bills) : bills[i] \in BillRows
    BY <1>2
  <2>2. QED
    BY <1>6, <2>1 DEF BillsInv, SoundBills, BillRows
<1>8. /\ \A id \in paidOnce' : id \in paidOnce \/ id = nextBill
      /\ payLost \subseteq payLost'
  BY <1>1, Zenon
<1>9. \A id \in Nat : id < nextBill /\ id \in paidOnce' \ payLost' => id \in paidOnce \ payLost
  BY <1>2, <1>8
<1>10. nextBill \in paidOnce' => as.paid
  <2>1. nextBill \notin paidOnce
    BY <1>2
  <2>2. QED
    BY <1>1, <2>1, Zenon
<1>11. SoundBills(bills', nextBill', paidOnce', payLost')
  <2>1. \A i \in DOMAIN bills' : bills'[i].id < nextBill'
    BY <1>1, <1>2, <1>4, <1>6, <1>7
  <2>2. ASSUME NEW i \in DOMAIN bills', NEW j \in DOMAIN bills', bills'[i].id = bills'[j].id
        PROVE  i = j
    <3>1. CASE i \in 1 .. Len(bills) /\ j \in 1 .. Len(bills)
      BY <1>6, <2>2, <3>1 DEF BillsInv, SoundBills
    <3>2. CASE i = Len(bills) + 1 /\ j = Len(bills) + 1
      BY <3>2
    <3>3. \A k \in 1 .. Len(bills) : bills'[k].id # bills'[Len(bills) + 1].id
      BY <1>2, <1>4, <1>6, <1>7
    <3>4. QED
      BY <1>6, <2>2, <3>1, <3>2, <3>3
  <2>3. ASSUME NEW i \in DOMAIN bills', bills'[i].id \in paidOnce' \ payLost'
        PROVE  bills'[i].status = "paid"
    <3>1. CASE i \in 1 .. Len(bills)
      BY <1>6, <1>7, <1>9, <2>3, <3>1 DEF BillsInv, SoundBills
    <3>2. CASE i = Len(bills) + 1
      <4>1. nextBill \in paidOnce'
        BY <1>4, <1>6, <2>3, <3>2
      <4>2. as.paid
        BY <1>10, <4>1
      <4>3. QED
        BY <1>5, <1>6, <3>2, <4>2
    <3>3. QED
      BY <1>6, <3>1, <3>2
  <2>4. ASSUME NEW i \in DOMAIN bills', NEW j \in DOMAIN bills', i # j
        PROVE  ~SameInvoice(bills'[i], bills'[j]) /\ ~SamePeriod(bills'[i], bills'[j])
    <3>1. \A k \in 1 .. Len(bills) :
             /\ ~SameInvoice(bills[k], row) /\ ~SamePeriod(bills[k], row)
             /\ ~SameInvoice(row, bills[k]) /\ ~SamePeriod(row, bills[k])
      <4>1. \A k \in 1 .. Len(bills) : ~SameInvoice(bills[k], bill) /\ ~SamePeriod(bills[k], bill)
        BY <1>1, <1>6 DEF Duplicate
      <4>2. QED
        BY <1>4, <4>1 DEF SameInvoice, SamePeriod
    <3>2. CASE i \in 1 .. Len(bills) /\ j \in 1 .. Len(bills)
      BY <1>6, <2>4, <3>2 DEF BillsInv, SoundBills
    <3>3. QED
      BY <1>6, <2>4, <3>1, <3>2
  <2>5. QED
    BY <1>6, <2>1, <2>2, <2>3, <2>4 DEF SoundBills
<1>12. dashBills' # NoCopy => SoundBills(dashBills', nextBill', paidOnce', payLost')
  <2>1. dashBills # NoCopy => SoundBills(dashBills, nextBill, paidOnce, payLost)
    BY DEF BillsInv
  <2>2. dashBills # NoCopy => SoundBills(dashBills, nextBill + 1, paidOnce', payLost')
    BY <1>2, <1>9, <2>1, SoundForLess
  <2>3. QED
    BY <1>1, <2>2
<1>13. nextBill' \in Nat /\ \A id \in paidOnce' : id \in Nat /\ id < nextBill'
  <2>1. nextBill' = nextBill + 1
    BY <1>1
  <2>2. QED
    BY <1>2, <1>8, <2>1
<1>14. QED
  BY <1>11, <1>12, <1>13 DEF BillsInv

(***************************************************************************)
(* A bill that was paid stays paid, and no invoice and no period of a      *)
(* vendor is in the books twice, for any papers, aliases and windows, and  *)
(* beside a second process that rewrites the file.                         *)
(***************************************************************************)
THEOREM PaidBillsStayPaid == BillsSpec => []PaidOnceForAll
<1>1. BillsInit => BillsInv
  BY DEF BillsInit, BillsInv, SoundBills
<1>2. BillsInv /\ [BillsNext]_billVars => BillsInv'
  <2> SUFFICES ASSUME BillsInv, [BillsNext]_billVars PROVE BillsInv'
    OBVIOUS
  <2>0. /\ nextBill \in Nat /\ SoundBills(bills, nextBill, paidOnce, payLost)
        /\ \A id \in paidOnce : id \in Nat /\ id < nextBill
        /\ bills \in Seq(BillRows)
    BY DEF BillsInv, SoundBills
  <2>1. ASSUME NEW paper \in Papers, PdfBill(paper) PROVE BillsInv'
    <3> DEFINE category == IF paper.category \in Categories THEN paper.category ELSE "other"
               as == [paper EXCEPT !.category = category]
    <3>1. FromPdf(paper) = as /\ AddBill(FromPdf(paper))
      BY <2>1 DEF PdfBill, FromPdf, Detected
    <3>2. /\ as.name = paper.name /\ as.invoice = paper.invoice /\ as.period = paper.period
          /\ as.due = paper.due /\ as.category \in CategoriesRead /\ as.paid \in BOOLEAN
      <4>1. /\ paper \in [type : {"bill", "contract", "neither"},
                           signs : SUBSET {"sender", "subject", "opening"},
                           name : STRING, category : STRING, paid : BOOLEAN,
                           invoice : STRING \cup {NoDate}, period : Int \cup {NoDate},
                           due : Int \cup {NoDate}, ends : Int \cup {NoDate},
                           renews : Int \cup {NoDate}]
        BY PapersAssumption
      <4>2. category \in CategoriesRead
        BY DEF CategoriesRead
      <4> HIDE DEF category
      <4>3. QED
        BY <4>1, <4>2
    <3> HIDE DEF as
    <3>3. QED
      BY <3>1, <3>2, AddKeepsBills
  <2>2. ASSUME NEW paper \in Papers, OwnerAddsBill(paper) PROVE BillsInv'
    <3> DEFINE as == [paper EXCEPT !.paid = FALSE]
    <3>1. AddBill(as)
      BY <2>2 DEF OwnerAddsBill
    <3>2. /\ as.name = paper.name /\ as.invoice = paper.invoice /\ as.period = paper.period
          /\ as.due = paper.due /\ as.category \in CategoriesRead /\ as.paid \in BOOLEAN
      <4>1. /\ paper \in [type : {"bill", "contract", "neither"},
                           signs : SUBSET {"sender", "subject", "opening"},
                           name : STRING, category : STRING, paid : BOOLEAN,
                           invoice : STRING \cup {NoDate}, period : Int \cup {NoDate},
                           due : Int \cup {NoDate}, ends : Int \cup {NoDate},
                           renews : Int \cup {NoDate}]
        BY PapersAssumption
      <4>2. as.paid = FALSE
        BY <4>1
      <4>3. as.category \in CategoriesRead
        BY <4>1 DEF CategoriesRead
      <4>4. QED
        BY <4>1, <4>2, <4>3
    <3> HIDE DEF as
    <3>3. QED
      BY <3>1, <3>2, AddKeepsBills
  <2>3. CASE ListBills
    BY <2>3, RefreshedIsSound DEF ListBills, BillsInv
  <2>4. CASE CheckOverdueBills
    BY <2>4, RefreshedIsSound DEF CheckOverdueBills, BillsInv
  <2>5. ASSUME NEW i, PaysById(i) PROVE BillsInv'
    <3>1. /\ i \in DOMAIN bills /\ bills' = MarkPaid(bills, i)
          /\ paidOnce' = paidOnce \cup {bills[i].id}
          /\ payLost' = IF dashBills # NoCopy THEN payLost \cup {bills[i].id}
                        ELSE payLost \ {bills[i].id}
          /\ nextBill' = nextBill /\ dashBills' = dashBills
      BY <2>5 DEF PaysById, SeenPaid
    <3>2. SoundBills(bills', nextBill, paidOnce', payLost')
      BY <2>0, <3>1, MarkedIsSound
    <3>3. dashBills # NoCopy => SoundBills(dashBills, nextBill, paidOnce', payLost')
      <4>1. dashBills # NoCopy => \A id : id \in paidOnce' \ payLost' => id \in paidOnce \ payLost
        BY <3>1
      <4>2. QED
        BY <2>0, <4>1, SoundForLess DEF BillsInv
    <3>4. \A id \in paidOnce' : id \in Nat /\ id < nextBill
      <4>1. bills[i] \in BillRows
        BY <2>0, <3>1
      <4>2. bills[i].id \in Nat /\ bills[i].id < nextBill
        BY <2>0, <3>1, <4>1 DEF SoundBills, BillRows
      <4>3. QED
        BY <2>0, <3>1, <4>2
    <3>5. QED
      BY <2>0, <3>1, <3>2, <3>3, <3>4 DEF BillsInv
  <2>6. ASSUME NEW vendor, PaysByVendor(vendor) PROVE BillsInv'
    BY <2>5, <2>6 DEF PaysByVendor
  <2>7. CASE DashboardReadsBills
    BY <2>7 DEF DashboardReadsBills, BillsInv
  <2>8. ASSUME NEW i, i \in DOMAIN dashBills, dashBills # NoCopy
        PROVE  dashBills[i].id \in Nat /\ dashBills[i].id < nextBill
    <3>1. SoundBills(dashBills, nextBill, paidOnce, payLost)
      BY <2>8 DEF BillsInv
    <3>2. dashBills[i] \in BillRows
      BY <2>8, <3>1 DEF SoundBills
    <3>3. QED
      BY <2>8, <3>1, <3>2 DEF SoundBills, BillRows
  <2>9. ASSUME NEW i, DashboardPays(i) PROVE BillsInv'
    <3>1. /\ i \in DOMAIN dashBills /\ dashBills # NoCopy /\ bills' = MarkPaid(dashBills, i)
          /\ paidOnce' = paidOnce \cup {dashBills[i].id}
          /\ payLost' = payLost \ {dashBills[i].id}
          /\ nextBill' = nextBill /\ dashBills' = NoCopy
      BY <2>9 DEF DashboardPays
    <3>2. SoundBills(dashBills, nextBill, paidOnce, payLost)
      BY <3>1 DEF BillsInv
    <3>3. SoundBills(bills', nextBill, paidOnce', payLost')
      BY <2>0, <3>1, <3>2, MarkedIsSound
    <3>4. QED
      BY <2>0, <2>8, <3>1, <3>3 DEF BillsInv
  <2>10. ASSUME NEW i, DashboardOverwritten(i) PROVE BillsInv'
    <3>1. /\ i \in DOMAIN dashBills /\ dashBills # NoCopy /\ bills' = bills
          /\ paidOnce' = paidOnce \cup {dashBills[i].id}
          /\ payLost' = payLost \cup {dashBills[i].id}
          /\ nextBill' = nextBill /\ dashBills' = NoCopy
      BY <2>10 DEF DashboardOverwritten
    <3>2. SoundBills(bills, nextBill, paidOnce', payLost')
      BY <2>0, <3>1, SoundForLess
    <3>3. QED
      BY <2>0, <2>8, <3>1, <3>2 DEF BillsInv
  <2>11. CASE BillDayPasses
    BY <2>11 DEF BillDayPasses, BillsInv
  <2>12. CASE BillsTorn
    <3>1. SoundBills(<<>>, nextBill, paidOnce, payLost)
      BY DEF SoundBills
    <3>2. QED
      BY <2>12, <3>1 DEF BillsTorn, BillsInv
  <2>13. CASE UNCHANGED billVars
    BY <2>13 DEF billVars, BillsInv
  <2>14. QED
    BY <2>1, <2>2, <2>3, <2>4, <2>5, <2>6, <2>7, <2>9, <2>10, <2>11, <2>12, <2>13
      DEF BillsNext
<1>3. BillsInv => PaidOnceForAll
  BY DEF BillsInv, SoundBills, PaidOnceForAll
<1>4. QED
  BY <1>1, <1>2, <1>3, PTL DEF BillsSpec

-----------------------------------------------------------------------------
(* Contracts *)

ContractRows ==
    [id : Nat, vendor : {Normalised(p.name, ContractAliases) : p \in Papers},
     category : CategoriesRead, ends : Int \cup {NoDate}, renews : Int \cup {NoDate},
     status : Statuses]

\* What holds of the file, and of a copy of it the dashboard holds: the ids are
\* unique and given out, what was cancelled and not corrected since is
\* cancelled, and of two entries for one contract one is.
SoundContracts(file, next, seen, back) ==
    /\ file \in Seq(ContractRows)
    /\ \A i \in DOMAIN file : file[i].id < next
    /\ \A i, j \in DOMAIN file : file[i].id = file[j].id => i = j
    /\ \A i \in DOMAIN file : file[i].id \in seen \ back => file[i].status = "cancelled"
    /\ \A i, j \in DOMAIN file :
         i # j /\ SameContract(file[i], file[j]) /\ file[i].id \notin back /\ file[j].id \notin back
           => file[i].status = "cancelled" \/ file[j].status = "cancelled"

ContractsInv ==
    /\ nextContract \in Nat
    /\ \A id \in cancelledOnce : id \in Nat /\ id < nextContract
    /\ SoundContracts(contracts, nextContract, cancelledOnce, revived)
    /\ dashContracts # NoContractCopy =>
         SoundContracts(dashContracts, nextContract, cancelledOnce, revived)

\* A rewritten row that may take the place of the old one: of the same id, and
\* corrected (back2), cancelled, or running as before.
Stands(old, new, back, seen2, back2) ==
    /\ new \in ContractRows /\ new.id = old.id
    /\ \/ old.id \in back2
       \/ new.status = "cancelled"
       \/ /\ SameContract(new, old)
          /\ old.status # "cancelled" /\ old.id \notin back /\ old.id \notin seen2

(* Rewriting rows, but for those corrected (back2), keeps a file sound.    *)
LEMMA RewrittenContracts ==
    ASSUME NEW next \in Nat, NEW seen, NEW back, NEW seen2, NEW back2, NEW file, NEW new,
           SoundContracts(file, next, seen, back), new \in Seq(ContractRows),
           DOMAIN new = DOMAIN file,
           \A i \in DOMAIN file : Stands(file[i], new[i], back, seen2, back2)
    PROVE  SoundContracts(new, next, seen2, back2)
<1>1. ASSUME NEW i \in DOMAIN file, NEW j \in DOMAIN file, i # j, SameContract(new[i], new[j]),
             new[i].id \notin back2, new[j].id \notin back2
      PROVE  new[i].status = "cancelled" \/ new[j].status = "cancelled"
  <2> SUFFICES ASSUME new[i].status # "cancelled", new[j].status # "cancelled" PROVE FALSE
    OBVIOUS
  <2>1. /\ Stands(file[i], new[i], back, seen2, back2)
        /\ Stands(file[j], new[j], back, seen2, back2)
    OBVIOUS
  <2>2. /\ SameContract(new[i], file[i]) /\ SameContract(new[j], file[j])
        /\ file[i].status # "cancelled" /\ file[j].status # "cancelled"
        /\ file[i].id \notin back /\ file[j].id \notin back
    BY <1>1, <2>1 DEF Stands
  <2>3. SameContract(file[i], file[j])
    BY <1>1, <2>2 DEF SameContract
  <2>4. QED
    BY <1>1, <2>2, <2>3 DEF SoundContracts
<1>2. ASSUME NEW i \in DOMAIN file PROVE new[i].id = file[i].id
  BY DEF Stands
<1>3. ASSUME NEW i \in DOMAIN file, new[i].id \in seen2 \ back2 PROVE new[i].status = "cancelled"
  BY <1>2, <1>3 DEF Stands
<1>4. QED
  BY <1>1, <1>2, <1>3 DEF SoundContracts

(* A sound file is sound of more ids, and when more is corrected.          *)
LEMMA SoundForMore ==
    ASSUME NEW next \in Nat, NEW seen, NEW back, NEW seen2, NEW back2, NEW file,
           SoundContracts(file, next, seen, back), NEW next2 \in Nat, next <= next2,
           back \subseteq back2, seen2 \ back2 \subseteq seen \ back
    PROVE  SoundContracts(file, next2, seen2, back2)
<1>1. \A i \in DOMAIN file : file[i].id \in Nat
  <2>1. \A i \in DOMAIN file : file[i] \in ContractRows
    BY DEF SoundContracts
  <2>2. QED
    BY <2>1 DEF ContractRows
<1>2. QED
  BY <1>1 DEF SoundContracts

LEMMA CancelledIsKept ==
    ASSUME NEW row
    PROVE  /\ ContractStatus(row) \in Statuses
           /\ row.status = "cancelled" => ContractStatus(row) = "cancelled"
  BY DEF ContractStatus, StatusByDate, Statuses

(* A row left as it is stands, if what is known of it is.                  *)
LEMMA LeftRowStands ==
    ASSUME NEW next, NEW seen, NEW back, NEW seen2, NEW back2, NEW file,
           SoundContracts(file, next, seen, back), NEW i \in DOMAIN file,
           file[i].id \in seen2 <=> file[i].id \in seen,
           file[i].id \in back2 <=> file[i].id \in back
    PROVE  Stands(file[i], file[i], back, seen2, back2)
<1>1. file[i] \in ContractRows
  BY DEF SoundContracts
<1>2. QED
  BY <1>1 DEF SoundContracts, Stands, SameContract

(* One row rewritten: by a later letter, or by a correction.               *)
LEMMA OneContractRewritten ==
    ASSUME NEW next \in Nat, NEW seen, NEW back, NEW seen2, NEW back2, NEW file, NEW i, NEW row,
           SoundContracts(file, next, seen, back),
           i \in DOMAIN file => Stands(file[i], row, back, seen2, back2),
           \A j \in DOMAIN file : j # i => /\ file[j].id \in seen2 <=> file[j].id \in seen
                                           /\ file[j].id \in back2 <=> file[j].id \in back
    PROVE  SoundContracts([file EXCEPT ![i] = row], next, seen2, back2)
<1> DEFINE new == [file EXCEPT ![i] = row]
<1>1. file \in Seq(ContractRows)
  BY DEF SoundContracts
<1>2. DOMAIN file = 1 .. Len(file) /\ Len(file) \in Nat
  BY <1>1
<1>3. \A j \in DOMAIN file : new[j] = IF j = i THEN row ELSE file[j]
  BY <1>1
<1>4. i \in DOMAIN file => row \in ContractRows
  BY DEF Stands
<1>5. new \in Seq(ContractRows) /\ DOMAIN new = DOMAIN file
  <2>1. CASE i \in DOMAIN file
    BY <1>1, <1>2, <1>4, <2>1
  <2>2. CASE i \notin DOMAIN file
    <3>1. new = file
      BY <1>1, <1>2, <2>2
    <3>2. QED
      BY <1>1, <3>1
  <2>3. QED
    BY <2>1, <2>2
<1> HIDE DEF new
<1>6. \A j \in DOMAIN file : Stands(file[j], new[j], back, seen2, back2)
  <2> SUFFICES ASSUME NEW j \in DOMAIN file PROVE Stands(file[j], new[j], back, seen2, back2)
    OBVIOUS
  <2>1. CASE j = i
    BY <1>3, <2>1
  <2>2. CASE j # i
    <3>1. Stands(file[j], file[j], back, seen2, back2)
      BY <2>2, LeftRowStands
    <3>2. QED
      BY <1>3, <2>2, <3>1
  <2>3. QED
    BY <2>1, <2>2
<1>7. SoundContracts(new, next, seen2, back2)
  BY <1>5, <1>6, RewrittenContracts
<1>8. QED
  BY <1>7 DEF new

LEMMA RefreshedContractsAreSound ==
    ASSUME ContractsInv
    PROVE  SoundContracts(RefreshedContracts, nextContract, cancelledOnce, revived)
<1> DEFINE r == RefreshedContracts
<1>1. contracts \in Seq(ContractRows)
      /\ SoundContracts(contracts, nextContract, cancelledOnce, revived)
  BY DEF ContractsInv, SoundContracts
<1>2. DOMAIN contracts = 1 .. Len(contracts) /\ Len(contracts) \in Nat
  BY <1>1
<1>3. r = [i \in 1 .. Len(contracts) |->
             [contracts[i] EXCEPT !.status = ContractStatus(contracts[i])]]
  BY <1>2 DEF RefreshedContracts
<1>4. ASSUME NEW i \in 1 .. Len(contracts)
      PROVE  Stands(contracts[i], r[i], revived, cancelledOnce, revived)
  <2>1. contracts[i] \in ContractRows
    BY <1>1, <1>2
  <2>2. r[i] = [contracts[i] EXCEPT !.status = ContractStatus(contracts[i])]
    BY <1>3
  <2> HIDE DEF r
  <2>3. /\ r[i] \in ContractRows /\ r[i].status = ContractStatus(contracts[i])
        /\ r[i].id = contracts[i].id /\ r[i].vendor = contracts[i].vendor
        /\ r[i].category = contracts[i].category
    BY <2>1, <2>2, CancelledIsKept DEF ContractRows
  <2>4. Stands(contracts[i], contracts[i], revived, cancelledOnce, revived)
    BY <1>1, <1>2, LeftRowStands
  <2>5. QED
    BY <2>3, <2>4, CancelledIsKept DEF Stands, SameContract
<1> HIDE DEF r
<1>5. r \in Seq(ContractRows) /\ DOMAIN r = DOMAIN contracts
  <2>1. r \in [1 .. Len(contracts) -> ContractRows]
    BY <1>3, <1>4 DEF Stands
  <2>2. QED
    BY <1>2, <2>1
<1>6. SoundContracts(r, nextContract, cancelledOnce, revived)
  BY <1>1, <1>2, <1>4, <1>5, RewrittenContracts DEF ContractsInv
<1>7. QED
  BY <1>6 DEF r

(* What a correction may change, and what is known after it.               *)
LEMMA CorrectedRow ==
    ASSUME contracts \in Seq(ContractRows), contracts # <<>>, NEW c \in ContractRows,
           NEW change \in Corrections
    PROVE  /\ Corrected(c, change) \in ContractRows
           /\ Corrected(c, change).id = c.id
           /\ change = "cancelled" => Corrected(c, change).status = "cancelled"
<1>1. contracts[1] \in ContractRows
  OBVIOUS
<1>2. CASE change = "renamed"
  BY <1>1, <1>2 DEF Corrected, ContractRows
<1>3. CASE change # "renamed"
  <2>1. change \in {"cancelled", "active"}
    BY <1>3 DEF Corrections
  <2>2. QED
    BY <1>3, <2>1 DEF Corrected, ContractRows, Statuses
<1>4. QED
  BY <1>2, <1>3

LEMMA SeenAfterwards ==
    ASSUME NEW id, NEW change, NEW way \in BOOLEAN, SeenAs(id, change, way)
    PROVE  /\ \A x : x # id => /\ x \in cancelledOnce' <=> x \in cancelledOnce
                               /\ x \in revived' <=> x \in revived
           /\ change = "cancelled" \/ id \in revived'
           /\ \A x \in cancelledOnce' : x \in cancelledOnce \/ x = id
           /\ way => /\ revived \subseteq revived'
                     /\ cancelledOnce' \ revived' \subseteq cancelledOnce \ revived
<1>1. CASE change = "cancelled" /\ ~way
  BY <1>1 DEF SeenAs
<1>2. CASE change = "cancelled" /\ way
  BY <1>2 DEF SeenAs
<1>3. CASE change # "cancelled"
  BY <1>3 DEF SeenAs
<1>4. QED
  BY <1>1, <1>2, <1>3

LEMMA UpdateKeepsContracts ==
    ASSUME ContractsInv, NEW i, NEW change \in Corrections, UpdateContract(i, change)
    PROVE  ContractsInv'
<1> DEFINE c == Corrected(contracts[i], change)
           row == [c EXCEPT !.status = ContractStatus(c)]
           way == dashContracts # NoContractCopy
<1>1. /\ i \in DOMAIN contracts /\ contracts' = [contracts EXCEPT ![i] = row]
      /\ SeenAs(c.id, change, way)
      /\ nextContract' = nextContract /\ dashContracts' = dashContracts
  BY DEF UpdateContract
<1>2. /\ SoundContracts(contracts, nextContract, cancelledOnce, revived)
      /\ contracts \in Seq(ContractRows) /\ nextContract \in Nat
  BY DEF ContractsInv, SoundContracts
<1>3. contracts[i] \in ContractRows /\ contracts # <<>>
  BY <1>1, <1>2
<1>4. c \in ContractRows /\ c.id = contracts[i].id /\ (change = "cancelled" => c.status = "cancelled")
  BY <1>2, <1>3, CorrectedRow
<1> HIDE DEF c
<1>5. row \in ContractRows /\ row.id = contracts[i].id /\ row.status = ContractStatus(c)
  BY <1>4, CancelledIsKept DEF ContractRows
<1>6. change = "cancelled" => row.status = "cancelled"
  BY <1>4, <1>5, CancelledIsKept
<1> HIDE DEF row
<1>7. /\ \A x : x # contracts[i].id => /\ x \in cancelledOnce' <=> x \in cancelledOnce
                                       /\ x \in revived' <=> x \in revived
      /\ change = "cancelled" \/ contracts[i].id \in revived'
      /\ \A x \in cancelledOnce' : x \in cancelledOnce \/ x = contracts[i].id
      /\ way => /\ revived \subseteq revived'
                /\ cancelledOnce' \ revived' \subseteq cancelledOnce \ revived
  BY <1>1, <1>4, SeenAfterwards
<1>8. SoundContracts(contracts', nextContract, cancelledOnce', revived')
  <2>1. Stands(contracts[i], row, revived, cancelledOnce', revived')
    BY <1>5, <1>6, <1>7 DEF Stands
  <2>2. \A j \in DOMAIN contracts : j # i => contracts[j].id # contracts[i].id
    BY <1>1, <1>2 DEF SoundContracts
  <2>3. QED
    BY <1>1, <1>2, <1>7, <2>1, <2>2, OneContractRewritten
<1>9. dashContracts # NoContractCopy =>
        SoundContracts(dashContracts, nextContract, cancelledOnce', revived')
  BY <1>2, <1>7, SoundForMore DEF ContractsInv
<1>10. contracts[i].id \in Nat /\ contracts[i].id < nextContract
  BY <1>1, <1>2, <1>3 DEF ContractRows, SoundContracts
<1>11. \A x \in cancelledOnce' : x \in Nat /\ x < nextContract
  BY <1>7, <1>10 DEF ContractsInv
<1>12. QED
  BY <1>1, <1>2, <1>8, <1>9, <1>11 DEF ContractsInv

LEMMA DashboardKeepsContracts ==
    ASSUME ContractsInv, NEW i, NEW change \in Corrections, DashboardCorrects(i, change)
    PROVE  ContractsInv'
<1> DEFINE row == Corrected(dashContracts[i], change)
<1>1. /\ dashContracts # NoContractCopy /\ i \in DOMAIN dashContracts /\ contracts # <<>>
      /\ contracts' = [dashContracts EXCEPT ![i] = row]
      /\ SeenAs(dashContracts[i].id, change, FALSE)
      /\ nextContract' = nextContract /\ dashContracts' = NoContractCopy
  BY DEF DashboardCorrects
<1>2. /\ SoundContracts(dashContracts, nextContract, cancelledOnce, revived)
      /\ dashContracts \in Seq(ContractRows) /\ nextContract \in Nat
      /\ contracts \in Seq(ContractRows)
  BY <1>1 DEF ContractsInv, SoundContracts
<1>3. dashContracts[i] \in ContractRows
  BY <1>1, <1>2
<1>4. row \in ContractRows /\ row.id = dashContracts[i].id
      /\ (change = "cancelled" => row.status = "cancelled")
  BY <1>1, <1>2, <1>3, CorrectedRow
<1> HIDE DEF row
<1>5. /\ \A x : x # dashContracts[i].id => /\ x \in cancelledOnce' <=> x \in cancelledOnce
                                           /\ x \in revived' <=> x \in revived
      /\ change = "cancelled" \/ dashContracts[i].id \in revived'
      /\ \A x \in cancelledOnce' : x \in cancelledOnce \/ x = dashContracts[i].id
  BY <1>1, SeenAfterwards
<1>6. SoundContracts(contracts', nextContract, cancelledOnce', revived')
  <2>1. Stands(dashContracts[i], row, revived, cancelledOnce', revived')
    BY <1>4, <1>5 DEF Stands
  <2>2. \A j \in DOMAIN dashContracts : j # i => dashContracts[j].id # dashContracts[i].id
    BY <1>1, <1>2 DEF SoundContracts
  <2>3. QED
    BY <1>1, <1>2, <1>5, <2>1, <2>2, OneContractRewritten
<1>7. dashContracts[i].id \in Nat /\ dashContracts[i].id < nextContract
  BY <1>1, <1>2, <1>3 DEF ContractRows, SoundContracts
<1>8. \A x \in cancelledOnce' : x \in Nat /\ x < nextContract
  BY <1>5, <1>7 DEF ContractsInv
<1>9. QED
  BY <1>1, <1>2, <1>6, <1>8 DEF ContractsInv

LEMMA LetterKeepsContracts ==
    ASSUME ContractsInv, NEW paper \in Papers, NEW as, AddContract(as),
           as.name = paper.name, as.category \in CategoriesRead,
           as.ends \in Int \cup {NoDate}, as.renews \in Int \cup {NoDate}
    PROVE  ContractsInv'
<1> DEFINE c == Entry(as)
           i == Earliest(Running(c))
           updated == [contracts[i] EXCEPT !.ends = Given(c.ends, @), !.renews = Given(c.renews, @)]
           renewed == [updated EXCEPT !.status = ContractStatus(updated)]
           added == [c EXCEPT !.status = ContractStatus(c)]
<1>1. /\ \/ /\ Running(c) # {}
            /\ contracts' = [contracts EXCEPT ![i] = renewed]
            /\ nextContract' = nextContract
         \/ /\ Running(c) = {}
            /\ contracts' = Append(contracts, added)
            /\ nextContract' = nextContract + 1
      /\ dashContracts' = dashContracts /\ cancelledOnce' = cancelledOnce /\ revived' = revived
  BY DEF AddContract
<1>2. /\ SoundContracts(contracts, nextContract, cancelledOnce, revived)
      /\ contracts \in Seq(ContractRows) /\ nextContract \in Nat
      /\ \A id \in cancelledOnce : id \in Nat /\ id < nextContract
  BY DEF ContractsInv, SoundContracts
<1>3. c \in ContractRows /\ c.id = nextContract
  <2>1. Normalised(as.name, ContractAliases) \in {Normalised(p.name, ContractAliases) : p \in Papers}
    OBVIOUS
  <2>2. QED
    BY <1>2, <2>1 DEF Entry, ContractRows, Statuses
<1> HIDE DEF c
<1>4. ASSUME i \in DOMAIN contracts
      PROVE  Stands(contracts[i], renewed, revived, cancelledOnce, revived)
  <2>1. contracts[i] \in ContractRows
    BY <1>2, <1>4
  <2>2. /\ Given(c.ends, contracts[i].ends) \in Int \cup {NoDate}
        /\ Given(c.renews, contracts[i].renews) \in Int \cup {NoDate}
    BY <1>3, <2>1 DEF ContractRows, Given
  <2>3. /\ updated \in ContractRows /\ updated.id = contracts[i].id
        /\ updated.vendor = contracts[i].vendor /\ updated.category = contracts[i].category
        /\ updated.status = contracts[i].status
    BY <2>1, <2>2 DEF ContractRows
  <2> HIDE DEF updated
  <2>4. /\ renewed \in ContractRows /\ renewed.id = contracts[i].id
        /\ renewed.vendor = contracts[i].vendor /\ renewed.category = contracts[i].category
        /\ contracts[i].status = "cancelled" => renewed.status = "cancelled"
    BY <2>3, CancelledIsKept DEF ContractRows
  <2>5. Stands(contracts[i], contracts[i], revived, cancelledOnce, revived)
    BY <1>2, <1>4, LeftRowStands
  <2>6. QED
    BY <2>4, <2>5 DEF Stands, SameContract
<1>5. CASE nextContract' = nextContract /\ contracts' = [contracts EXCEPT ![i] = renewed]
  <2> HIDE DEF i, renewed
  <2>1. SoundContracts(contracts', nextContract, cancelledOnce, revived)
    BY <1>2, <1>4, <1>5, OneContractRewritten
  <2>2. QED
    BY <1>1, <1>2, <1>5, <2>1 DEF ContractsInv
<1>6. CASE /\ Running(c) = {} /\ contracts' = Append(contracts, added)
           /\ nextContract' = nextContract + 1
  <2>1. /\ added \in ContractRows /\ added.id = nextContract
        /\ added.vendor = c.vendor /\ added.category = c.category
    BY <1>3, CancelledIsKept DEF ContractRows
  <2> HIDE DEF added
  <2>2. /\ Len(contracts) \in Nat /\ DOMAIN contracts = 1 .. Len(contracts)
        /\ DOMAIN contracts' = 1 .. Len(contracts) + 1 /\ contracts' \in Seq(ContractRows)
        /\ \A k \in 1 .. Len(contracts) : contracts'[k] = contracts[k]
        /\ contracts'[Len(contracts) + 1] = added
    BY <1>2, <1>6, <2>1
  <2>3. \A k \in 1 .. Len(contracts) : contracts[k].id \in Nat /\ contracts[k].id < nextContract
    <3>1. \A k \in 1 .. Len(contracts) : contracts[k] \in ContractRows
      BY <1>2
    <3>2. QED
      BY <1>2, <2>2, <3>1 DEF SoundContracts, ContractRows
  <2>4. \A k \in 1 .. Len(contracts) :
           SameContract(contracts[k], added) \/ SameContract(added, contracts[k])
             => contracts[k].status = "cancelled"
    BY <1>6, <2>1, <2>2 DEF Running, SameContract
  <2>5. SoundContracts(contracts', nextContract', cancelledOnce, revived)
    <3>1. \A k \in DOMAIN contracts' : contracts'[k].id < nextContract'
      BY <1>2, <1>6, <2>1, <2>2, <2>3
    <3>2. ASSUME NEW k \in DOMAIN contracts', NEW m \in DOMAIN contracts',
                 contracts'[k].id = contracts'[m].id
          PROVE  k = m
      <4>1. CASE k \in 1 .. Len(contracts) /\ m \in 1 .. Len(contracts)
        BY <1>2, <2>2, <3>2, <4>1 DEF SoundContracts
      <4>2. \A n \in 1 .. Len(contracts) : contracts'[n].id # contracts'[Len(contracts) + 1].id
        BY <1>2, <2>1, <2>2, <2>3
      <4>3. QED
        BY <2>2, <3>2, <4>1, <4>2
    <3>3. ASSUME NEW k \in DOMAIN contracts', contracts'[k].id \in cancelledOnce \ revived
          PROVE  contracts'[k].status = "cancelled"
      <4>1. k \in 1 .. Len(contracts)
        BY <1>2, <2>1, <2>2, <3>3
      <4>2. QED
        BY <1>2, <2>2, <3>3, <4>1 DEF SoundContracts
    <3>4. ASSUME NEW k \in DOMAIN contracts', NEW m \in DOMAIN contracts', k # m,
                 SameContract(contracts'[k], contracts'[m]),
                 contracts'[k].id \notin revived, contracts'[m].id \notin revived
          PROVE  contracts'[k].status = "cancelled" \/ contracts'[m].status = "cancelled"
      <4>1. CASE k \in 1 .. Len(contracts) /\ m \in 1 .. Len(contracts)
        BY <1>2, <2>2, <3>4, <4>1 DEF SoundContracts
      <4>2. CASE k = Len(contracts) + 1
        BY <2>2, <2>4, <3>4, <4>2
      <4>3. CASE m = Len(contracts) + 1
        BY <2>2, <2>4, <3>4, <4>3
      <4>4. QED
        BY <2>2, <4>1, <4>2, <4>3
    <3>5. QED
      BY <2>2, <3>1, <3>2, <3>3, <3>4 DEF SoundContracts
  <2>6. dashContracts # NoContractCopy =>
          SoundContracts(dashContracts, nextContract + 1, cancelledOnce, revived)
    BY <1>2, SoundForMore DEF ContractsInv
  <2>7. QED
    BY <1>1, <1>2, <1>6, <2>5, <2>6 DEF ContractsInv
<1>7. QED
  BY <1>1, <1>5, <1>6

(***************************************************************************)
(* A cancelled contract stays cancelled until somebody corrects it, and no *)
(* vendor has two running contracts of one category unless a correction    *)
(* revived one: for any papers, aliases and dates, and beside a second     *)
(* process that rewrites the file.                                         *)
(***************************************************************************)
THEOREM CancelledStaysCancelled == ContractsSpec => []CancelledForGood
<1>1. ContractsInit => ContractsInv
  BY DEF ContractsInit, ContractsInv, SoundContracts
<1>2. ContractsInv /\ [ContractsNext]_contractVars => ContractsInv'
  <2> SUFFICES ASSUME ContractsInv, [ContractsNext]_contractVars PROVE ContractsInv'
    OBVIOUS
  <2>1. ASSUME NEW paper \in Papers
        PROVE  /\ paper.category \in CategoriesRead
               /\ paper.ends \in Int \cup {NoDate} /\ paper.renews \in Int \cup {NoDate}
    BY PapersAssumption DEF CategoriesRead
  <2>2. ASSUME NEW paper \in Papers, Detected(paper) # Nothing, AddContract(Detected(paper))
        PROVE  ContractsInv'
    <3> DEFINE category == IF paper.category \in Categories THEN paper.category ELSE "other"
               as == [paper EXCEPT !.category = category]
    <3>1. Detected(paper) = as
      BY <2>2 DEF Detected
    <3>2. category \in CategoriesRead
      BY DEF CategoriesRead
    <3> HIDE DEF category
    <3>3. paper \in [type : {"bill", "contract", "neither"},
                     signs : SUBSET {"sender", "subject", "opening"},
                     name : STRING, category : STRING, paid : BOOLEAN,
                     invoice : STRING \cup {NoDate}, period : Int \cup {NoDate},
                     due : Int \cup {NoDate}, ends : Int \cup {NoDate},
                     renews : Int \cup {NoDate}]
      BY PapersAssumption
    <3>4. /\ as.name = paper.name /\ as.category \in CategoriesRead
          /\ as.ends \in Int \cup {NoDate} /\ as.renews \in Int \cup {NoDate}
      BY <3>2, <3>3
    <3> HIDE DEF as
    <3>5. QED
      BY <2>2, <3>1, <3>4, LetterKeepsContracts
  <2>3. ASSUME NEW paper \in Papers, ContractArrives(paper) PROVE ContractsInv'
    <3>1. Detected(paper) # Nothing /\ AddContract(Detected(paper))
      BY <2>3 DEF ContractArrives, FromPdf, FromEmail
    <3>2. QED
      BY <2>2, <3>1
  <2>4. ASSUME NEW paper \in Papers, OwnerAddsContract(paper) PROVE ContractsInv'
    BY <2>1, <2>4, LetterKeepsContracts DEF OwnerAddsContract
  <2>5. CASE ListContracts
    BY <2>5, RefreshedContractsAreSound DEF ListContracts, ContractsInv
  <2>6. CASE CheckExpiringContracts
    BY <2>6, RefreshedContractsAreSound DEF CheckExpiringContracts, ContractsInv
  <2>7. ASSUME NEW i, NEW change \in Corrections, UpdateContract(i, change) PROVE ContractsInv'
    BY <2>7, UpdateKeepsContracts
  <2>8. ASSUME NEW i, NEW change \in Corrections, DashboardCorrects(i, change) PROVE ContractsInv'
    BY <2>8, DashboardKeepsContracts
  <2>9. ASSUME NEW i, DashboardUndone(i) PROVE ContractsInv'
    <3>1. /\ revived \subseteq revived' /\ cancelledOnce' = cancelledOnce
          /\ contracts' = contracts /\ nextContract' = nextContract
          /\ dashContracts' = NoContractCopy
      BY <2>9 DEF DashboardUndone
    <3>2. SoundContracts(contracts, nextContract, cancelledOnce', revived')
      BY <3>1, SoundForMore DEF ContractsInv
    <3>3. QED
      BY <3>1, <3>2 DEF ContractsInv
  <2>10. CASE DashboardReadsContracts
    BY <2>10 DEF DashboardReadsContracts, ContractsInv
  <2>11. CASE ContractDayPasses
    BY <2>11 DEF ContractDayPasses, ContractsInv
  <2>12. CASE ContractsTorn
    <3>1. SoundContracts(<<>>, nextContract, cancelledOnce, revived)
      BY DEF SoundContracts
    <3>2. QED
      BY <2>12, <3>1 DEF ContractsTorn, ContractsInv
  <2>13. CASE UNCHANGED contractVars
    BY <2>13 DEF contractVars, ContractsInv
  <2>14. QED
    BY <2>3, <2>4, <2>5, <2>6, <2>7, <2>8, <2>9, <2>10, <2>11, <2>12, <2>13 DEF ContractsNext
<1>3. ContractsInv => CancelledForGood
  BY DEF ContractsInv, SoundContracts, CancelledForGood
<1>4. QED
  BY <1>1, <1>2, <1>3, PTL DEF ContractsSpec

(***************************************************************************)
(* What was settled in either book stays settled.                          *)
(***************************************************************************)
THEOREM SettledForGood == BillsSpec /\ ContractsSpec => []SettledStaysSettled
<1>1. PaidOnceForAll /\ CancelledForGood => SettledStaysSettled
  BY DEF SettledStaysSettled
<1>2. QED
  BY <1>1, PaidBillsStayPaid, CancelledStaysCancelled, PTL

-----------------------------------------------------------------------------
(* The book of contacts *)

BookRow ==
    [key : Keys, name : PersonNames, aliases : SUBSET PersonNames,
     phone : Numbers \cup {NoPhone}]

\* A list of rows with a key each of its own.
Keyed(rows) ==
    /\ rows \in Seq(BookRow)
    /\ \A i, j \in DOMAIN rows : rows[i].key = rows[j].key => i = j

\* A row is its person's: every name in it is one the person goes by, and the
\* number is the person's, unless it took in a namesake's; a row without a
\* number is one the owner entered, under a single name.
Named(e, mix) ==
    \/ Person(e) = NoPhone
    \/ Person(e) \in mix
    \/ NamesOf(e) \subseteq KnownAs(Person(e)) /\ e.phone = Person(e)

Belongs(e, mix) ==
    /\ Named(e, mix)
    /\ e.phone = NoPhone => e.key \notin Chats /\ e.aliases = {}

\* No number stands in the book twice.
Numbered(S) == \A e, f \in S : e.phone = f.phone /\ e.phone # NoPhone => e = f

SoundBook(rows, mix) ==
    /\ Keyed(rows)
    /\ \A e \in Range(rows) : Belongs(e, mix)
    /\ Numbered(Range(rows))

BookInv ==
    /\ SoundBook(book, mixed)
    /\ \A g \in grants : NumberOf[g[1]] \in trusted
    /\ misled = {}

LEMMA ReplacedRow ==
    ASSUME NEW rows, Keyed(rows), NEW i \in DOMAIN rows, NEW entry \in BookRow,
           entry.key = rows[i].key
    PROVE  /\ Keyed([rows EXCEPT ![i] = entry])
           /\ Range([rows EXCEPT ![i] = entry]) = {e \in Range(rows) : e.key # entry.key} \cup {entry}
<1> DEFINE new == [rows EXCEPT ![i] = entry]
<1>1. rows \in Seq(BookRow) /\ \A j, k \in DOMAIN rows : rows[j].key = rows[k].key => j = k
  BY DEF Keyed
<1>2. new \in Seq(BookRow) /\ DOMAIN new = DOMAIN rows
      /\ \A j \in DOMAIN rows : new[j] = IF j = i THEN entry ELSE rows[j]
  BY <1>1
<1> HIDE DEF new
<1>3. \A j \in DOMAIN rows : new[j].key = rows[j].key
  BY <1>2
<1>4. Keyed(new)
  BY <1>1, <1>2, <1>3 DEF Keyed
<1>5. ASSUME NEW e \in Range(new) PROVE e = entry \/ (e \in Range(rows) /\ e.key # entry.key)
  <2>1. PICK j \in DOMAIN rows : e = new[j]
    BY <1>2 DEF Range
  <2>2. j # i => e = rows[j] /\ e.key # entry.key
    BY <1>1, <1>2, <2>1
  <2>3. QED
    BY <1>2, <2>1, <2>2 DEF Range
<1>6. ASSUME NEW e \in Range(rows), e.key # entry.key PROVE e \in Range(new)
  <2>1. PICK j \in DOMAIN rows : e = rows[j]
    BY DEF Range
  <2>2. new[j] = e
    BY <1>2, <1>6, <2>1
  <2>3. QED
    BY <1>2, <2>2 DEF Range
<1>7. entry \in Range(new)
  BY <1>2 DEF Range
<1>8. QED
  BY <1>4, <1>5, <1>6, <1>7 DEF new

LEMMA PutRow ==
    ASSUME NEW rows, Keyed(rows), NEW entry \in BookRow
    PROVE  /\ Keyed(Put(rows, entry))
           /\ Range(Put(rows, entry)) = {e \in Range(rows) : e.key # entry.key} \cup {entry}
<1>1. rows \in Seq(BookRow) /\ \A j, k \in DOMAIN rows : rows[j].key = rows[k].key => j = k
  BY DEF Keyed
<1>2. ASSUME NEW i \in DOMAIN rows, rows[i].key = entry.key
      PROVE  Put(rows, entry) = [rows EXCEPT ![i] = entry]
  <2>1. Put(rows, entry)
          = [j \in DOMAIN rows |-> IF rows[j].key = entry.key THEN entry ELSE rows[j]]
    BY <1>2 DEF Put
  <2>2. \A j \in DOMAIN rows : rows[j].key = entry.key <=> j = i
    BY <1>1, <1>2
  <2>3. Put(rows, entry) = [j \in DOMAIN rows |-> IF j = i THEN entry ELSE rows[j]]
    BY <2>1, <2>2
  <2>4. QED
    BY <2>3
<1>3. CASE \E i \in DOMAIN rows : rows[i].key = entry.key
  BY <1>2, <1>3, ReplacedRow
<1>4. CASE \A i \in DOMAIN rows : rows[i].key # entry.key
  <2> DEFINE new == Append(rows, entry)
  <2>1. Put(rows, entry) = new
    BY <1>4 DEF Put
  <2>2. /\ Len(rows) \in Nat /\ DOMAIN rows = 1 .. Len(rows) /\ DOMAIN new = 1 .. Len(rows) + 1
        /\ new \in Seq(BookRow) /\ new[Len(rows) + 1] = entry
        /\ \A i \in 1 .. Len(rows) : new[i] = rows[i]
    BY <1>1
  <2> HIDE DEF new
  <2>3. Keyed(new)
    <3> SUFFICES ASSUME NEW i \in DOMAIN new, NEW j \in DOMAIN new, new[i].key = new[j].key
                 PROVE  i = j
      BY <2>2 DEF Keyed
    <3>1. CASE i \in 1 .. Len(rows) /\ j \in 1 .. Len(rows)
      BY <1>1, <2>2, <3>1
    <3>2. CASE i \in 1 .. Len(rows) /\ j = Len(rows) + 1
      BY <1>4, <2>2, <3>2
    <3>3. CASE i = Len(rows) + 1 /\ j \in 1 .. Len(rows)
      BY <1>4, <2>2, <3>3
    <3>4. QED
      BY <2>2, <3>1, <3>2, <3>3
  <2>4. Range(new) = Range(rows) \cup {entry}
    BY <2>2 DEF Range
  <2>5. \A e \in Range(rows) : e.key # entry.key
    BY <1>4 DEF Range
  <2>6. QED
    BY <2>1, <2>3, <2>4, <2>5
<1>5. QED
  BY <1>3, <1>4

LEMMA WithoutRow ==
    ASSUME NEW rows, Keyed(rows), NEW key
    PROVE  /\ Keyed(Without(rows, key))
           /\ Range(Without(rows, key)) = {e \in Range(rows) : e.key # key}
<1> DEFINE S == {e \in {rows[i] : i \in DOMAIN rows} : e.key # key}
           new == Keep(rows, S)
<1>1. rows \in Seq(BookRow) /\ \A j, k \in DOMAIN rows : rows[j].key = rows[k].key => j = k
  BY DEF Keyed
<1> HIDE DEF S
<1>2. /\ new \in Seq(BookRow) /\ Range(new) = Range(rows) \cap S
      /\ \A j, k \in DOMAIN new : new[j] = new[k] => j = k
  BY <1>1, KeptOnce
<1> HIDE DEF new
<1>3. ASSUME NEW j \in DOMAIN new, NEW k \in DOMAIN new, new[j].key = new[k].key PROVE j = k
  <2>1. new[j] \in Range(rows) /\ new[k] \in Range(rows)
    BY <1>2 DEF Range
  <2>2. new[j] = new[k]
    BY <1>1, <1>3, <2>1 DEF Range
  <2>3. QED
    BY <1>2, <2>2
<1>4. Range(new) = {e \in Range(rows) : e.key # key}
  BY <1>2 DEF S, Range
<1>5. Keyed(new)
  BY <1>2, <1>3 DEF Keyed
<1>6. QED
  BY <1>4, <1>5 DEF new, S, Without

(* One row put in, some taken out, none left with its number.              *)
LEMMA BookStep ==
    ASSUME NEW rows, NEW mix, NEW mix2, SoundBook(rows, mix), mix \subseteq mix2,
           NEW new, Keyed(new), NEW entry, Belongs(entry, mix2),
           \A e \in Range(new) : e = entry \/
              (e \in Range(rows) /\ (entry.phone = NoPhone \/ e.phone # entry.phone))
    PROVE  SoundBook(new, mix2)
<1>1. ASSUME NEW e \in Range(new) PROVE Belongs(e, mix2)
  BY DEF SoundBook, Belongs, Named
<1>2. Numbered(Range(new))
  BY DEF SoundBook, Numbered
<1>3. QED
  BY <1>1, <1>2 DEF SoundBook

(* The first index of those found is one of them.                          *)
LEMMA FirstIsIn ==
    ASSUME NEW S \in SUBSET Nat, IsFiniteSet(S), S # {}
    PROVE  FirstIn(S) \in S
<1> DEFINE key == [m \in S |-> m]
<1>1. \A m \in S : key[m] = m
  OBVIOUS
<1> HIDE DEF key
<1>2. \A m \in S : key[m] \in Int
  BY <1>1
<1>3. PICK k \in S : \A j \in S : ~ (key[j] < key[k])
  BY <1>2, SmallestKey
<1>4. \A j \in S : k <= j
  BY <1>1, <1>3
<1>5. QED
  BY <1>4 DEF FirstIn

LEMMA FirstOfBook ==
    ASSUME BookInv, NEW S \in SUBSET DOMAIN book, S # {}
    PROVE  FirstIn(S) \in S /\ FirstIn(S) \in DOMAIN book /\ book[FirstIn(S)] \in Range(book)
           /\ book[FirstIn(S)] \in BookRow
<1>1. book \in Seq(BookRow)
  BY DEF BookInv, SoundBook, Keyed
<1>2. DOMAIN book = 1 .. Len(book) /\ Len(book) \in Nat /\ IsFiniteSet(1 .. Len(book))
  BY <1>1, FS_Interval
<1>3. S \in SUBSET Nat /\ IsFiniteSet(S)
  BY <1>2, FS_Subset
<1>4. FirstIn(S) \in S
  BY <1>3, FirstIsIn
<1>5. QED
  BY <1>1, <1>4 DEF Range

LEMMA CalledByItsName ==
    ASSUME NEW chat \in Chats, NEW name \in PushNames[chat]
    PROVE  /\ name \in KnownAs(NumberOf[chat]) /\ name \in PersonNames
           /\ NumberOf[chat] # NoPhone /\ NumberOf[chat] \in Numbers /\ chat \in Keys
  BY BookAssumption DEF KnownAs, Numbers, Keys

LEMMA CardNames ==
    ASSUME NEW card \in Cards
    PROVE  /\ card[1] \in PersonNames /\ card[2] \in Numbers \cup {NoPhone}
           /\ card[1] \in KnownAs(card[2])
           /\ Manual(card[2]) \in Keys /\ Manual(card[2]) \notin Chats
<1>1. card \in PersonNames \X (Numbers \cup {NoPhone})
  BY BookAssumption
<1>2. card[1] \in PersonNames /\ card[2] \in Numbers \cup {NoPhone}
  BY <1>1
<1>3. Manual(card[2]) \in Keys /\ Manual(card[2]) \notin Chats
  BY <1>2, BookAssumption DEF Keys
<1>4. card[1] \in KnownAs(card[2])
  <2>1. card = <<card[1], card[2]>>
    BY <1>1
  <2>2. QED
    BY <1>2, <2>1 DEF KnownAs
<1>5. QED
  BY <1>2, <1>3, <1>4

LEMMA MergedBelongs ==
    ASSUME NEW chat \in Chats, NEW name \in PushNames[chat], NEW base \in BookRow,
           NEW dup \in BookRow, NEW mix, NEW mix2, mix \subseteq mix2,
           Belongs(base, mix), Belongs(dup, mix), base.phone # NoPhone,
           base = dup \/ Person(base) = NumberOf[chat],
           dup.phone # NoPhone,
           Person(dup) = NumberOf[chat] \/ NumberOf[chat] \in mix2
    PROVE  LET entry == [key |-> chat, name |-> base.name, phone |-> base.phone,
                         aliases |-> (base.aliases \cup NamesOf(dup) \cup {name}) \ {base.name}]
           IN  entry \in BookRow /\ Belongs(entry, mix2)
<1> DEFINE entry == [key |-> chat, name |-> base.name, phone |-> base.phone,
                     aliases |-> (base.aliases \cup NamesOf(dup) \cup {name}) \ {base.name}]
<1>1. /\ name \in KnownAs(NumberOf[chat]) /\ name \in PersonNames /\ chat \in Keys
      /\ NumberOf[chat] # NoPhone
  BY CalledByItsName
<1>2. /\ base.name \in PersonNames /\ base.aliases \subseteq PersonNames
      /\ base.phone \in Numbers \cup {NoPhone} /\ NamesOf(dup) \subseteq PersonNames
  BY DEF BookRow, NamesOf
<1>3. entry \in BookRow
  BY <1>1, <1>2 DEF BookRow
<1>4. /\ Person(entry) = NumberOf[chat] /\ entry.phone = base.phone
      /\ NamesOf(entry) = NamesOf(base) \cup NamesOf(dup) \cup {name}
  BY DEF Person, NamesOf
<1> HIDE DEF entry
<1>5. ASSUME NumberOf[chat] \in mix2 PROVE Named(entry, mix2)
  BY <1>4, <1>5 DEF Named
<1>6. ASSUME NumberOf[chat] \notin mix2 PROVE Named(entry, mix2)
  <2>1. Person(dup) = NumberOf[chat] /\ Person(base) = NumberOf[chat]
    BY <1>6
  <2>2. /\ NamesOf(dup) \subseteq KnownAs(NumberOf[chat])
        /\ NamesOf(base) \subseteq KnownAs(NumberOf[chat]) /\ base.phone = NumberOf[chat]
    BY <1>1, <1>6, <2>1 DEF Belongs, Named
  <2>3. NamesOf(entry) \subseteq KnownAs(Person(entry)) /\ entry.phone = Person(entry)
    BY <1>1, <1>4, <2>2
  <2>4. QED
    BY <2>3 DEF Named
<1>7. entry.phone # NoPhone
  BY <1>4
<1>8. Belongs(entry, mix2)
  BY <1>5, <1>6, <1>7 DEF Belongs
<1>9. QED
  BY <1>3, <1>8 DEF entry

LEMMA MergedIsSound ==
    ASSUME BookInv, NEW chat \in Chats, NEW name \in PushNames[chat],
           NEW dup \in Range(book), dup.key # chat, dup.phone # NoPhone,
           NEW mix2, mixed \subseteq mix2,
           Person(dup) = NumberOf[chat] \/ NumberOf[chat] \in mix2
    PROVE  SoundBook(Merged(chat, name, dup), mix2)
<1> DEFINE base == IF At(chat) = {} THEN dup ELSE book[FirstIn(At(chat))]
           entry == [key |-> chat, name |-> base.name, phone |-> base.phone,
                     aliases |-> (base.aliases \cup NamesOf(dup) \cup {name}) \ {base.name}]
           new == Merged(chat, name, dup)
<1>1. SoundBook(book, mixed) /\ Keyed(book) /\ book \in Seq(BookRow)
  BY DEF BookInv, SoundBook, Keyed
<1>2. \A e \in Range(book) : e \in BookRow /\ Belongs(e, mixed)
  BY <1>1 DEF SoundBook, Range
<1>3. /\ base \in Range(book) /\ base.phone # NoPhone
      /\ base = dup \/ (base.key = chat /\ Person(base) = NumberOf[chat])
  <2>1. CASE At(chat) = {}
    BY <2>1
  <2>2. CASE At(chat) # {}
    <3>1. At(chat) \in SUBSET DOMAIN book
      BY DEF At
    <3>2. FirstIn(At(chat)) \in At(chat) /\ base \in Range(book)
      BY <2>2, <3>1, FirstOfBook
    <3>3. base.key = chat
      BY <2>2, <3>2 DEF At
    <3>4. Person(base) = NumberOf[chat] /\ base.phone # NoPhone
      BY <1>2, <3>2, <3>3 DEF Person, Belongs
    <3>5. QED
      BY <3>2, <3>3, <3>4
  <2>3. QED
    BY <2>1, <2>2
<1>4. new = Without(Put(book, entry), dup.key)
  BY DEF Merged
<1> HIDE DEF base
<1>5. entry \in BookRow /\ Belongs(entry, mix2)
  BY <1>2, <1>3, MergedBelongs
<1>6. entry.key = chat /\ entry.phone = base.phone
  OBVIOUS
<1> HIDE DEF entry, new
<1>7. /\ Keyed(Put(book, entry))
      /\ Range(Put(book, entry)) = {e \in Range(book) : e.key # entry.key} \cup {entry}
  BY <1>1, <1>5, PutRow
<1>8. Keyed(new) /\ Range(new) = {e \in Range(Put(book, entry)) : e.key # dup.key}
  BY <1>4, <1>7, WithoutRow
<1>9. ASSUME NEW e \in Range(new), e # entry PROVE e \in Range(book) /\ e.phone # entry.phone
  <2>1. e \in Range(book) /\ e.key # chat /\ e.key # dup.key
    BY <1>6, <1>7, <1>8, <1>9
  <2>2. e # base
    BY <1>3, <2>1
  <2>3. QED
    BY <1>1, <1>3, <1>6, <2>1, <2>2 DEF SoundBook, Numbered
<1>10. SoundBook(new, mix2)
  BY <1>1, <1>5, <1>8, <1>9, BookStep
<1>11. QED
  BY <1>10 DEF new

(* A row in the place of one with the same key and number.                 *)
LEMMA AmendedIsSound ==
    ASSUME BookInv, NEW i \in DOMAIN book, NEW entry \in BookRow, entry.key = book[i].key,
           NEW mix2, mixed \subseteq mix2, Belongs(entry, mix2),
           \A e \in Range(book) : e.key # entry.key => entry.phone = NoPhone \/ e.phone # entry.phone
    PROVE  SoundBook([book EXCEPT ![i] = entry], mix2)
<1>1. SoundBook(book, mixed) /\ Keyed(book)
  BY DEF BookInv, SoundBook
<1> DEFINE new == [book EXCEPT ![i] = entry]
<1>2. Keyed(new) /\ Range(new) = {e \in Range(book) : e.key # entry.key} \cup {entry}
  BY <1>1, ReplacedRow
<1> HIDE DEF new
<1>3. SoundBook(new, mix2)
  BY <1>1, <1>2, BookStep
<1>4. QED
  BY <1>3 DEF new

LEMMA BookFacts ==
    ASSUME BookInv
    PROVE  /\ SoundBook(book, mixed) /\ Keyed(book) /\ book \in Seq(BookRow)
           /\ \A e \in Range(book) : e \in BookRow /\ Belongs(e, mixed)
           /\ \A i \in DOMAIN book : book[i] \in Range(book) /\ book[i] \in BookRow
           /\ \A e, f \in Range(book) : e.key = f.key \/ (e.phone = f.phone /\ e.phone # NoPhone) => e = f
<1>1. SoundBook(book, mixed) /\ Keyed(book) /\ book \in Seq(BookRow)
  BY DEF BookInv, SoundBook, Keyed
<1>2. \A i \in DOMAIN book : book[i] \in Range(book) /\ book[i] \in BookRow
  BY <1>1 DEF Range
<1>3. \A e \in Range(book) : e \in BookRow /\ Belongs(e, mixed)
  BY <1>1, <1>2 DEF SoundBook, Range
<1>4. \A e, f \in Range(book) : e.key = f.key => e = f
  BY <1>1 DEF Keyed, Range
<1>5. \A e, f \in Range(book) : e.phone = f.phone /\ e.phone # NoPhone => e = f
  BY <1>1 DEF SoundBook, Numbered
<1>6. QED
  BY <1>1, <1>2, <1>3, <1>4, <1>5

LEMMA NameAddedIsSound ==
    ASSUME BookInv, NEW chat \in Chats, NEW name \in PushNames[chat],
           NEW i \in DOMAIN book, book[i].phone # NoPhone, NEW mix2, mixed \subseteq mix2,
           Person(book[i]) = NumberOf[chat] \/ Person(book[i]) \in mix2
    PROVE  SoundBook(NameAdded(i, name), mix2)
<1> DEFINE row == book[i]
           entry == [row EXCEPT !.aliases = @ \cup {name}]
<1>1. /\ SoundBook(book, mixed) /\ book \in Seq(BookRow)
      /\ row \in Range(book) /\ row \in BookRow /\ Belongs(row, mixed)
      /\ \A e, f \in Range(book) : e.key = f.key \/ (e.phone = f.phone /\ e.phone # NoPhone) => e = f
  BY BookFacts
<1>2. CASE name \in NamesOf(row)
  <2>1. \A e \in Range(book) : Belongs(e, mix2)
    BY <1>1 DEF SoundBook, Belongs, Named
  <2>2. QED
    BY <1>1, <1>2, <2>1 DEF NameAdded, SoundBook
<1>3. CASE name \notin NamesOf(row)
  <2>1. name \in KnownAs(NumberOf[chat]) /\ name \in PersonNames
    BY CalledByItsName
  <2>2. /\ row.key \in Keys /\ row.name \in PersonNames /\ row.aliases \subseteq PersonNames
        /\ row.phone \in Numbers \cup {NoPhone}
    BY <1>1 DEF BookRow
  <2>3. entry \in BookRow
    BY <1>1, <2>1, <2>2 DEF BookRow
  <2>4. /\ entry.key = row.key /\ entry.phone = row.phone
        /\ entry.name = row.name /\ entry.aliases = row.aliases \cup {name}
    BY <1>1 DEF BookRow
  <2>5. NameAdded(i, name) = [book EXCEPT ![i] = entry]
    BY <1>1, <1>3 DEF NameAdded
  <2> HIDE DEF entry
  <2>6. Person(entry) = Person(row) /\ NamesOf(entry) = NamesOf(row) \cup {name}
    BY <2>4 DEF Person, NamesOf
  <2>7. Named(entry, mix2)
    BY <1>1, <2>1, <2>4, <2>6 DEF Belongs, Named
  <2>8. Belongs(entry, mix2)
    BY <1>1, <2>4, <2>7 DEF Belongs
  <2>9. \A e \in Range(book) : e.key # entry.key => entry.phone = NoPhone \/ e.phone # entry.phone
    BY <1>1, <2>4
  <2>10. SoundBook([book EXCEPT ![i] = entry], mix2)
    BY <2>3, <2>4, <2>8, <2>9, AmendedIsSound
  <2>11. QED
    BY <2>5, <2>10
<1>4. QED
  BY <1>2, <1>3

LEMMA EnteredIsSound ==
    ASSUME BookInv, NEW chat \in Chats, NEW name \in PushNames[chat], NEW resolved \in BOOLEAN,
           At(chat) # {} \/ resolved, Duplicates(chat, name, resolved) = {}
    PROVE  SoundBook(Entered(chat, name, resolved), mixed)
<1>1. /\ SoundBook(book, mixed) /\ Keyed(book) /\ book \in Seq(BookRow)
      /\ \A e \in Range(book) : e \in BookRow /\ Belongs(e, mixed)
      /\ \A e, f \in Range(book) : e.key = f.key \/ (e.phone = f.phone /\ e.phone # NoPhone) => e = f
  BY BookFacts
<1>2. /\ name \in KnownAs(NumberOf[chat]) /\ name \in PersonNames /\ chat \in Keys
      /\ NumberOf[chat] # NoPhone /\ NumberOf[chat] \in Numbers
  BY CalledByItsName
<1>3. resolved => \A e \in Range(book) : e.key # chat => e.phone # NumberOf[chat]
  BY <1>2 DEF Duplicates, Range
<1>4. CASE At(chat) = {}
  <2> DEFINE entry == [key |-> chat, name |-> name, aliases |-> {}, phone |-> NumberOf[chat]]
             new == Append(book, entry)
  <2>1. \A j \in DOMAIN book : book[j].key # chat
    BY <1>4 DEF At
  <2>2. entry \in BookRow
    BY <1>2 DEF BookRow
  <2>3. new = Put(book, entry) /\ new = Entered(chat, name, resolved)
    BY <1>4, <2>1 DEF Put, Entered
  <2>4. entry.key = chat /\ entry.phone = NumberOf[chat] /\ Person(entry) = NumberOf[chat] /\ NamesOf(entry) = {name}
    BY DEF Person, NamesOf
  <2> HIDE DEF entry, new
  <2>5. Keyed(new) /\ Range(new) = {e \in Range(book) : e.key # entry.key} \cup {entry}
    <3>1. /\ Keyed(Put(book, entry))
          /\ Range(Put(book, entry)) = {e \in Range(book) : e.key # entry.key} \cup {entry}
      BY <1>1, <2>2, PutRow
    <3>2. QED
      BY <2>3, <3>1, Zenon
  <2>6. Belongs(entry, mixed)
    BY <1>2, <2>4 DEF Belongs, Named
  <2>7. \A e \in Range(new) : e = entry \/ (e \in Range(book) /\ e.phone # entry.phone)
    BY <1>3, <1>4, <2>4, <2>5
  <2>8. SoundBook(new, mixed)
    BY <1>1, <2>5, <2>6, <2>7, BookStep
  <2>9. QED
    BY <2>3, <2>8
<1>5. CASE At(chat) # {}
  <2> DEFINE i == FirstIn(At(chat))
             row == book[i]
             entry == [key |-> chat, name |-> row.name,
                       aliases |-> (row.aliases \cup {name}) \ {row.name},
                       phone |-> IF resolved THEN NumberOf[chat] ELSE row.phone]
  <2>1. At(chat) \in SUBSET DOMAIN book
    BY DEF At
  <2>2. i \in At(chat) /\ i \in DOMAIN book /\ row \in Range(book) /\ row \in BookRow
    BY <1>5, <2>1, FirstOfBook
  <2>3. row.key = chat
    BY <2>2 DEF At
  <2>4. Entered(chat, name, resolved)
          = [book EXCEPT ![i].aliases = (@ \cup {name}) \ {book[i].name},
                         ![i].phone = IF resolved THEN NumberOf[chat] ELSE @]
    BY <1>5 DEF Entered
  <2> HIDE DEF i
  <2>5. Entered(chat, name, resolved) = [book EXCEPT ![i] = entry]
    BY <1>1, <2>2, <2>3, <2>4 DEF BookRow
  <2>6. /\ row.name \in PersonNames /\ row.aliases \subseteq PersonNames
        /\ row.phone \in Numbers \cup {NoPhone}
    BY <2>2 DEF BookRow
  <2>7. entry \in BookRow
    BY <1>2, <2>6 DEF BookRow
  <2>8. Person(row) = NumberOf[chat] /\ row.phone # NoPhone /\ Named(row, mixed)
    BY <1>1, <2>2, <2>3 DEF Belongs, Person
  <2>9. /\ entry.key = chat /\ Person(entry) = NumberOf[chat]
        /\ NamesOf(entry) = NamesOf(row) \cup {name}
        /\ entry.phone = NumberOf[chat] \/ (~resolved /\ entry.phone = row.phone)
        /\ entry.phone = IF resolved THEN NumberOf[chat] ELSE row.phone
    BY DEF Person, NamesOf
  <2> HIDE DEF entry, row
  <2>10. Named(entry, mixed)
    BY <1>2, <2>8, <2>9 DEF Named
  <2>11. entry.phone # NoPhone
    BY <1>2, <2>8, <2>9
  <2>12. Belongs(entry, mixed)
    BY <2>10, <2>11 DEF Belongs
  <2>13. \A e \in Range(book) : e.key # entry.key => e.phone # entry.phone
    BY <1>1, <1>3, <2>2, <2>3, <2>8, <2>9
  <2>14. entry.key = book[i].key
    BY <2>3, <2>9 DEF row
  <2>15. SoundBook([book EXCEPT ![i] = entry], mixed)
    BY <2>2, <2>7, <2>12, <2>13, <2>14, AmendedIsSound
  <2>16. QED
    BY <2>5, <2>15
<1>6. QED
  BY <1>4, <1>5

LEMMA UpdateKeepsBook ==
    ASSUME BookInv, NEW chat \in Chats, NEW name \in PushNames[chat], NEW resolved \in BOOLEAN,
           UpdateContact(chat, name, resolved)
    PROVE  BookInv'
<1> DEFINE found == Duplicates(chat, name, resolved)
           i == FirstIn(found)
<1>1. UNCHANGED <<grants, trusted, misled>> /\ (At(chat) # {} \/ resolved)
  BY DEF UpdateContact
<1>2. SUFFICES SoundBook(book', mixed')
  BY <1>1 DEF BookInv, SoundBook, Keyed, Belongs, Named, Numbered, Range
<1>3. ASSUME found # {}
      PROVE  /\ i \in DOMAIN book /\ book[i] \in Range(book)
             /\ book[i].key # chat /\ book[i].phone # NoPhone
  <2>1. found \in SUBSET DOMAIN book
    BY DEF Duplicates
  <2>2. i \in found /\ i \in DOMAIN book /\ book[i] \in Range(book)
    BY <1>3, <2>1, FirstOfBook
  <2>3. QED
    BY <2>2 DEF Duplicates
<1>4. CASE /\ found # {} /\ resolved
           /\ book' = Merged(chat, name, book[i])
           /\ mixed' = IF Person(book[i]) # NumberOf[chat] THEN mixed \cup {NumberOf[chat]} ELSE mixed
  <2> HIDE DEF found, i
  <2>1. mixed \subseteq mixed' /\ (Person(book[i]) = NumberOf[chat] \/ NumberOf[chat] \in mixed')
    BY <1>4
  <2>2. SoundBook(Merged(chat, name, book[i]), mixed')
    BY <1>3, <1>4, <2>1, MergedIsSound
  <2>3. QED
    BY <1>4, <2>2
<1>5. CASE /\ found # {} /\ ~resolved
           /\ book' = NameAdded(i, name)
           /\ mixed' = IF Person(book[i]) # NumberOf[chat] THEN mixed \cup {Person(book[i])} ELSE mixed
  <2> HIDE DEF found, i
  <2>1. mixed \subseteq mixed' /\ (Person(book[i]) = NumberOf[chat] \/ Person(book[i]) \in mixed')
    BY <1>5
  <2>2. SoundBook(NameAdded(i, name), mixed')
    BY <1>3, <1>5, <2>1, NameAddedIsSound
  <2>3. QED
    BY <1>5, <2>2
<1>6. CASE found = {} /\ book' = Entered(chat, name, resolved) /\ UNCHANGED mixed
  BY <1>1, <1>6, EnteredIsSound
<1>7. QED
  BY <1>4, <1>5, <1>6 DEF UpdateContact

(* An entry by hand over another: of the same number, or of the same name. *)
LEMMA CardBelongs ==
    ASSUME NEW card \in Cards, NEW old \in BookRow, Belongs(old, mixed),
           \/ card[2] # NoPhone /\ old.phone = card[2]
           \/ card[1] \in NamesOf(old)
    PROVE  LET entry == [key |-> IF card[2] # NoPhone /\ old.key \notin Chats
                                 THEN Manual(card[2]) ELSE old.key,
                         name |-> card[1], aliases |-> NamesOf(old) \ {card[1]},
                         phone |-> IF old.phone = NoPhone THEN card[2] ELSE old.phone]
           IN  entry \in BookRow /\ Belongs(entry, mixed)
<1> DEFINE name == card[1]
           number == card[2]
           entry == [key |-> IF number # NoPhone /\ old.key \notin Chats THEN Manual(number) ELSE old.key,
                     name |-> name, aliases |-> NamesOf(old) \ {name},
                     phone |-> IF old.phone = NoPhone THEN number ELSE old.phone]
<1>1. /\ name \in PersonNames /\ number \in Numbers \cup {NoPhone} /\ name \in KnownAs(number)
      /\ Manual(number) \in Keys /\ Manual(number) \notin Chats
  BY CardNames
<1>2. /\ old.key \in Keys /\ old.phone \in Numbers \cup {NoPhone} /\ NamesOf(old) \subseteq PersonNames
  BY DEF BookRow, NamesOf
<1>3. /\ entry.key = IF number # NoPhone /\ old.key \notin Chats THEN Manual(number) ELSE old.key
      /\ entry.phone = IF old.phone = NoPhone THEN number ELSE old.phone
      /\ entry.aliases = NamesOf(old) \ {name} /\ NamesOf(entry) = NamesOf(old) \cup {name}
  BY DEF NamesOf
<1> HIDE DEF name, number
<1>4. entry \in BookRow
  BY <1>1, <1>2 DEF BookRow
<1> HIDE DEF entry
<1>5. ASSUME old.phone = NoPhone PROVE Belongs(entry, mixed)
  <2>1. old.key \notin Chats /\ old.aliases = {}
    BY <1>5 DEF Belongs
  <2>2. name \in NamesOf(old)
    BY <1>5 DEF name
  <2>3. NamesOf(entry) = {name} /\ entry.aliases = {}
    BY <1>3, <2>1, <2>2 DEF NamesOf
  <2>4. entry.phone = number /\ entry.key \notin Chats /\ Person(entry) = number
    BY <1>1, <1>3, <1>5, <2>1 DEF Person
  <2>5. Named(entry, mixed)
    BY <1>1, <2>3, <2>4 DEF Named
  <2>6. QED
    BY <2>3, <2>4, <2>5 DEF Belongs
<1>6. ASSUME old.phone # NoPhone PROVE Belongs(entry, mixed)
  <2>1. entry.phone = old.phone
    BY <1>3, <1>6
  <2>2. Person(entry) = Person(old)
    BY <1>1, <1>3, <2>1 DEF Person
  <2>3. Named(old, mixed) /\ ((number # NoPhone /\ old.phone = number) \/ name \in NamesOf(old))
    BY DEF Belongs, name, number
  <2>4. Named(entry, mixed)
    BY <1>1, <1>3, <2>1, <2>2, <2>3 DEF Named
  <2>5. QED
    BY <1>6, <2>1, <2>4 DEF Belongs
<1>7. QED
  BY <1>4, <1>5, <1>6 DEF entry, name, number

LEMMA FewerRows ==
    ASSUME NEW rows, NEW mix, SoundBook(rows, mix), NEW new, Keyed(new), Range(new) \subseteq Range(rows)
    PROVE  SoundBook(new, mix)
  BY DEF SoundBook, Numbered

LEMMA CardKeepsBook ==
    ASSUME BookInv, NEW card \in Cards, AddManualContact(card)
    PROVE  BookInv'
<1> DEFINE name == card[1]
           number == card[2]
           byPhone == {i \in DOMAIN book : number # NoPhone /\ book[i].phone = number}
           found == IF byPhone # {} THEN byPhone ELSE {i \in DOMAIN book : name \in NamesOf(book[i])}
           old == book[FirstIn(found)]
           entry == [key |-> IF number # NoPhone /\ old.key \notin Chats THEN Manual(number) ELSE old.key,
                     name |-> name, aliases |-> NamesOf(old) \ {name},
                     phone |-> IF old.phone = NoPhone THEN number ELSE old.phone]
           fresh == [key |-> Manual(number), name |-> name, aliases |-> {}, phone |-> number]
<1>1. UNCHANGED <<grants, trusted, mixed, misled>>
  BY DEF AddManualContact
<1>2. SUFFICES SoundBook(book', mixed)
  BY <1>1 DEF BookInv, SoundBook, Keyed, Belongs, Named, Numbered, Range
<1>3. /\ SoundBook(book, mixed) /\ Keyed(book) /\ book \in Seq(BookRow)
      /\ \A e \in Range(book) : e \in BookRow /\ Belongs(e, mixed)
      /\ \A e, f \in Range(book) : e.key = f.key \/ (e.phone = f.phone /\ e.phone # NoPhone) => e = f
  BY BookFacts
<1>4. /\ name \in PersonNames /\ number \in Numbers \cup {NoPhone} /\ name \in KnownAs(number)
      /\ Manual(number) \in Keys /\ Manual(number) \notin Chats
  BY CardNames
<1>5. byPhone = {} => \A e \in Range(book) : number = NoPhone \/ e.phone # number
  BY DEF Range
<1>6. CASE /\ found # {}
           /\ book' = IF entry.key = old.key THEN Put(book, entry)
                      ELSE Without(Put(book, entry), old.key)
  <2>1. found \in SUBSET DOMAIN book
    OBVIOUS
  <2>2. FirstIn(found) \in found /\ old \in Range(book) /\ old \in BookRow
    BY <1>6, <2>1, FirstOfBook
  <2>3. (number # NoPhone /\ old.phone = number) \/ (byPhone = {} /\ name \in NamesOf(old))
    BY <2>2
  <2> HIDE DEF old, found, byPhone
  <2>4. entry \in BookRow /\ Belongs(entry, mixed)
    BY <1>3, <2>2, <2>3, CardBelongs
  <2>5. /\ entry.phone = IF old.phone = NoPhone THEN number ELSE old.phone
        /\ old.phone = NoPhone => byPhone = {}
    BY <2>3
  <2> HIDE DEF entry
  <2>6. /\ Keyed(Put(book, entry))
        /\ Range(Put(book, entry)) = {e \in Range(book) : e.key # entry.key} \cup {entry}
    BY <1>3, <2>4, PutRow
  <2>7. /\ Keyed(book')
        /\ \A e \in Range(book') : e = entry \/ (e \in Range(book) /\ e.key # old.key)
    <3>1. CASE entry.key = old.key
      BY <1>6, <2>6, <3>1
    <3>2. CASE entry.key # old.key
      <4>1. book' = Without(Put(book, entry), old.key)
        BY <1>6, <3>2
      <4>2. /\ Keyed(Without(Put(book, entry), old.key))
            /\ Range(Without(Put(book, entry), old.key))
                 = {e \in Range(Put(book, entry)) : e.key # old.key}
        BY <2>6, WithoutRow
      <4>3. QED
        BY <2>6, <4>1, <4>2
    <3>3. QED
      BY <3>1, <3>2
  <2>8. ASSUME NEW e \in Range(book'), e # entry
        PROVE  e \in Range(book) /\ (entry.phone = NoPhone \/ e.phone # entry.phone)
    <3>1. e \in Range(book) /\ e # old
      BY <2>7, <2>8
    <3>2. CASE old.phone = NoPhone
      BY <1>5, <2>5, <3>1, <3>2
    <3>3. CASE old.phone # NoPhone
      BY <1>3, <2>2, <2>5, <3>1, <3>3
    <3>4. QED
      BY <3>1, <3>2, <3>3
  <2>9. QED
    BY <1>3, <2>4, <2>7, <2>8, BookStep
<1>7. CASE found = {} /\ book' = Put(book, fresh)
  <2>1. byPhone = {}
    BY <1>7
  <2> HIDE DEF byPhone, found, old, entry, name, number
  <2>2. fresh \in BookRow
    BY <1>4 DEF BookRow
  <2>3. /\ fresh.phone = number /\ Person(fresh) = number /\ NamesOf(fresh) = {name}
        /\ fresh.key \notin Chats /\ fresh.aliases = {}
    BY <1>4 DEF Person, NamesOf
  <2> HIDE DEF fresh
  <2>4. Named(fresh, mixed)
    BY <1>4, <2>3 DEF Named
  <2>5. Belongs(fresh, mixed)
    BY <2>3, <2>4 DEF Belongs
  <2>6. /\ Keyed(Put(book, fresh))
        /\ Range(Put(book, fresh)) = {e \in Range(book) : e.key # fresh.key} \cup {fresh}
    BY <1>3, <2>2, PutRow
  <2>7. \A e \in Range(Put(book, fresh)) : e = fresh \/
           (e \in Range(book) /\ (fresh.phone = NoPhone \/ e.phone # fresh.phone))
    BY <1>5, <2>1, <2>3, <2>6
  <2>8. SoundBook(Put(book, fresh), mixed)
    BY <1>3, <2>5, <2>6, <2>7, BookStep
  <2>9. QED
    BY <1>7, <2>8
<1>8. QED
  BY <1>6, <1>7 DEF AddManualContact

LEMMA RemovalKeepsBook ==
    ASSUME BookInv, NEW sought, RemoveContact(sought)
    PROVE  BookInv'
<1>1. PICK key : book' = Without(book, key)
  BY DEF RemoveContact
<1>2. UNCHANGED <<grants, trusted, mixed, misled>>
  BY DEF RemoveContact
<1>3. SoundBook(book, mixed) /\ Keyed(book)
  BY BookFacts
<1>4. Keyed(Without(book, key)) /\ Range(Without(book, key)) = {e \in Range(book) : e.key # key}
  BY <1>3, WithoutRow
<1>5. SoundBook(book', mixed)
  BY <1>1, <1>3, <1>4, FewerRows
<1>6. QED
  BY <1>2, <1>5 DEF BookInv, SoundBook, Keyed, Belongs, Named, Numbered, Range

(* Whoever is found under a name has one that fits it.                     *)
LEMMA FoundByName ==
    ASSUME BookInv, NEW sought, FindContactByName(sought) # 0
    PROVE  /\ FindContactByName(sought) \in DOMAIN book
           /\ \E step \in 1 .. 4, name \in NamesOf(book[FindContactByName(sought)]) :
                 Match(step, sought, name)
<1> DEFINE steps == {k \in 1 .. 4 : FoundAt(k, sought) # {}}
           step == FirstIn(steps)
           found == FoundAt(step, sought)
           personal == {i \in found : book[i].key \in Chats}
           nearest == IF personal # {} THEN personal ELSE found
           i == FirstIn(nearest)
<1>1. steps # {} /\ FindContactByName(sought) = i
  BY DEF FindContactByName
<1>2. steps \in SUBSET Nat /\ IsFiniteSet(steps)
  <2>1. steps \in SUBSET (1 .. 4)
    OBVIOUS
  <2>2. IsFiniteSet(1 .. 4) /\ 1 .. 4 \in SUBSET Nat
    <3>1. 1 \in Int /\ 4 \in Int
      OBVIOUS
    <3>2. IsFiniteSet(1 .. 4)
      BY <3>1, FS_Interval, Zenon
    <3>3. QED
      BY <3>2
  <2> HIDE DEF steps
  <2>3. QED
    BY <2>1, <2>2, FS_Subset
<1>3. step \in 1 .. 4 /\ found # {}
  BY <1>1, <1>2, FirstIsIn
<1> HIDE DEF steps, step
<1>4. nearest \in SUBSET DOMAIN book /\ nearest # {} /\ nearest \subseteq found
  BY <1>3 DEF FoundAt
<1> HIDE DEF nearest
<1>5. i \in nearest /\ i \in DOMAIN book
  BY <1>4, FirstOfBook
<1>6. \E name \in NamesOf(book[i]) : Match(step, sought, name)
  BY <1>4, <1>5 DEF FoundAt, NamesOf
<1>7. QED
  BY <1>1, <1>3, <1>5, <1>6

(* A name that is followed to a chat leads to the person of the row.       *)
LEMMA LedRight ==
    ASSUME BookInv, NEW sought, FindContactByName(sought) # 0,
           ChatTarget(book[FindContactByName(sought)]) # "nobody"
    PROVE  LET row == book[FindContactByName(sought)]
               chat == ChatTarget(row)
           IN  /\ chat \in Chats /\ NumberOf[chat] = Person(row)
               /\ FitsPerson(sought, NumberOf[chat]) \/ NumberOf[chat] \in mixed
<1> DEFINE i == FindContactByName(sought)
           row == book[i]
           chat == ChatTarget(row)
<1>1. i \in DOMAIN book /\ \E step \in 1 .. 4, name \in NamesOf(row) : Match(step, sought, name)
  BY FoundByName
<1>2. row \in BookRow /\ Belongs(row, mixed)
  BY <1>1, BookFacts
<1> HIDE DEF i, row
<1>3. chat \in Chats /\ NumberOf[chat] = Person(row) /\ NumberOf[chat] # NoPhone
  <2>1. CASE row.key \in Chats
    BY <2>1, BookAssumption DEF ChatTarget, Person
  <2>2. CASE row.key \notin Chats
    <3>1. row.phone # NoPhone /\ chat = ChatOf[row.phone]
      BY <2>2 DEF ChatTarget, row, i
    <3>2. row.phone \in Numbers
      BY <1>2, <3>1 DEF BookRow
    <3>3. QED
      BY <2>2, <3>1, <3>2, BookAssumption DEF Person, Numbers
  <2>3. QED
    BY <2>1, <2>2
<1> HIDE DEF chat
<1>4. NumberOf[chat] \in mixed \/ NamesOf(row) \subseteq KnownAs(NumberOf[chat])
  BY <1>2, <1>3 DEF Belongs, Named
<1>5. FitsPerson(sought, NumberOf[chat]) \/ NumberOf[chat] \in mixed
  BY <1>1, <1>4 DEF FitsPerson
<1>6. QED
  BY <1>3, <1>5 DEF chat, row, i

LEMMA NamingKeepsBook ==
    ASSUME BookInv, NEW sought, NEW patterns \in SUBSET Patterns,
           \/ SendMessage(sought)
           \/ GrantToolAccess(sought, patterns)
           \/ RevokeToolAccess(sought, patterns)
    PROVE  BookInv'
<1> DEFINE row == book[FindContactByName(sought)]
           chat == ChatTarget(row)
<1>1. FindContactByName(sought) # 0 /\ chat # "nobody" /\ UNCHANGED <<book, mixed>>
  BY DEF SendMessage, GrantToolAccess, RevokeToolAccess
<1>2. /\ chat \in Chats /\ NumberOf[chat] = Person(row)
      /\ FitsPerson(sought, NumberOf[chat]) \/ NumberOf[chat] \in mixed
  BY <1>1, LedRight
<1> HIDE DEF row, chat
<1>3. misled' = {}
  <2>1. Reaches(sought, chat) \/ UNCHANGED misled
    BY DEF SendMessage, GrantToolAccess, RevokeToolAccess, row, chat
  <2>2. QED
    BY <1>2, <2>1 DEF Reaches, BookInv
<1>4. \A g \in grants' : NumberOf[g[1]] \in trusted'
  <2>1. CASE SendMessage(sought) \/ RevokeToolAccess(sought, patterns)
    BY <2>1 DEF SendMessage, RevokeToolAccess, BookInv
  <2>2. CASE GrantToolAccess(sought, patterns)
    <3>1. grants' = grants \cup ({chat} \X patterns) /\ trusted' = trusted \cup {Person(row)}
      BY <2>2 DEF GrantToolAccess, row, chat
    <3>2. \A g \in {chat} \X patterns : g[1] = chat
      OBVIOUS
    <3>3. QED
      BY <1>2, <3>1, <3>2 DEF BookInv
  <2>3. QED
    BY <2>1, <2>2
<1>5. QED
  BY <1>1, <1>3, <1>4 DEF BookInv, SoundBook, Keyed, Belongs, Named, Numbered, Range

LEMMA BookInvHolds == BookSpec => []BookInv
<1>1. BookInit => BookInv
  <2>1. ASSUME BookInit PROVE BookInv
    <3>1. book = <<>> /\ Range(book) = {}
      BY <2>1 DEF BookInit, Range
    <3>2. SoundBook(book, mixed)
      BY <3>1 DEF SoundBook, Keyed, Numbered
    <3>3. QED
      BY <2>1, <3>2 DEF BookInit, BookInv
  <2>2. QED
    BY <2>1
<1>2. BookInv /\ [BookNext]_bookVars => BookInv'
  <2>1. ASSUME BookInv, UNCHANGED bookVars PROVE BookInv'
    BY <2>1 DEF bookVars, BookInv, SoundBook, Keyed, Belongs, Named, Numbered, Range
  <2>2. QED
    BY <2>1, UpdateKeepsBook, CardKeepsBook, RemovalKeepsBook, NamingKeepsBook DEF BookNext
<1>3. QED
  BY <1>1, <1>2, PTL DEF BookSpec

(* Whatever was merged, added, renamed and removed, a number stands in the *)
(* book once, a name leads a message or a grant only to somebody who goes  *)
(* by it or whose entry took in a namesake's, and the owner's tools are    *)
(* open to nobody the owner did not name for them.                         *)
THEOREM NamesLeadRight == BookSpec => []NamesLeadToTheirPeople
<1>1. BookInv => NamesLeadToTheirPeople
  <2> SUFFICES ASSUME BookInv PROVE NamesLeadToTheirPeople
    OBVIOUS
  <2>1. /\ Keyed(book)
        /\ \A e \in Range(book) : e \in BookRow /\ Belongs(e, mixed)
        /\ \A i \in DOMAIN book : book[i] \in Range(book)
        /\ \A e, f \in Range(book) : e.key = f.key \/ (e.phone = f.phone /\ e.phone # NoPhone) => e = f
    BY BookFacts
  <2>2. \A i, j \in DOMAIN book : i # j => book[i].phone = NoPhone \/ book[i].phone # book[j].phone
    BY <2>1 DEF Keyed
  <2>3. \A i \in DOMAIN book :
          Person(book[i]) = NoPhone \/ Person(book[i]) \in mixed
          \/ (NamesOf(book[i]) \subseteq KnownAs(Person(book[i])) /\ book[i].phone = Person(book[i]))
    BY <2>1 DEF Belongs, Named
  <2>4. ASSUME NEW c \in Chats, NEW t \in UNION {Covers[p] : p \in OwnerTools}, CanUseTool(c, t)
        PROVE  NumberOf[c] \in trusted
    <3>1. Restricted(t)
      BY DEF Restricted
    <3>2. PICK p \in Patterns : <<c, p>> \in grants
      BY <2>4, <3>1 DEF CanUseTool, HasContactGrant
    <3>3. QED
      BY <3>2 DEF BookInv
  <2>5. QED
    BY <2>2, <2>3, <2>4 DEF BookInv, NamesLeadToTheirPeople
<1>2. QED
  BY <1>1, BookInvHolds, PTL
=============================================================================
