---------------------------- MODULE Relationships ----------------------------
(***************************************************************************)
(* The profile the bot keeps of a contact: every message of theirs adds to *)
(* it by fixed rules, and at night the model looks at the last month and   *)
(* replaces type, style, score and notes.  The profiles are cached in      *)
(* memory and the whole file is written at each change.  The nightly       *)
(* analysis awaits the model once for each contact and reads the profile   *)
(* again afterwards.  Followed from relationship-memory/ and               *)
(* insights/social-graph-analyzer.ts.                                      *)
(***************************************************************************)
EXTENDS Integers, Sequences, FiniteSets

CONSTANTS Contacts,        \* private chats, not the owner's, active enough
          Words,             \* sets of keyword kinds a message may show
          Styles,            \* styles a message may show
          Approved,          \* the contacts the approval store lists
          Assessments,       \* what the model may say: [type, style, score]
          ManyMessages,      \* from this count on a contact scores higher
          MaxMessages,       \* bound: messages of a contact
          MaxAnalyses, MaxRelationshipFaults

Types == {"unknown", "client", "lead", "friend", "family", "work", "service"}

\* In the order in which inferRelationshipType looks for them.
KeywordOrder == <<"family", "client", "lead", "work", "service">>

StrongTypes == {"client", "family"}

VARIABLES cache,         \* the profiles in memory, each a set of one, or empty
          profiles,      \* relationships.json
          asked,         \* the contact the analysis awaits, and those after it
          inQuestion,    \* the profile that went into the question
          analyses,      \* how many of MaxAnalyses there were
          messages,      \* how many of MaxMessages each contact has sent
          away,          \* how long each has been silent: "hours", "days", "months"
          relationshipFaults,
          counted        \* ghost: interactions since the profile was made

relationshipVars ==
  <<cache, profiles, asked, inQuestion, analyses, messages, away,
    relationshipFaults, counted>>

Profile == [type : Types, style : Styles \cup {"unknown"}, score : 1 .. 100,
            count : Nat]

RelationshipsTypeOK ==
  /\ \A store \in {cache, profiles}, c \in Contacts :
       /\ Cardinality(store[c]) <= 1
       /\ \A p \in store[c] : p \in Profile
  /\ \A i \in DOMAIN asked : asked[i] \in Contacts
  /\ inQuestion \subseteq Profile
  /\ analyses \in 0 .. MaxAnalyses
  /\ messages \in [Contacts -> 0 .. MaxMessages]
  /\ away \in [Contacts -> {"hours", "days", "months"}]
  /\ relationshipFaults \in 0 .. MaxRelationshipFaults

RelationshipsInit ==
  /\ cache = [c \in Contacts |-> {}]
  /\ profiles = cache
  /\ asked = <<>>
  /\ inQuestion = {}
  /\ analyses = 0
  /\ messages = [c \in Contacts |-> 0]
  /\ away = [c \in Contacts |-> "hours"]
  /\ relationshipFaults = 0
  /\ counted = [c \in Contacts |-> 0]

---------------------------------------------------------------------------
(* The rules *)

Least(a, b) == IF a < b THEN a ELSE b
Most(a, b) == IF a < b THEN b ELSE a

\* inferRelationshipType: the first kind of keyword found decides.
InferredType(words) ==
  IF words = {} THEN "unknown"
  ELSE LET i == CHOOSE i \in DOMAIN KeywordOrder :
                  /\ KeywordOrder[i] \in words
                  /\ \A j \in 1 .. i - 1 : KeywordOrder[j] \notin words
       IN  KeywordOrder[i]

\* A strong type gives way to a strong one only.
TypeAfter(old, words) ==
  LET new == InferredType(words)
  IN  IF new # "unknown" /\ (old \notin StrongTypes \/ new \in StrongTypes)
      THEN new ELSE old

Floor == [unknown |-> 20, client |-> 70, lead |-> 50, friend |-> 40,
          family |-> 80, work |-> 50, service |-> 20]

\* calculateImportanceScore; a profile made for this very message counts its
\* own creation as the last interaction.
ScoreOf(type, count, gap, approved) ==
  Most(1, Least(100, Floor[type]
    + (IF approved THEN 20 ELSE 0)
    + (IF count > ManyMessages THEN 10 ELSE 0)
    + (CASE gap = "hours" -> 10 [] gap = "months" -> 0 - 10 [] OTHER -> 0)))

---------------------------------------------------------------------------
(* The messages *)

Stored(c, p) ==
  /\ cache' = [cache EXCEPT ![c] = {p}]
  /\ profiles' = cache'

NewProfile ==
  [type |-> "unknown", style |-> "unknown", score |-> 20, count |-> 1]

\* updateFromMessage; a style the message does not show stays as it was.
MessageCounts(c, words, style) ==
  LET known == cache[c] # {}
      old == IF known THEN CHOOSE p \in cache[c] : TRUE ELSE NewProfile
      type == TypeAfter(old.type, words)
  IN  /\ messages[c] < MaxMessages
      /\ messages' = [messages EXCEPT ![c] = @ + 1]
      /\ away' = [away EXCEPT ![c] = "hours"]
      /\ Stored(c, [old EXCEPT
           !.type = type,
           !.style = IF style = "unknown" THEN @ ELSE style,
           !.score = ScoreOf(type, old.count + 1, IF known THEN away[c] ELSE "hours", c \in Approved),
           !.count = @ + 1])
      /\ counted' = [counted EXCEPT ![c] = IF known THEN @ + 1 ELSE 2]
      /\ UNCHANGED <<asked, inQuestion, analyses, relationshipFaults>>

TimePasses(c) ==
  /\ away[c] # "months"
  /\ away' = [away EXCEPT ![c] = IF @ = "hours" THEN "days" ELSE "months"]
  /\ UNCHANGED <<cache, profiles, asked, inQuestion, analyses, messages, relationshipFaults, counted>>

---------------------------------------------------------------------------
(* The nightly analysis *)

\* getActiveContacts: those with messages, in some order.
AnalysisStarts(order) ==
  /\ asked = <<>>
  /\ analyses < MaxAnalyses
  /\ analyses' = analyses + 1
  /\ Len(order) > 0
  /\ \A i \in DOMAIN order : messages[order[i]] > 0 /\ away[order[i]] # "months"
  /\ asked' = order
  /\ inQuestion' = cache[Head(order)]
  /\ UNCHANGED <<cache, profiles, messages, away, relationshipFaults, counted>>

Abs(n) == IF n < 0 THEN 0 - n ELSE n

NextAsked ==
  /\ asked' = Tail(asked)
  /\ inQuestion' = IF Len(asked) > 1 THEN cache'[asked[2]] ELSE {}

\* Mutant: what a slip in this code would do.
ProfileShown(c) == inQuestion             \* the profile as it was before the await

\* What runSocialGraphAnalysis compares with and builds on: the profile is
\* read again after the answer.
ProfileNow(c) == cache[c]

\* The model's verdict on the first of them; only a change is saved, and then
\* whatever the type was.  A profile made here counts the rows of the
\* conversation: the contact's messages and their answers.
AnalysisAnswers(v, rows) ==
  LET c == Head(asked)
      known == ProfileNow(c) # {}
      old == IF known THEN CHOOSE p \in ProfileNow(c) : TRUE ELSE NewProfile
      changed == \/ ~known
                 \/ old.type # v.type
                 \/ old.style # v.style
                 \/ Abs(old.score - v.score) > 10
  IN  /\ asked # <<>>
      /\ rows \in messages[c] .. 2 * messages[c]
      /\ IF changed
         THEN /\ Stored(c, [type |-> v.type, style |-> v.style, score |-> v.score,
                            count |-> IF known THEN old.count ELSE rows])
              /\ counted' = IF known THEN counted ELSE [counted EXCEPT ![c] = rows]
         ELSE UNCHANGED <<cache, profiles, counted>>
      /\ NextAsked
      /\ UNCHANGED <<analyses, messages, away, relationshipFaults>>

\* The call fails, or its answer is no JSON: the next contact.
AnalysisSkips ==
  /\ asked # <<>>
  /\ UNCHANGED <<cache, profiles, analyses, messages, away, relationshipFaults, counted>>
  /\ NextAsked

---------------------------------------------------------------------------
(* Restarts *)

\* The cache is read again at the first use; a file cut short counts as none.
RelationshipRestart ==
  /\ relationshipFaults < MaxRelationshipFaults
  /\ relationshipFaults' = relationshipFaults + 1
  /\ \/ UNCHANGED <<profiles, counted>>
     \/ profiles' = [c \in Contacts |-> {}] /\ counted' = [c \in Contacts |-> 0]
  /\ cache' = profiles'
  /\ asked' = <<>>
  /\ inQuestion' = {}
  /\ UNCHANGED <<analyses, messages, away>>

RelationshipsNext ==
  \/ \E c \in Contacts :
       \/ \E words \in Words, style \in Styles \cup {"unknown"} :
            MessageCounts(c, words, style)
       \/ TimePasses(c)
  \/ \E order \in UNION {[1 .. n -> Contacts] : n \in 1 .. Cardinality(Contacts)} :
       AnalysisStarts(order)
  \/ \E v \in Assessments, rows \in 1 .. 2 * MaxMessages : AnalysisAnswers(v, rows)
  \/ AnalysisSkips
  \/ RelationshipRestart

RelationshipsSpec == RelationshipsInit /\ [][RelationshipsNext]_relationshipVars

---------------------------------------------------------------------------
(* Properties *)

\* No message of a contact is lost to the count of its profile, whatever the
\* nightly analysis awaits while it arrives, as long as the file is whole.
InteractionsCounted ==
  \A c \in Contacts : \A p \in cache[c] \cup profiles[c] : p.count = counted[c]
=============================================================================
