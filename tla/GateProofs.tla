----------------------------- MODULE GateProofs -----------------------------
(***************************************************************************)
(* What stands between a message and the model, for every set of chats,    *)
(* members and messages and however long it runs: the approval tables, the *)
(* standing orders, the state and the follow-ups of a conversation, the    *)
(* threads of a group, and what the model is told at last.                 *)
(***************************************************************************)
EXTENDS ContactApproval, OperationalRules, GroupGate, TurnRules, PromptRules, SequenceLemmas

-----------------------------------------------------------------------------
(* Approvals *)

(* Type correctness of the tables, the contact book and the ghosts. *)
THEOREM ApprovalTypeCorrect == Spec => []TypeOK
<1>1. Init => TypeOK
  BY MaxRestartsAssumption DEF Init, TypeOK
<1>2. TypeOK /\ [Next]_vars => TypeOK'
  <2> SUFFICES ASSUME TypeOK, [Next]_vars PROVE TypeOK'
    OBVIOUS
  <2> USE DEF TypeOK
  <2>1. ASSUME NEW c \in Chats, book' \in BooksAfter(c)
        PROVE  book' \subseteq Phones \cup {Blank}
    BY <2>1, PhonesAssumption DEF BooksAfter
  <2>2. ASSUME NEW c \in Chats, Message(c) PROVE TypeOK'
    <3>1. CASE GateOpen(c)
      BY <2>1, <3>1 DEF GateOpen
    <3>2. ASSUME NEW written \in BOOLEAN, GateKnows(c, written) PROVE TypeOK'
      BY <2>1, <3>2 DEF GateKnows, Sync
    <3>3. ASSUME NEW k \in Codes, GateAsks(c, k) PROVE TypeOK'
      BY <2>1, <3>3 DEF GateAsks
    <3>4. QED
      BY <2>2, <3>1, <3>2, <3>3 DEF Message
  <2>3. ASSUME NEW k \in Codes, NEW sent \in BOOLEAN, OwnerAsked(k, sent)
        PROVE  TypeOK'
    BY <2>3 DEF OwnerAsked
  <2>4. ASSUME NEW k \in Codes, NEW written \in BOOLEAN, ApproveByCode(k, written)
        PROVE  TypeOK'
    <3>1. pending[k] \in Chats
      BY <2>4 DEF ApproveByCode
    <3>2. QED
      BY <2>4, <3>1 DEF ApproveByCode, Sync
  <2>5. CASE Owner
    <3>1. ASSUME NEW k \in Codes, OwnerRejects(k) PROVE TypeOK'
      BY <3>1 DEF OwnerRejects
    <3>2. ASSUME NEW phone \in Phones \cup {Blank}, OwnerAddsContact(phone)
          PROVE  TypeOK'
      BY <3>2 DEF OwnerAddsContact
    <3>3. ASSUME NEW phone \in Phones \cup {Blank}, OwnerDeletesContact(phone)
          PROVE  TypeOK'
      BY <3>3 DEF OwnerDeletesContact
    <3>4. ASSUME NEW c \in Chats, NEW written \in BOOLEAN, OwnerBlocks(c, written)
          PROVE  TypeOK'
      BY <3>4 DEF OwnerBlocks, Sync
    <3>5. QED
      BY <2>4, <2>5, <3>1, <3>2, <3>3, <3>4
      DEF Owner, OwnerApproves, OwnerSaysYes, PendingCodes
  <2>6. CASE Process
    <3>1. restarts < MaxRestarts => restarts + 1 \in 0 .. MaxRestarts
      BY MaxRestartsAssumption
    <3>2. ASSUME NEW readable \in BOOLEAN, NEW written \in BOOLEAN,
                 Restart(readable, written)
          PROVE  TypeOK'
      BY <3>1, <3>2 DEF Restart, Started
    <3>3. ASSUME NEW readable \in BOOLEAN, NEW written \in BOOLEAN,
                 NEW k \in Codes,
                 RestartWhileApproving(k, readable, written)
          PROVE  TypeOK'
      <4>1. pending[k] \in Chats
        BY <3>3 DEF RestartWhileApproving
      <4>2. QED
        BY <3>1, <3>3, <4>1 DEF RestartWhileApproving, Started
    <3>4. ASSUME NEW readable \in BOOLEAN, NEW written \in BOOLEAN,
                 NEW c \in Chats,
                 RestartWhileBlocking(c, readable, written)
          PROVE  TypeOK'
      BY <3>1, <3>4 DEF RestartWhileBlocking, Started
    <3>5. QED
      BY <2>6, <3>2, <3>3, <3>4 DEF Process
  <2>7. CASE UNCHANGED vars
    BY <2>7 DEF vars
  <2>8. QED
    BY <2>2, <2>3, <2>5, <2>6, <2>7 DEF Next
<1>3. QED
  BY <1>1, <1>2, PTL DEF Spec

(***************************************************************************)
(* How a step may touch the pending table: it leaves it alone, closes one  *)
(* row, or opens one, never used before, for a chat that has none.         *)
(***************************************************************************)
Closes(k) == pending[k] # None /\ pending' = [pending EXCEPT ![k] = None]

Opens(k) ==
    \E c \in Chats : ~IsPending(c) /\ pending' = [pending EXCEPT ![k] = c]

LEMMA PendingSteps ==
    ASSUME [Next]_vars
    PROVE  \/ UNCHANGED pending
           \/ \E k \in Codes : Closes(k) /\ (pending[k] \in approved' \/ k \in askedFor)
           \/ \E k \in Codes : Opens(k) /\ k \notin drawn
<1>1. ASSUME NEW k \in Codes, NEW written \in BOOLEAN, ApproveByCode(k, written)
      PROVE  Closes(k) /\ pending[k] \in approved'
  BY <1>1 DEF ApproveByCode, Closes
<1>2. ASSUME NEW c \in Chats, Message(c)
      PROVE  UNCHANGED pending \/ \E k \in Codes : Opens(k) /\ k \notin drawn
  BY <1>2 DEF Message, GateOpen, GateKnows, GateAsks, Opens
<1>3. ASSUME NEW k \in Codes, OwnerRejects(k) PROVE Closes(k) /\ k \in askedFor
  BY <1>3 DEF OwnerRejects, Closes
<1>4. CASE Owner
  <2>1. ASSUME NEW phone \in Phones \cup {Blank},
               OwnerAddsContact(phone) \/ OwnerDeletesContact(phone)
        PROVE  UNCHANGED pending
    BY <2>1 DEF OwnerAddsContact, OwnerDeletesContact
  <2>2. ASSUME NEW c \in Chats, NEW written \in BOOLEAN, OwnerBlocks(c, written)
        PROVE  UNCHANGED pending
    BY <2>2 DEF OwnerBlocks
  <2>3. QED
    BY <1>1, <1>3, <1>4, <2>1, <2>2
    DEF Owner, OwnerApproves, OwnerSaysYes, PendingCodes
<1>5. CASE Process
  BY <1>5 DEF Process, Restart, RestartWhileApproving, RestartWhileBlocking
<1>6. ASSUME NEW k \in Codes, NEW sent \in BOOLEAN, OwnerAsked(k, sent)
      PROVE  UNCHANGED pending
  BY <1>6 DEF OwnerAsked
<1>7. CASE UNCHANGED vars
  BY <1>7 DEF vars
<1>8. QED
  BY <1>2, <1>4, <1>5, <1>6, <1>7 DEF Next

(* The owner is asked about a contact once at a time: gating, answering,   *)
(* blocking and restarting never leave two codes pending for one chat.     *)
THEOREM OneCodePerContact == Spec => []OneQuestionPerContact
<1>1. Init => OneQuestionPerContact
  BY DEF Init, OneQuestionPerContact
<1>2. TypeOK /\ OneQuestionPerContact /\ [Next]_vars => OneQuestionPerContact'
  <2> SUFFICES ASSUME TypeOK, OneQuestionPerContact, [Next]_vars
               PROVE  OneQuestionPerContact'
    OBVIOUS
  <2>1. pending \in [Codes -> Chats \cup {None}]
    BY DEF TypeOK
  <2>2. CASE UNCHANGED pending
    BY <2>2 DEF OneQuestionPerContact
  <2>3. ASSUME NEW k \in Codes, Closes(k) PROVE OneQuestionPerContact'
    BY <2>1, <2>3 DEF OneQuestionPerContact, Closes
  <2>4. ASSUME NEW k \in Codes, Opens(k) PROVE OneQuestionPerContact'
    <3>1. PICK c \in Chats : ~IsPending(c) /\ pending' = [pending EXCEPT ![k] = c]
      BY <2>4 DEF Opens
    <3>2. \A j \in Codes : pending[j] # c
      BY <3>1 DEF IsPending
    <3>3. QED
      BY <2>1, <3>1, <3>2 DEF OneQuestionPerContact
  <2>5. QED
    BY <2>2, <2>3, <2>4, PendingSteps
<1>3. QED
  BY <1>1, <1>2, ApprovalTypeCorrect, PTL DEF Spec

(* A question to the owner is closed by its own answer only. *)
THEOREM QuestionsKeepOpen == Spec => QuestionsStayOpen
<1>1. TypeOK /\ [Next]_vars =>
        [\A k \in Codes : pending[k] # None /\ pending'[k] = None =>
            pending[k] \in approved' \/ k \in askedFor]_vars
  <2> SUFFICES ASSUME TypeOK, [Next]_vars,
                      NEW k \in Codes, pending[k] # None, pending'[k] = None
               PROVE  pending[k] \in approved' \/ k \in askedFor
    OBVIOUS
  <2>1. pending \in [Codes -> Chats \cup {None}]
    BY DEF TypeOK
  <2>2. ASSUME NEW j \in Codes, Opens(j) PROVE FALSE
    BY <2>1, <2>2, NoneAssumption DEF Opens
  <2>3. ASSUME NEW j \in Codes, Closes(j) PROVE j = k
    BY <2>1, <2>3 DEF Closes
  <2>4. QED
    BY <2>2, <2>3, PendingSteps
<1>2. QED
  BY <1>1, ApprovalTypeCorrect, PTL DEF Spec, QuestionsStayOpen

(* No failed copy, restart or death inside a handler takes an approval     *)
(* back that the owner gave.                                               *)
THEOREM ApprovalsAreKept == Spec => []ApprovalsLast
<1>1. Init => ApprovalsLast
  BY DEF Init, ApprovalsLast
<1>2. ApprovalsLast /\ [Next]_vars => ApprovalsLast'
  <2> SUFFICES ASSUME ApprovalsLast, [Next]_vars PROVE ApprovalsLast'
    OBVIOUS
  <2> USE DEF ApprovalsLast
  <2>1. ASSUME NEW c \in Chats, Message(c) PROVE ApprovalsLast'
    BY <2>1 DEF Message, GateOpen, GateKnows, GateAsks
  <2>2. ASSUME NEW k \in Codes, NEW written \in BOOLEAN, ApproveByCode(k, written)
        PROVE  ApprovalsLast'
    BY <2>2 DEF ApproveByCode
  <2>3. CASE Owner
    <3>1. ASSUME NEW c \in Chats, NEW written \in BOOLEAN, OwnerBlocks(c, written)
          PROVE  ApprovalsLast'
      BY <3>1 DEF OwnerBlocks
    <3>2. QED
      BY <2>2, <2>3, <3>1 DEF Owner, OwnerApproves, OwnerSaysYes, PendingCodes,
         OwnerRejects, OwnerAddsContact, OwnerDeletesContact
  <2>4. CASE Process
    BY <2>4 DEF Process, Restart, RestartWhileApproving, RestartWhileBlocking,
       Started
  <2>5. ASSUME NEW k \in Codes, NEW sent \in BOOLEAN, OwnerAsked(k, sent)
        PROVE  ApprovalsLast'
    BY <2>5 DEF OwnerAsked
  <2>6. CASE UNCHANGED vars
    BY <2>6 DEF vars
  <2>7. QED
    BY <2>1, <2>3, <2>4, <2>5, <2>6 DEF Next
<1>3. QED
  BY <1>1, <1>2, PTL DEF Spec

-----------------------------------------------------------------------------
(* The state of a conversation and its follow-ups *)

Entries == [reason : Reasons, due : Int]

(* A follow-up decided on is of the bot's own, and the chat has none of    *)
(* its reason: turns of a chat do not overlap.                             *)
ToBeFollowed ==
    \A c \in TurnChats : inTurn[c].follows # NoState =>
        inTurn[c].follows \in AutoReasons /\ NotYetFollowed(c, inTurn[c].follows)

TurnTimesOK ==
    /\ keptAt \in [TurnChats -> Int] /\ turnClock \in Int /\ zone \in Int
    /\ chatFollowups \in [TurnChats -> Seq(Entries)]
    /\ DOMAIN inTurn = TurnChats
    /\ \A c \in TurnChats : inTurn[c].due \in Int

RuledTurnInv == TurnTimesOK /\ ToBeFollowed /\ FollowedUpOnce /\ CarriedOnlyFresh

LEMMA NothingDecided == NoTurn.follows = NoState /\ NoTurn.due \in Int /\ ~ NotCarried.on
  BY DEF NoTurn, NotCarried

LEMMA RuledTurnInvInit == TurnRulesInit => RuledTurnInv
<1> SUFFICES ASSUME TurnRulesInit PROVE RuledTurnInv
  OBVIOUS
<1>1. << >> \in Seq(Entries) /\ DOMAIN << >> = {}
  OBVIOUS
<1>2. zone \in Int
  BY TurnTimesAssumption DEF TurnRulesInit
<1>3. TurnTimesOK
  BY <1>1, <1>2, NothingDecided DEF TurnRulesInit, TurnTimesOK
<1>4. ToBeFollowed /\ CarriedOnlyFresh
  BY NothingDecided DEF TurnRulesInit, ToBeFollowed, CarriedOnlyFresh
<1>5. FollowedUpOnce
  BY <1>1 DEF TurnRulesInit, FollowedUpOnce
<1>6. QED
  BY <1>3, <1>4, <1>5 DEF RuledTurnInv

(* One entry more is of a reason not there, or a promise.                  *)
LEMMA OneFollowupMore ==
    ASSUME NEW s \in Seq(Entries), NEW e \in Entries, NEW close,
           \A n, k \in DOMAIN s : s[n].reason = s[k].reason /\ s[n].reason \in AutoReasons => n = k,
           e.reason \in AutoReasons => \A n \in DOMAIN s : s[n].reason # e.reason
    PROVE  LET t == WithFollowup(s, e, close)
           IN  /\ t \in Seq(Entries)
               /\ \A n, k \in DOMAIN t :
                    t[n].reason = t[k].reason /\ t[n].reason \in AutoReasons => n = k
<1> DEFINE t == Append(s, e)
<1>1. /\ t \in Seq(Entries) /\ Len(s) \in Nat /\ DOMAIN s = 1 .. Len(s)
      /\ DOMAIN t = 1 .. Len(s) + 1 /\ t[Len(s) + 1] = e
      /\ \A k \in DOMAIN s : t[k] = s[k]
  OBVIOUS
<1> HIDE DEF t
<1>2. ASSUME NEW n \in DOMAIN t, NEW k \in DOMAIN t, t[n].reason = t[k].reason,
             t[n].reason \in AutoReasons
      PROVE  n = k
  <2>1. n \in DOMAIN s \/ n = Len(s) + 1
    BY <1>1
  <2>2. k \in DOMAIN s \/ k = Len(s) + 1
    BY <1>1
  <2>3. QED
    BY <1>1, <1>2, <2>1, <2>2
<1>3. QED
  BY <1>1, <1>2 DEF WithFollowup, t

LEMMA RuledTurnInvStep == RuledTurnInv /\ [TurnRulesNext]_ruledTurnVars => RuledTurnInv'
<1> SUFFICES ASSUME RuledTurnInv, [TurnRulesNext]_ruledTurnVars PROVE RuledTurnInv'
  OBVIOUS
<1>a. TurnTimesOK /\ ToBeFollowed /\ FollowedUpOnce /\ CarriedOnlyFresh
  BY DEF RuledTurnInv
<1>1. ASSUME NEW c \in TurnChats, NEW m \in TurnMessages, ResolveTurn(c, m) PROVE RuledTurnInv'
  <2> DEFINE t == [on |-> TRUE, state |-> ConversationState(c, m),
                   follows |-> FollowupDecision(c, m),
                   due |-> turnClock + FollowupSuggested(c, m)]
  <2>1. /\ inTurn' = [inTurn EXCEPT ![c] = t] /\ keptAt' = [keptAt EXCEPT ![c] = turnClock]
        /\ carried' = IF Carries(c, m) THEN [on |-> TRUE, age |-> Age(c)] ELSE NotCarried
        /\ UNCHANGED <<chatFollowups, zone, turnClock>>
    BY <1>1 DEF ResolveTurn, Persist
  <2>2. FollowupSuggested(c, m) \in Int
    BY DEF FollowupSuggested
  <2>3. t.follows = FollowupDecision(c, m) /\ t.due \in Int
    BY <1>a, <2>2 DEF TurnTimesOK
  <2> HIDE DEF t
  <2>4. /\ inTurn'[c] = t /\ DOMAIN inTurn' = TurnChats
        /\ \A d \in TurnChats \ {c} : inTurn'[d] = inTurn[d]
    BY <1>a, <2>1 DEF TurnTimesOK
  <2>5. TurnTimesOK'
    BY <1>a, <2>1, <2>3, <2>4 DEF TurnTimesOK
  <2>6. t.follows # NoState => t.follows \in AutoReasons /\ NotYetFollowed(c, t.follows)
    BY <2>3 DEF FollowupDecision, SuggestedReason, AutoReasons
  <2>7. ToBeFollowed'
    BY <1>a, <2>1, <2>4, <2>6 DEF ToBeFollowed, NotYetFollowed
  <2>8. CarriedOnlyFresh'
    <3>1. CASE Carries(c, m)
      <4>1. ~ (Age(c) + zone > StaleTicks) /\ Age(c) \in Int /\ zone \in Int /\ StaleTicks \in Nat
        BY <1>a, <3>1, TurnTimesAssumption DEF Carries, CarriesOn, Stale, Age, TurnTimesOK
      <4>2. carried'.age = Age(c)
        BY <2>1, <3>1
      <4>3. zone >= 0 => Age(c) <= StaleTicks
        BY <4>1
      <4>4. QED
        BY <2>1, <4>2, <4>3 DEF CarriedOnlyFresh
    <3>2. CASE ~ Carries(c, m)
      BY <2>1, <3>2, NothingDecided DEF CarriedOnlyFresh
    <3>3. QED
      BY <3>1, <3>2
  <2>9. FollowedUpOnce'
    BY <1>a, <2>1 DEF FollowedUpOnce
  <2>10. QED
    BY <2>5, <2>7, <2>8, <2>9 DEF RuledTurnInv
<1>2. ASSUME NEW c \in TurnChats, NEW promises \in BOOLEAN, NEW close \in BOOLEAN,
             FinishTurn(c, promises, close)
      PROVE  RuledTurnInv'
  <2> DEFINE t == inTurn[c]
             fs == chatFollowups[c]
             mine == [reason |-> t.follows, due |-> t.due]
             promise == [reason |-> "promised", due |-> MaxTurnTicks + 1]
             own == IF t.follows = NoState THEN fs ELSE WithFollowup(fs, mine, close)
             all == IF promises /\ c # OwnersChat THEN WithFollowup(own, promise, close) ELSE own
  <2>1. /\ inTurn' = [inTurn EXCEPT ![c] = NoTurn] /\ keptAt' = [keptAt EXCEPT ![c] = turnClock]
        /\ chatFollowups' = [chatFollowups EXCEPT ![c] = all] /\ carried' = NotCarried
        /\ UNCHANGED <<zone, turnClock>>
    BY <1>2 DEF FinishTurn, Persist
  <2>2. /\ fs \in Seq(Entries)
        /\ \A n, k \in DOMAIN fs : fs[n].reason = fs[k].reason /\ fs[n].reason \in AutoReasons => n = k
    BY <1>a DEF TurnTimesOK, FollowedUpOnce
  <2>3. /\ own \in Seq(Entries)
        /\ \A n, k \in DOMAIN own :
             own[n].reason = own[k].reason /\ own[n].reason \in AutoReasons => n = k
    <3>1. CASE t.follows = NoState
      BY <2>2, <3>1
    <3>2. CASE t.follows # NoState
      <4>1. t.follows \in AutoReasons /\ NotYetFollowed(c, t.follows) /\ t.due \in Int
        BY <1>a, <3>2 DEF ToBeFollowed, TurnTimesOK
      <4>2. mine \in Entries /\ mine.reason = t.follows
        BY <4>1 DEF Entries, Reasons
      <4>3. \A n \in DOMAIN fs : fs[n].reason # mine.reason
        BY <4>1, <4>2 DEF NotYetFollowed
      <4> HIDE DEF mine, fs
      <4>4. own = WithFollowup(fs, mine, close)
        BY <3>2
      <4>5. QED
        BY <2>2, <4>2, <4>3, <4>4, OneFollowupMore
    <3>3. QED
      BY <3>1, <3>2
  <2>4. promise \in Entries /\ promise.reason \notin AutoReasons
    BY TurnTimesAssumption DEF Entries, Reasons, AutoReasons
  <2> HIDE DEF own, promise
  <2>5. /\ all \in Seq(Entries)
        /\ \A n, k \in DOMAIN all :
             all[n].reason = all[k].reason /\ all[n].reason \in AutoReasons => n = k
    BY <2>3, <2>4, OneFollowupMore
  <2> HIDE DEF all
  <2>6. /\ chatFollowups' \in [TurnChats -> Seq(Entries)] /\ chatFollowups'[c] = all
        /\ \A d \in TurnChats \ {c} : chatFollowups'[d] = chatFollowups[d]
        /\ DOMAIN inTurn' = TurnChats /\ inTurn'[c] = NoTurn
        /\ \A d \in TurnChats \ {c} : inTurn'[d] = inTurn[d]
    BY <1>a, <2>1, <2>5 DEF TurnTimesOK
  <2>7. TurnTimesOK'
    BY <1>a, <2>1, <2>6, NothingDecided DEF TurnTimesOK
  <2>8. ToBeFollowed'
    BY <1>a, <2>6, NothingDecided DEF ToBeFollowed, NotYetFollowed
  <2>9. FollowedUpOnce'
    <3>1. ASSUME NEW d \in TurnChats, NEW n \in DOMAIN chatFollowups'[d],
                 NEW k \in DOMAIN chatFollowups'[d],
                 chatFollowups'[d][n].reason = chatFollowups'[d][k].reason,
                 chatFollowups'[d][n].reason \in AutoReasons
          PROVE  n = k
      <4>1. CASE d = c
        BY <2>5, <2>6, <3>1, <4>1
      <4>2. CASE d # c
        BY <1>a, <2>6, <3>1, <4>2 DEF FollowedUpOnce
      <4>3. QED
        BY <4>1, <4>2
    <3>2. QED
      BY <3>1 DEF FollowedUpOnce
  <2>10. CarriedOnlyFresh'
    BY <2>1, NothingDecided DEF CarriedOnlyFresh
  <2>11. QED
    BY <2>7, <2>8, <2>9, <2>10 DEF RuledTurnInv
<1>3. ASSUME NEW c \in TurnChats, FollowupDone(c) PROVE RuledTurnInv'
  <2> DEFINE fs == chatFollowups[c]
             rest == Tail(fs)
  <2>1. /\ chatFollowups' = [chatFollowups EXCEPT ![c] = rest] /\ fs # <<>>
        /\ UNCHANGED <<keptAt, inTurn, zone, turnClock, carried>>
    BY <1>3 DEF FollowupDone
  <2>2. fs \in Seq(Entries)
    BY <1>a DEF TurnTimesOK
  <2>3. /\ rest \in Seq(Entries)
        /\ \A k \in DOMAIN rest : k + 1 \in DOMAIN fs /\ rest[k] = fs[k + 1]
        /\ \A j, k \in DOMAIN rest : j + 1 = k + 1 => j = k
    BY <2>1, <2>2, TailOf
  <2> HIDE DEF rest
  <2>4. /\ chatFollowups' \in [TurnChats -> Seq(Entries)] /\ chatFollowups'[c] = rest
        /\ \A d \in TurnChats \ {c} : chatFollowups'[d] = chatFollowups[d]
    BY <1>a, <2>1, <2>3 DEF TurnTimesOK
  <2>5. TurnTimesOK' /\ CarriedOnlyFresh'
    BY <1>a, <2>1, <2>4 DEF TurnTimesOK, CarriedOnlyFresh
  <2>6. ToBeFollowed'
    BY <1>a, <2>1, <2>3, <2>4 DEF ToBeFollowed, NotYetFollowed
  <2>7. FollowedUpOnce'
    <3>1. ASSUME NEW d \in TurnChats, NEW n \in DOMAIN chatFollowups'[d],
                 NEW k \in DOMAIN chatFollowups'[d],
                 chatFollowups'[d][n].reason = chatFollowups'[d][k].reason,
                 chatFollowups'[d][n].reason \in AutoReasons
          PROVE  n = k
      <4>1. CASE d = c
        <5>1. /\ n + 1 \in DOMAIN fs /\ k + 1 \in DOMAIN fs
              /\ fs[n + 1].reason = fs[k + 1].reason /\ fs[n + 1].reason \in AutoReasons
          BY <2>3, <2>4, <3>1, <4>1
        <5>2. n + 1 = k + 1
          BY <1>a, <5>1 DEF FollowedUpOnce
        <5>3. QED
          BY <2>3, <2>4, <4>1, <5>2
      <4>2. CASE d # c
        BY <1>a, <2>4, <3>1, <4>2 DEF FollowedUpOnce
      <4>3. QED
        BY <4>1, <4>2
    <3>2. QED
      BY <3>1 DEF FollowedUpOnce
  <2>8. QED
    BY <2>5, <2>6, <2>7 DEF RuledTurnInv
<1>4. ASSUME \/ \E c \in TurnChats : TurnFails(c)
             \/ TurnsRestart
      PROVE  RuledTurnInv'
  <2>1. /\ \E c \in TurnChats : inTurn' = [inTurn EXCEPT ![c] = NoTurn]
           \/ inTurn' = [d \in TurnChats |-> NoTurn]
        /\ carried' = NotCarried /\ UNCHANGED <<keptAt, chatFollowups, zone, turnClock>>
    BY <1>4 DEF TurnFails, TurnsRestart
  <2>2. DOMAIN inTurn' = TurnChats
        /\ \A d \in TurnChats : inTurn'[d] = inTurn[d] \/ inTurn'[d] = NoTurn
    BY <1>a, <2>1 DEF TurnTimesOK
  <2>3. TurnTimesOK' /\ CarriedOnlyFresh'
    BY <1>a, <2>1, <2>2, NothingDecided DEF TurnTimesOK, CarriedOnlyFresh
  <2>4. ToBeFollowed' /\ FollowedUpOnce'
    BY <1>a, <2>1, <2>2, NothingDecided DEF ToBeFollowed, NotYetFollowed, FollowedUpOnce
  <2>5. QED
    BY <2>3, <2>4 DEF RuledTurnInv
<1>5. ASSUME \/ \E c \in TurnChats : ClearChat(c) \/ MeetingTurns(c)
             \/ ApprovalsTurn \/ TurnTime \/ UNCHANGED ruledTurnVars
      PROVE  RuledTurnInv'
  <2>1. /\ turnClock' \in Int /\ carried' \in {carried, NotCarried}
        /\ UNCHANGED <<keptAt, chatFollowups, inTurn, zone>>
    BY <1>5, <1>a DEF ClearChat, MeetingTurns, ApprovalsTurn, TurnTime, ruledTurnVars, TurnTimesOK
  <2>2. TurnTimesOK' /\ CarriedOnlyFresh'
    BY <1>a, <2>1, NothingDecided DEF TurnTimesOK, CarriedOnlyFresh
  <2>3. ToBeFollowed' /\ FollowedUpOnce'
    BY <1>a, <2>1 DEF ToBeFollowed, NotYetFollowed, FollowedUpOnce
  <2>4. QED
    BY <2>2, <2>3 DEF RuledTurnInv
<1>6. QED
  BY <1>1, <1>2, <1>3, <1>4, <1>5 DEF TurnRulesNext

(* context/conversation-state-resolver.ts and the states it keeps: a turn  *)
(* is told that the conversation waits for something only if it did within *)
(* the last half hour, but for a host west of Greenwich (CarriedOnlyFresh).*)
THEOREM OnlyFreshIsCarried == TurnRulesSpec => []CarriedOnlyFresh
<1>1. RuledTurnInv => CarriedOnlyFresh
  BY DEF RuledTurnInv
<1>2. QED
  BY RuledTurnInvInit, RuledTurnInvStep, <1>1, PTL DEF TurnRulesSpec

(* Decided before the model is asked and created after the reply, with     *)
(* other turns, restarts and follow-ups done between, a follow-up of the   *)
(* bot's own is never there twice (FollowedUpOnce).                        *)
THEOREM FollowupsAreOnce == TurnRulesSpec => []FollowedUpOnce
<1>1. RuledTurnInv => FollowedUpOnce
  BY DEF RuledTurnInv
<1>2. QED
  BY RuledTurnInvInit, RuledTurnInvStep, <1>1, PTL DEF TurnRulesSpec

-----------------------------------------------------------------------------
(* The threads of a group *)

Rows == [by : Members, to : Members \cup {Herself, Nobody}, when : Nat]
Threads == [who : SUBSET Names, last : Nat]

(***************************************************************************)
(* The k-th message answers another, and up to this time its two are never *)
(* silent for ThreadTimeout: TalkGoesOn, of any list and any time, with a  *)
(* message of one of them at that very time.                               *)
(***************************************************************************)
TwoOf(all, k) == {all[k].by, all[k].to}
Talk(all, k, until) ==
    /\ all[k].to # Nobody
    /\ all[k].when <= until
    /\ \E m \in k .. Len(all) : all[m].by \in TwoOf(all, k) /\ all[m].when = until
    /\ \A t \in all[k].when .. until :
         \E m \in k .. Len(all) : /\ all[m].by \in TwoOf(all, k)
                                  /\ all[m].when \in (t - (ThreadTimeout - 2)) .. t

(* A thread is the talk of the two it names, up to when it was renewed. *)
IsTalk(all, thread) ==
    \E k \in DOMAIN all : /\ thread.who = {Name(all[k].by), Number(all[k].to)}
                          /\ Talk(all, k, thread.last)

GroupInv ==
    /\ threads \in Seq(Threads) /\ said \in Seq(Rows) /\ threadClock \in Nat
    /\ \A n \in DOMAIN threads : /\ threads[n].last <= threadClock
                                 /\ IsTalk(said, threads[n])
    /\ SkipsFollowTalk

LEMMA NamesTell ==
    /\ \A p, q : Name(p) = Name(q) => p = q
    /\ \A p, q : Name(p) = Number(q) => p = q
  BY DEF Name, Number

(* One more message leaves a talk what it was. *)
LEMMA TalkLasts ==
    ASSUME NEW all \in Seq(Rows), NEW row \in Rows, NEW k \in DOMAIN all, NEW until \in Nat,
           Talk(all, k, until)
    PROVE  Talk(Append(all, row), k, until)
<1> DEFINE more == Append(all, row)
<1>1. /\ Len(all) \in Nat /\ DOMAIN all = 1 .. Len(all) /\ Len(more) = Len(all) + 1
      /\ \A m \in 1 .. Len(all) : more[m] = all[m]
  OBVIOUS
<1>2. k .. Len(all) \subseteq k .. Len(more) /\ k .. Len(all) \subseteq 1 .. Len(all)
  BY <1>1
<1>3. TwoOf(more, k) = TwoOf(all, k)
  BY <1>1 DEF TwoOf
<1> HIDE DEF more
<1>4. more[k] = all[k]
  BY <1>1
<1>5. \A t \in more[k].when .. until :
         \E m \in k .. Len(more) : /\ more[m].by \in TwoOf(more, k)
                                   /\ more[m].when \in (t - (ThreadTimeout - 2)) .. t
  BY <1>1, <1>2, <1>3, <1>4 DEF Talk
<1>6. Talk(more, k, until)
  BY <1>1, <1>2, <1>3, <1>4, <1>5 DEF Talk
<1> QED
  BY <1>6 DEF more

(* A message of one of the two carries their talk on, if they were not yet *)
(* silent for ThreadTimeout.                                               *)
LEMMA TalkCarriesOn ==
    ASSUME NEW all \in Seq(Rows), NEW row \in Rows, NEW k \in DOMAIN all, NEW until \in Nat,
           Talk(all, k, until), row.by \in TwoOf(all, k),
           until <= row.when, row.when - until < ThreadTimeout
    PROVE  Talk(Append(all, row), k, row.when)
<1> DEFINE more == Append(all, row)
           now == row.when
<1>1. /\ Len(all) \in Nat /\ DOMAIN all = 1 .. Len(all) /\ Len(more) = Len(all) + 1
      /\ \A m \in 1 .. Len(all) : more[m] = all[m]
      /\ more[Len(all) + 1] = row
  OBVIOUS
<1>2. now \in Nat /\ all[k].when \in Nat /\ k \in 1 .. Len(all)
  <2>1. k \in 1 .. Len(all) /\ all[k] \in Rows
    BY <1>1
  <2>2. QED
    BY <2>1 DEF Rows
<1>3. TwoOf(more, k) = TwoOf(all, k)
  BY <1>1 DEF TwoOf
<1>4. Talk(more, k, until)
  BY TalkLasts
<1>5. Len(more) \in k .. Len(more) /\ more[Len(more)].by \in TwoOf(more, k)
      /\ more[Len(more)].when = now
  BY <1>1, <1>2, <1>3
<1> HIDE DEF more, now
<1>6. ASSUME NEW t \in more[k].when .. now
      PROVE  \E m \in k .. Len(more) : /\ more[m].by \in TwoOf(more, k)
                                       /\ more[m].when \in (t - (ThreadTimeout - 2)) .. t
  <2>0. t \in Int /\ more[k].when <= t /\ t <= now /\ more[k].when \in Nat
    BY <1>1, <1>2
  <2>1. CASE t <= until
    BY <1>4, <2>0, <2>1 DEF Talk
  <2>2. CASE t = now
    BY <1>2, <1>5, <2>2, GroupAssumption
  <2>3. CASE until < t /\ t < now
    <3>1. PICK m \in k .. Len(more) : more[m].by \in TwoOf(more, k) /\ more[m].when = until
      BY <1>4 DEF Talk
    <3>2. until \in (t - (ThreadTimeout - 2)) .. t
      BY <1>2, <2>0, <2>3, GroupAssumption DEF now
    <3>3. QED
      BY <3>1, <3>2
  <2>4. QED
    BY <1>2, <2>0, <2>1, <2>2, <2>3
<1>7. more[k].to # Nobody /\ more[k].when <= now
  BY <1>2, <1>1, <1>4 DEF Talk, now
<1>8. Talk(more, k, now)
  BY <1>5, <1>6, <1>7 DEF Talk
<1> QED
  BY <1>8 DEF more, now

(* An answer begins a talk. *)
LEMMA TalkBegins ==
    ASSUME NEW all \in Seq(Rows), NEW row \in Rows, row.to # Nobody
    PROVE  IsTalk(Append(all, row),
                  [who |-> {Name(row.by), Number(row.to)}, last |-> row.when])
<1> DEFINE more == Append(all, row)
           k == Len(all) + 1
<1>1. /\ Len(all) \in Nat /\ DOMAIN more = 1 .. k /\ Len(more) = k /\ more[k] = row
      /\ k \in Nat /\ 1 <= k /\ row.when \in Nat
  BY DEF Rows
<1>2. k \in k .. Len(more) /\ more[k].by \in TwoOf(more, k)
  BY <1>1 DEF TwoOf
<1> HIDE DEF more, k
<1>3. \A t \in more[k].when .. row.when :
         more[k].when \in (t - (ThreadTimeout - 2)) .. t
  BY <1>1, GroupAssumption
<1>4. Talk(more, k, row.when)
  BY <1>1, <1>2, <1>3 DEF Talk
<1>5. k \in DOMAIN more
  BY <1>1
<1>6. IsTalk(more, [who |-> {Name(row.by), Number(row.to)}, last |-> row.when])
  BY <1>1, <1>4, <1>5 DEF IsTalk
<1> QED
  BY <1>6 DEF more

(* What the tracker leaves: threads as they were, one of the sender's own  *)
(* renewed, and the one begun by an answer; none of the old ones expired.  *)
LEMMA Tracked ==
    ASSUME threads \in Seq(Threads), threadClock \in Nat, NEW sender \in Members,
           NEW quoted \in Members \cup {Herself, Nobody}
    PROVE  /\ TrackMessage(sender, quoted) \in Seq(Threads)
           /\ \A n \in DOMAIN TrackMessage(sender, quoted) :
                LET thread == TrackMessage(sender, quoted)[n]
                IN  \/ /\ quoted # Nobody
                       /\ thread = [who |-> {Name(sender), Number(quoted)},
                                    last |-> threadClock]
                    \/ \E m \in DOMAIN threads :
                         /\ NotExpired(threads[m])
                         /\ thread.who = threads[m].who
                         /\ \/ thread.last = threads[m].last
                            \/ Name(sender) \in thread.who /\ thread.last = threadClock
<1> DEFINE live == CleanExpired(threads)
           two == {Name(sender), Number(quoted)}
           theirs == {n \in DOMAIN live : two \subseteq live[n].who}
           going == {n \in DOMAIN live : /\ Name(sender) \in live[n].who
                                         /\ threadClock - live[n].last < ContinuationWindow}
           result == TrackMessage(sender, quoted)
           Old(thread) == \E m \in DOMAIN threads :
                             /\ NotExpired(threads[m])
                             /\ thread.who = threads[m].who
                             /\ \/ thread.last = threads[m].last
                                \/ Name(sender) \in thread.who /\ thread.last = threadClock
<1>1. /\ live \in Seq(Threads)
      /\ \A n \in DOMAIN live : \E m \in DOMAIN threads :
            live[n] = threads[m] /\ NotExpired(threads[m])
  <2> DEFINE fresh == {thread \in Range(threads) : NotExpired(thread)}
  <2>1. /\ Keep(threads, fresh) \in Seq(Threads)
        /\ \A n \in DOMAIN Keep(threads, fresh) : Keep(threads, fresh)[n] \in fresh
    BY KeptSequence
  <2>2. live = Keep(threads, fresh)
    BY DEF CleanExpired
  <2>3. \A thread \in fresh : \E m \in DOMAIN threads :
           thread = threads[m] /\ NotExpired(threads[m])
    BY DEF Range
  <2> HIDE DEF live, fresh
  <2>4. QED
    BY <2>1, <2>2, <2>3
<1>2. ASSUME NEW these \in SUBSET DOMAIN live,
             \A n \in these : Name(sender) \in live[n].who
      PROVE  /\ Touched(live, these) \in Seq(Threads)
             /\ \A n \in DOMAIN Touched(live, these) : Old(Touched(live, these)[n])
  <2> DEFINE t == Touched(live, these)
  <2> HIDE DEF live
  <2>1. DOMAIN t = DOMAIN live /\ DOMAIN live = 1 .. Len(live) /\ Len(live) \in Nat
    BY <1>1 DEF Touched
  <2>2. ASSUME NEW n \in DOMAIN live
        PROVE  t[n] \in Threads /\ Old(t[n])
    <3>1. live[n] \in Threads /\ live[n].who \in SUBSET Names
      <4>1. live[n] \in Threads
        BY <1>1, <2>1
      <4>2. QED
        BY <4>1 DEF Threads
    <3>2. PICK m \in DOMAIN threads : live[n] = threads[m] /\ NotExpired(threads[m])
      BY <1>1
    <3>3. CASE n \in these /\ \A k \in these : n <= k
      <4>1. t[n] = [live[n] EXCEPT !.last = threadClock]
        BY <3>3 DEF Touched
      <4>2. t[n] = [who |-> live[n].who, last |-> threadClock]
        BY <3>1, <4>1 DEF Threads
      <4>3. t[n] \in Threads /\ t[n].who = threads[m].who /\ t[n].last = threadClock
        BY <3>1, <3>2, <4>2 DEF Threads
      <4>4. Name(sender) \in t[n].who
        BY <1>2, <3>3, <4>2
      <4>5. QED
        BY <3>2, <4>3, <4>4
    <3>4. CASE ~ (n \in these /\ \A k \in these : n <= k)
      <4>1. t[n] = live[n]
        BY <3>4 DEF Touched
      <4>2. QED
        BY <3>1, <3>2, <4>1
    <3>5. QED
      BY <3>3, <3>4
  <2>3. t \in Seq(Threads)
    <3>1. t = [n \in 1 .. Len(live) |-> t[n]]
      BY <2>1 DEF Touched
    <3> HIDE DEF t
    <3>2. \A n \in 1 .. Len(live) : t[n] \in Threads
      BY <2>1, <2>2
    <3>3. t \in [1 .. Len(live) -> Threads]
      BY <3>1, <3>2
    <3>4. QED
      BY <2>1, <3>3
  <2>4. QED
    BY <2>1, <2>2, <2>3
<1>3. CASE quoted = Nobody \/ Number(quoted) = Name(sender)
  <2>1. result = Touched(live, going)
    BY <1>3 DEF TrackMessage
  <2>2. going \in SUBSET DOMAIN live /\ \A n \in going : Name(sender) \in live[n].who
    OBVIOUS
  <2> HIDE DEF live, going, result
  <2>3. QED
    BY <1>2, <2>1, <2>2 DEF result
<1>4. CASE /\ ~ (quoted = Nobody \/ Number(quoted) = Name(sender))
           /\ theirs # {}
  <2>1. result = Touched(live, theirs)
    BY <1>4 DEF TrackMessage
  <2>2. theirs \in SUBSET DOMAIN live /\ \A n \in theirs : Name(sender) \in live[n].who
    OBVIOUS
  <2> HIDE DEF live, theirs, result
  <2>3. QED
    BY <1>2, <2>1, <2>2 DEF result
<1>5. CASE /\ ~ (quoted = Nobody \/ Number(quoted) = Name(sender))
           /\ theirs = {}
  <2> DEFINE new == [who |-> two, last |-> threadClock]
  <2>1. result = Append(live, new)
    BY <1>5 DEF TrackMessage
  <2>2. new \in Threads
    BY <1>5 DEF Threads, Names, Number
  <2> HIDE DEF live, theirs, new, Old
  <2>3. /\ result \in Seq(Threads) /\ DOMAIN result = 1 .. Len(live) + 1
        /\ Len(live) \in Nat /\ DOMAIN live = 1 .. Len(live)
        /\ \A n \in 1 .. Len(live) : result[n] = live[n]
        /\ result[Len(live) + 1] = new
    <3> HIDE DEF result
    <3>1. QED
      BY <1>1, <2>1, <2>2
  <2>4. \A n \in DOMAIN live : Old(live[n])
    BY <1>1 DEF Old
  <2> HIDE DEF result
  <2>5. \A n \in DOMAIN result : result[n] = new \/ Old(result[n])
    BY <2>3, <2>4
  <2>6. QED
    BY <1>5, <2>3, <2>5 DEF result, new, Old
<1>6. QED
  BY <1>3, <1>4, <1>5

(* A message is passed over as part of a talk that goes on, and its sender *)
(* is one of the two.                                                      *)
LEMMA MessageKeepsTalks ==
    ASSUME GroupInv, NEW sender \in Members, NEW quoted \in Members \cup {Herself, Nobody},
           NEW named, NEW slash, NEW at, GroupMessage(sender, quoted, named, slash, at)
    PROVE  GroupInv'
<1> DEFINE row == [by |-> sender, to |-> quoted, when |-> threadClock]
           more == Append(said, row)
<1>1. /\ threads' = TrackMessage(sender, quoted) /\ said' = more
      /\ threadClock' = threadClock /\ threadClock \in Nat /\ row \in Rows
  BY DEF GroupMessage, GroupInv, Rows
<1>2. more \in Seq(Rows) /\ said \in Seq(Rows) /\ DOMAIN said \subseteq DOMAIN more
      /\ \A k \in DOMAIN said : more[k] = said[k]
  BY <1>1 DEF GroupInv
<1>3. /\ threads' \in Seq(Threads)
      /\ \A n \in DOMAIN threads' :
            \/ quoted # Nobody /\ threads'[n] = [who |-> {Name(sender), Number(quoted)},
                                                 last |-> threadClock]
            \/ \E m \in DOMAIN threads :
                 /\ NotExpired(threads[m])
                 /\ threads'[n].who = threads[m].who
                 /\ \/ threads'[n].last = threads[m].last
                    \/ Name(sender) \in threads'[n].who /\ threads'[n].last = threadClock
  BY <1>1, Tracked DEF GroupInv
<1>4. ASSUME NEW thread \in Threads, thread.last <= threadClock, IsTalk(said, thread)
      PROVE  /\ IsTalk(more, thread)
             /\ NotExpired(thread) /\ Name(sender) \in thread.who =>
                  \E k \in DOMAIN more : /\ thread.who = {Name(more[k].by), Number(more[k].to)}
                                         /\ Talk(more, k, threadClock)
                                         /\ sender \in TwoOf(more, k)
  <2>1. PICK k \in DOMAIN said : /\ thread.who = {Name(said[k].by), Number(said[k].to)}
                                 /\ Talk(said, k, thread.last)
    BY <1>4 DEF IsTalk
  <2>2. thread.last \in Nat
    BY DEF Threads
  <2> HIDE DEF row
  <2>3. Talk(more, k, thread.last)
    BY <1>1, <1>2, <2>1, <2>2, TalkLasts
  <2>4. k \in DOMAIN more /\ more[k] = said[k]
    BY <1>2
  <2>5. IsTalk(more, thread)
    <3> HIDE DEF more
    <3>1. QED
      BY <2>1, <2>3, <2>4 DEF IsTalk
  <2>6. ASSUME NotExpired(thread), Name(sender) \in thread.who
        PROVE  Talk(more, k, threadClock) /\ sender \in TwoOf(more, k)
    <3>1. sender \in TwoOf(said, k)
      BY <2>1, <2>6, NamesTell DEF TwoOf
    <3>2. row.by = sender /\ row.when = threadClock
      BY DEF row
    <3>3. threadClock - thread.last < ThreadTimeout
      BY <2>6 DEF NotExpired
    <3>4. Talk(more, k, threadClock)
      BY <1>1, <1>2, <1>4, <2>1, <2>2, <3>1, <3>2, <3>3, TalkCarriesOn
    <3>5. QED
      BY <2>4, <3>1, <3>4 DEF TwoOf
  <2> HIDE DEF more
  <2>7. QED
    BY <2>1, <2>4, <2>5, <2>6
<1>5. quoted # Nobody => IsTalk(more, [who |-> {Name(sender), Number(quoted)},
                                       last |-> threadClock])
  <2>1. row.by = sender /\ row.to = quoted /\ row.when = threadClock
    OBVIOUS
  <2> HIDE DEF row
  <2>2. QED
    BY <1>1, <1>2, <2>1, TalkBegins
<1> HIDE DEF more
<1>6. ASSUME NEW n \in DOMAIN threads'
      PROVE  /\ threads'[n].last <= threadClock /\ IsTalk(more, threads'[n])
             /\ Name(sender) \in threads'[n].who =>
                  \E k \in DOMAIN more : Talk(more, k, threadClock) /\ sender \in TwoOf(more, k)
  <2>1. CASE quoted # Nobody /\ threads'[n] = [who |-> {Name(sender), Number(quoted)},
                                               last |-> threadClock]
    <3>1. threads'[n].last = threadClock /\ IsTalk(more, threads'[n])
      BY <1>5, <2>1
    <3>2. PICK k \in DOMAIN more :
             /\ threads'[n].who = {Name(more[k].by), Number(more[k].to)}
             /\ Talk(more, k, threadClock)
      BY <3>1 DEF IsTalk
    <3>3. sender \in TwoOf(more, k)
      <4>1. Name(sender) \in {Name(more[k].by), Number(more[k].to)}
        BY <2>1, <3>2
      <4>2. QED
        BY <4>1, NamesTell DEF TwoOf
    <3>4. QED
      BY <1>1, <3>1, <3>2, <3>3
  <2>2. ASSUME NEW m \in DOMAIN threads, NotExpired(threads[m]),
               threads'[n].who = threads[m].who,
               \/ threads'[n].last = threads[m].last
               \/ Name(sender) \in threads'[n].who /\ threads'[n].last = threadClock
        PROVE  /\ threads'[n].last <= threadClock /\ IsTalk(more, threads'[n])
               /\ Name(sender) \in threads'[n].who =>
                    \E k \in DOMAIN more :
                       Talk(more, k, threadClock) /\ sender \in TwoOf(more, k)
    <3>1. threads[m] \in Threads /\ threads[m].last <= threadClock /\ IsTalk(said, threads[m])
      BY DEF GroupInv
    <3>2. /\ IsTalk(more, threads[m])
          /\ Name(sender) \in threads[m].who =>
               \E k \in DOMAIN more : /\ threads[m].who = {Name(more[k].by), Number(more[k].to)}
                                      /\ Talk(more, k, threadClock)
                                      /\ sender \in TwoOf(more, k)
      BY <1>4, <2>2, <3>1
    <3>3. threads'[n].last <= threadClock
      BY <1>1, <2>2, <3>1
    <3>4. IsTalk(more, threads'[n])
      <4>1. CASE threads'[n].last = threads[m].last
        BY <2>2, <3>2, <4>1 DEF IsTalk
      <4>2. CASE Name(sender) \in threads'[n].who /\ threads'[n].last = threadClock
        BY <2>2, <3>2, <4>2 DEF IsTalk
      <4>3. QED
        BY <2>2, <4>1, <4>2
    <3>5. QED
      BY <2>2, <3>2, <3>3, <3>4
  <2>3. QED
    BY <1>3, <2>1, <2>2
<1>7. SkipsFollowTalk'
  <2>1. SUFFICES ASSUME Skipped'
                 PROVE  (\E k \in DOMAIN said : verdict.whose \in Pair(k) /\ TalkGoesOn(k))'
    BY DEF SkipsFollowTalk
  <2>2. verdict'.whose = sender /\ PartOfOtherThread(threads', sender)
    BY <2>1 DEF GroupMessage, Skipped, FilterGroupMessage
  <2>3. PICK n \in DOMAIN threads' : Name(sender) \in threads'[n].who
    BY <2>2 DEF PartOfOtherThread
  <2>4. PICK k \in DOMAIN more : Talk(more, k, threadClock) /\ sender \in TwoOf(more, k)
    BY <1>6, <2>3
  <2>5. verdict'.whose \in {said'[k].by, said'[k].to}
    BY <1>1, <2>2, <2>4 DEF TwoOf
  <2>6. /\ said'[k].to # Nobody
        /\ \A t \in said'[k].when .. threadClock' :
             \E m \in k .. Len(said') : /\ said'[m].by \in {said'[k].by, said'[k].to}
                                        /\ said'[m].when \in (t - (ThreadTimeout - 2)) .. t
    BY <1>1, <2>4 DEF Talk, TwoOf
  <2>7. QED
    BY <1>1, <2>4, <2>5, <2>6 DEF Pair, TalkGoesOn
<1>8. QED
  BY <1>1, <1>2, <1>3, <1>6, <1>7 DEF GroupInv

(***************************************************************************)
(* Nobody is passed over for a talk he takes no part in, or took part in   *)
(* once, for any members, names and quotes, and any two windows of which   *)
(* the one to carry a thread on is the shorter.                            *)
(***************************************************************************)
THEOREM SkipsFollowTheirTalk == GroupGateSpec => []SkipsFollowTalk
<1>1. GroupGateInit => GroupInv
  BY DEF GroupGateInit, GroupInv, SkipsFollowTalk, Skipped, Noted
<1>2. GroupInv /\ [GroupGateNext]_groupVars => GroupInv'
  <2> SUFFICES ASSUME GroupInv, [GroupGateNext]_groupVars PROVE GroupInv'
    OBVIOUS
  <2>1. ASSUME NEW sender \in Members, NEW quoted \in Members \cup {Herself, Nobody},
               NEW named \in BOOLEAN, NEW slash \in BOOLEAN, NEW at \in {"nobody", "her", "other"},
               GroupMessage(sender, quoted, named, slash, at)
        PROVE  GroupInv'
    BY <2>1, MessageKeepsTalks
  <2>2. ASSUME NEW on \in BOOLEAN, MuteGroup(on)
        PROVE  GroupInv'
    BY <2>2 DEF MuteGroup, GroupInv, SkipsFollowTalk, Skipped, Noted
  <2>3. CASE GroupRestart
    BY <2>3 DEF GroupRestart, GroupInv, SkipsFollowTalk, Skipped, Noted
  <2>4. CASE GroupTime
    <3>1. /\ threads' = threads /\ said' = said /\ threadClock' \in Nat
          /\ threadClock <= threadClock' /\ threadClock \in Nat /\ ~ Skipped'
      BY <2>4 DEF GroupTime, GroupInv, Skipped, Noted
    <3>2. ASSUME NEW n \in DOMAIN threads
          PROVE  threads[n].last <= threadClock' /\ IsTalk(said, threads[n])
      <4>1. threads[n].last \in Nat
        <5>1. threads[n] \in Threads
          BY DEF GroupInv
        <5>2. QED
          BY <5>1 DEF Threads
      <4>2. QED
        BY <3>1, <4>1 DEF GroupInv
    <3>3. QED
      BY <3>1, <3>2 DEF GroupInv, SkipsFollowTalk
  <2>5. CASE UNCHANGED groupVars
    BY <2>5 DEF groupVars, GroupInv, SkipsFollowTalk, Skipped, TalkGoesOn, Pair
  <2>6. QED
    BY <2>1, <2>2, <2>3, <2>4, <2>5 DEF GroupGateNext
<1>3. GroupInv => SkipsFollowTalk
  BY DEF GroupInv
<1>4. QED
  BY <1>1, <1>2, <1>3, PTL DEF GroupGateSpec

-----------------------------------------------------------------------------
(* Standing orders *)

Ordered == [id : Nat, subsystem : RuleSubsystems \cup {EverySubsystem},
            action : {"block", "allow"}, about : Matters \cup {AnyMatter}, dies : Nat]

(* A list of rules whose ids are all different, and at most n. *)
Numbered(rules, n) ==
    /\ rules \in Seq(Ordered)
    /\ \A k \in DOMAIN rules : rules[k].id <= n
    /\ \A j, k \in DOMAIN rules : rules[j].id = rules[k].id => j = k

(* Such a list holds of the rules in force and not doubted those told of.  *)
Agree(rules, those, but, now) ==
    \A rule \in Ordered :
      (rule.dies = 0 \/ rule.dies > now) /\ rule.id \notin but =>
        (rule \in those <=> rule \in Range(rules))

RulesInv ==
    /\ ruleCache.at \in Int /\ ruleClock \in Nat /\ ruleCount \in Nat /\ ruleFaults \in Nat
    /\ told \subseteq Ordered
    /\ Numbered(ruleFile, ruleCount) /\ Numbered(ruleCache.rules, ruleCount)
    /\ Agree(ruleFile, told, doubted, ruleClock)
    /\ CacheFresh => Agree(ruleCache.rules, told, doubted, ruleClock)
    /\ ruleFaults = 0 => /\ CacheFresh => ruleCache.rules = ruleFile
                         /\ \A n \in DOMAIN shown : /\ n \in DOMAIN ruleFile
                                                    /\ shown[n] = ruleFile[n].id

LEMMA KeptNumbered ==
    ASSUME NEW n \in Nat, NEW s, Numbered(s, n), NEW S
    PROVE  Numbered(Keep(s, S), n) /\ Range(Keep(s, S)) = Range(s) \cap S
<1> DEFINE t == Keep(s, S)
<1>1. /\ s \in Seq(Ordered) /\ \A k \in DOMAIN s : s[k].id <= n
      /\ \A j, k \in DOMAIN s : s[j].id = s[k].id => j = k
  BY DEF Numbered
<1>2. /\ t \in Seq(Ordered) /\ Range(t) = Range(s) \cap S
      /\ (\A j, k \in DOMAIN s : s[j] = s[k] => j = k) =>
            \A j, k \in DOMAIN t : t[j] = t[k] => j = k
  BY <1>1, KeptOnce
<1> HIDE DEF t
<1>3. \A j, k \in DOMAIN t : t[j] = t[k] => j = k
  BY <1>1, <1>2
<1>4. \A k \in DOMAIN t : \E j \in DOMAIN s : t[k] = s[j]
  BY <1>2 DEF Range
<1>5. \A k \in DOMAIN t : t[k].id <= n
  BY <1>1, <1>4
<1>6. ASSUME NEW j \in DOMAIN t, NEW k \in DOMAIN t, t[j].id = t[k].id
      PROVE  j = k
  <2>1. PICK a \in DOMAIN s : t[j] = s[a]
    BY <1>4
  <2>2. PICK b \in DOMAIN s : t[k] = s[b]
    BY <1>4
  <2>3. a = b
    BY <1>1, <1>6, <2>1, <2>2
  <2>4. QED
    BY <1>3, <2>1, <2>2, <2>3
<1>7. Numbered(t, n)
  BY <1>2, <1>5, <1>6 DEF Numbered
<1> QED
  BY <1>2, <1>7 DEF t

LEMMA MoreDoubtsAgree ==
    ASSUME NEW s, NEW those, NEW but, NEW more, but \subseteq more,
           NEW now \in Nat, NEW later \in Nat, now <= later, Agree(s, those, but, now)
    PROVE  Agree(s, those, more, later)
<1>1. \A rule \in Ordered : rule.dies \in Nat
  BY DEF Ordered
<1> QED
  BY <1>1 DEF Agree

(* A rule added: what is dropped as the oldest is doubted. *)
LEMMA AddedRule ==
    ASSUME NEW n \in Nat, NEW s, Numbered(s, n), NEW rule \in Ordered, rule.id = n + 1
    PROVE  LET all == Append(s, rule)
               left == KeptRules(all)
               gone == Ids(all) \ Ids(left)
           IN  /\ Numbered(left, n + 1)
               /\ Range(left) \subseteq Range(s) \cup {rule}
               /\ \A x \in Range(s) \cup {rule} : x.id \notin gone => x \in Range(left)
               /\ gone = {} => left = all
<1> DEFINE all == Append(s, rule)
           left == KeptRules(all)
           gone == Ids(all) \ Ids(left)
<1>1. /\ s \in Seq(Ordered) /\ \A k \in DOMAIN s : s[k].id <= n
      /\ \A j, k \in DOMAIN s : s[j].id = s[k].id => j = k
  BY DEF Numbered
<1>2. \A x \in Ordered : x.id \in Nat
  BY DEF Ordered
<1>3. /\ Len(s) \in Nat /\ DOMAIN s = 1 .. Len(s) /\ DOMAIN all = 1 .. Len(s) + 1
      /\ all \in Seq(Ordered) /\ all # << >> /\ Len(all) = Len(s) + 1
      /\ \A k \in 1 .. Len(s) : all[k] = s[k] /\ s[k] \in Ordered
      /\ all[Len(s) + 1] = rule
  BY <1>1
<1> HIDE DEF all
<1>4. Numbered(all, n + 1)
  <2>1. \A k \in DOMAIN all : all[k].id <= n + 1
    BY <1>1, <1>2, <1>3
  <2>2. ASSUME NEW j \in DOMAIN all, NEW k \in DOMAIN all, all[j].id = all[k].id
        PROVE  j = k
    <3>1. CASE j \in 1 .. Len(s) /\ k \in 1 .. Len(s)
      BY <1>1, <1>3, <2>2, <3>1
    <3>2. CASE j = Len(s) + 1 /\ k = Len(s) + 1
      BY <3>2
    <3>3. \A i \in 1 .. Len(s) : all[i].id # rule.id
      BY <1>1, <1>2, <1>3
    <3>4. QED
      BY <1>3, <2>2, <3>1, <3>2, <3>3
  <2>3. QED
    BY <1>3, <2>1, <2>2 DEF Numbered
<1>5. Range(all) = Range(s) \cup {rule}
  BY <1>3 DEF Range
<1>6. CASE left = all
  <2>1. gone = {}
    BY <1>6
  <2> HIDE DEF gone, left
  <2>2. /\ Numbered(left, n + 1)
        /\ Range(left) \subseteq Range(s) \cup {rule}
        /\ \A x \in Range(s) \cup {rule} : x.id \notin gone => x \in Range(left)
        /\ gone = {} => left = all
    BY <1>4, <1>5, <1>6
  <2>3. QED
    BY <2>2 DEF gone, left, all
<1>7. CASE left = Tail(all)
  <2>1. /\ Tail(all) \in Seq(Ordered) /\ all[1] \in Ordered /\ 1 \in DOMAIN all
        /\ \A k \in DOMAIN Tail(all) : k + 1 \in DOMAIN all /\ Tail(all)[k] = all[k + 1]
        /\ \A k \in DOMAIN all : k = 1 \/ (k - 1 \in DOMAIN Tail(all) /\ all[k] = Tail(all)[k - 1])
        /\ \A j, k \in DOMAIN Tail(all) : j + 1 = k + 1 => j = k
        /\ Range(all) = {all[1]} \cup Range(Tail(all))
    BY <1>3, TailOf
  <2>2. left \in Seq(Ordered) /\ \A k \in DOMAIN left : k \in Nat /\ 1 <= k
    <3>1. left \in Seq(Ordered)
      BY <1>7, <2>1
    <3>2. DOMAIN left = 1 .. Len(left) /\ Len(left) \in Nat
      BY <3>1
    <3>3. QED
      BY <3>1, <3>2
  <2> HIDE DEF left
  <2>3. Numbered(left, n + 1)
    <3>1. \A k \in DOMAIN left : left[k].id <= n + 1
      BY <1>4, <1>7, <2>1 DEF Numbered
    <3>2. \A j, k \in DOMAIN left : left[j].id = left[k].id => j = k
      BY <1>4, <1>7, <2>1 DEF Numbered
    <3>3. QED
      BY <2>2, <3>1, <3>2 DEF Numbered
  <2>4. all[1].id \notin Ids(left)
    <3> SUFFICES ASSUME NEW k \in DOMAIN left, left[k].id = all[1].id PROVE FALSE
      BY DEF Ids
    <3>1. k + 1 \in DOMAIN all /\ all[k + 1].id = all[1].id
      BY <1>7, <2>1
    <3>2. k + 1 = 1
      BY <1>4, <2>1, <3>1 DEF Numbered
    <3>3. QED
      BY <2>2, <3>2
  <2>5. all[1].id \in gone
    BY <2>1, <2>4 DEF Ids
  <2>6. \A x \in Range(all) : x.id \notin gone => x \in Range(left)
    BY <1>7, <2>1, <2>5
  <2> HIDE DEF gone
  <2>7. /\ Numbered(left, n + 1)
        /\ Range(left) \subseteq Range(s) \cup {rule}
        /\ \A x \in Range(s) \cup {rule} : x.id \notin gone => x \in Range(left)
        /\ gone = {} => left = all
    BY <1>5, <1>7, <2>1, <2>3, <2>5, <2>6
  <2>8. QED
    BY <2>7 DEF left, gone, all
<1>8. left = all \/ left = Tail(all)
  BY DEF KeptRules
<1>9. QED
  BY <1>6, <1>7, <1>8

LEMMA RemovedRule ==
    ASSUME NEW n \in Nat, NEW s, Numbered(s, n), NEW i \in DOMAIN s
    PROVE  /\ Numbered(RemoveAt(s, i), n)
           /\ \A x \in Ordered : x \in Range(RemoveAt(s, i))
                                   <=> x \in Range(s) /\ x.id # s[i].id
<1> DEFINE t == RemoveAt(s, i)
           from == [k \in 1 .. Len(s) - 1 |-> IF k < i THEN k ELSE k + 1]
<1>1. /\ s \in Seq(Ordered) /\ \A k \in DOMAIN s : s[k].id <= n
      /\ \A j, k \in DOMAIN s : s[j].id = s[k].id => j = k
  BY DEF Numbered
<1>2. Len(s) \in Nat /\ DOMAIN s = 1 .. Len(s) /\ i \in 1 .. Len(s)
  BY <1>1
<1>3. /\ t \in Seq(Ordered) /\ Len(t) = Len(s) - 1
      /\ \A k \in 1 .. Len(s) - 1 : t[k] = s[from[k]]
  <2>1. /\ SubSeq(s, 1, i - 1) \in Seq(Ordered) /\ Len(SubSeq(s, 1, i - 1)) = i - 1
        /\ \A k \in 1 .. i - 1 : SubSeq(s, 1, i - 1)[k] = s[k]
    BY <1>1, <1>2
  <2>2. /\ SubSeq(s, i + 1, Len(s)) \in Seq(Ordered)
        /\ Len(SubSeq(s, i + 1, Len(s))) = Len(s) - i
        /\ \A k \in 1 .. Len(s) - i : SubSeq(s, i + 1, Len(s))[k] = s[i + k]
    BY <1>1, <1>2
  <2> DEFINE a == SubSeq(s, 1, i - 1)
             b == SubSeq(s, i + 1, Len(s))
  <2>3. t = a \o b
    BY DEF RemoveAt
  <2> HIDE DEF a, b, t
  <2>4. a \in Seq(Ordered) /\ b \in Seq(Ordered) /\ Len(a) = i - 1 /\ Len(b) = Len(s) - i
    BY <2>1, <2>2 DEF a, b
  <2>5. /\ t \in Seq(Ordered) /\ Len(t) = Len(s) - 1
        /\ \A k \in 1 .. i - 1 : t[k] = a[k]
        /\ \A k \in i .. Len(s) - 1 : t[k] = b[k - (i - 1)]
    <3>1. /\ t \in Seq(Ordered) /\ Len(t) = Len(a) + Len(b)
          /\ \A k \in 1 .. Len(a) : t[k] = a[k]
          /\ \A k \in Len(a) + 1 .. Len(a) + Len(b) : t[k] = b[k - Len(a)]
      <4>1. \A S : \A c, d \in Seq(S) :
              /\ c \o d \in Seq(S) /\ Len(c \o d) = Len(c) + Len(d)
              /\ \A k \in 1 .. Len(c) + Len(d) :
                    (c \o d)[k] = IF k <= Len(c) THEN c[k] ELSE d[k - Len(c)]
        BY ConcatProperties
      <4>2. Len(a) \in Nat /\ Len(b) \in Nat
        BY <2>4
      <4>3. /\ t \in Seq(Ordered) /\ Len(t) = Len(a) + Len(b)
            /\ \A k \in 1 .. Len(a) + Len(b) :
                  t[k] = IF k <= Len(a) THEN a[k] ELSE b[k - Len(a)]
        BY <2>3, <2>4, <4>1
      <4> HIDE DEF from
      <4>4. ASSUME NEW k \in 1 .. Len(a) PROVE t[k] = a[k]
        BY <4>2, <4>3
      <4>5. ASSUME NEW k \in Len(a) + 1 .. Len(a) + Len(b) PROVE t[k] = b[k - Len(a)]
        BY <4>2, <4>3
      <4>6. QED
        BY <4>3, <4>4, <4>5
    <3>2. i - 1 + (Len(s) - i) = Len(s) - 1 /\ i - 1 + 1 = i
      BY <1>2
    <3>3. QED
      BY <2>4, <3>1, <3>2
  <2>6. \A k \in 1 .. i - 1 : a[k] = s[k]
    BY <2>1 DEF a
  <2>7. \A k \in 1 .. Len(s) - i : b[k] = s[i + k]
    BY <2>2 DEF b
  <2>8. ASSUME NEW k \in 1 .. Len(s) - 1
        PROVE  t[k] = s[from[k]]
    <3>1. CASE k < i
      BY <1>2, <2>5, <2>6, <3>1
    <3>2. CASE ~ (k < i)
      <4>1. k \in i .. Len(s) - 1 /\ k - (i - 1) \in 1 .. Len(s) - i /\ i + (k - (i - 1)) = k + 1
        BY <1>2, <3>2
      <4>2. t[k] = s[k + 1]
        BY <2>5, <2>7, <4>1
      <4>3. QED
        BY <3>2, <4>2
    <3>3. QED
      BY <3>1, <3>2
  <2>9. QED
    BY <2>5, <2>8
<1>4. /\ \A k \in 1 .. Len(s) - 1 : from[k] \in 1 .. Len(s) /\ from[k] # i
      /\ \A j, k \in 1 .. Len(s) - 1 : from[j] = from[k] => j = k
      /\ \A m \in 1 .. Len(s) : m # i => \E k \in 1 .. Len(s) - 1 : from[k] = m
  <2>1. \A k \in 1 .. Len(s) - 1 : from[k] \in 1 .. Len(s) /\ from[k] # i
    BY <1>2
  <2>2. \A j, k \in 1 .. Len(s) - 1 : from[j] = from[k] => j = k
    BY <1>2
  <2>3. ASSUME NEW m \in 1 .. Len(s), m # i
        PROVE  \E k \in 1 .. Len(s) - 1 : from[k] = m
    <3>1. CASE m < i
      BY <1>2, <3>1
    <3>2. CASE m > i
      <4>1. m - 1 \in 1 .. Len(s) - 1 /\ ~ (m - 1 < i) /\ m - 1 + 1 = m
        BY <1>2, <3>2
      <4>2. QED
        BY <4>1
    <3>3. QED
      BY <1>2, <2>3, <3>1, <3>2
  <2>4. QED
    BY <2>1, <2>2, <2>3
<1>5. DOMAIN t = 1 .. Len(s) - 1
  BY <1>2, <1>3
<1> HIDE DEF t, from
<1>6. Numbered(t, n)
  <2>1. \A k \in DOMAIN t : t[k].id <= n
    BY <1>1, <1>2, <1>3, <1>4, <1>5
  <2>2. ASSUME NEW j \in DOMAIN t, NEW k \in DOMAIN t, t[j].id = t[k].id
        PROVE  j = k
    <3>1. from[j] \in DOMAIN s /\ from[k] \in DOMAIN s /\ s[from[j]].id = s[from[k]].id
      BY <1>2, <1>3, <1>4, <1>5, <2>2
    <3>2. from[j] = from[k]
      BY <1>1, <3>1
    <3>3. QED
      BY <1>4, <1>5, <3>2
  <2>3. QED
    BY <1>3, <2>1, <2>2 DEF Numbered
<1>7. ASSUME NEW x \in Ordered
      PROVE  x \in Range(t) <=> x \in Range(s) /\ x.id # s[i].id
  <2>1. ASSUME x \in Range(t) PROVE x \in Range(s) /\ x.id # s[i].id
    <3>1. PICK k \in 1 .. Len(s) - 1 : x = t[k]
      BY <1>5, <2>1 DEF Range
    <3>2. x = s[from[k]] /\ from[k] \in DOMAIN s /\ from[k] # i
      BY <1>2, <1>3, <1>4, <3>1
    <3>3. QED
      BY <1>1, <3>2 DEF Range
  <2>2. ASSUME x \in Range(s), x.id # s[i].id PROVE x \in Range(t)
    <3>1. PICK m \in 1 .. Len(s) : x = s[m] /\ m # i
      BY <1>2, <2>2 DEF Range
    <3>2. PICK k \in 1 .. Len(s) - 1 : from[k] = m
      BY <1>4, <3>1
    <3>3. QED
      BY <1>3, <1>5, <3>1, <3>2 DEF Range
  <2>3. QED
    BY <2>1, <2>2
<1>8. QED
  BY <1>6, <1>7 DEF t

(* A load brings nothing but the file without what expired. *)
LEMMA LoadedAgrees ==
    ASSUME RulesInv
    PROVE  /\ Numbered(Loaded, ruleCount) /\ Numbered(FileOnceLoaded, ruleCount)
           /\ Agree(Loaded, told, doubted, ruleClock)
           /\ Agree(FileOnceLoaded, told, doubted, ruleClock)
           /\ LoadedAt \in Int
           /\ ruleFaults = 0 => Loaded = FileOnceLoaded
<1>1. Numbered(Pruned(ruleFile), ruleCount)
  BY KeptNumbered DEF RulesInv, Pruned
<1>2. Agree(Pruned(ruleFile), told, doubted, ruleClock)
  <2>1. Range(Pruned(ruleFile)) =
          Range(ruleFile) \cap {rule \in Range(ruleFile) : InForce(rule)}
    BY KeptNumbered DEF RulesInv, Pruned
  <2>2. QED
    BY <2>1 DEF RulesInv, Agree, InForce
<1>3. QED
  BY <1>1, <1>2 DEF RulesInv, Loaded, FileOnceLoaded, LoadedAt

(* What a question leaves in the cache is as good as the file. *)
LEMMA AskKeepsRules ==
    ASSUME RulesInv, ruleFile' = FileOnceLoaded,
           ruleCache' = [rules |-> Loaded, at |-> LoadedAt],
           UNCHANGED <<ruleClock, ruleCount, ruleFaults, told, doubted>>,
           ruleFaults = 0 => \A n \in DOMAIN shown' : /\ n \in DOMAIN FileOnceLoaded
                                                      /\ shown'[n] = FileOnceLoaded[n].id
    PROVE  RulesInv'
<1>1. ruleCache'.rules = Loaded /\ ruleCache'.at = LoadedAt
  OBVIOUS
<1>2. QED
  BY <1>1, LoadedAgrees DEF RulesInv

(* The step of every action that saves, successful or not. *)
LEMMA NoCacheIsStale ==
    ASSUME ruleClock' \in Nat, ruleCache' = NoCache
    PROVE  ~ CacheFresh' /\ ruleCache'.rules = << >> /\ ruleCache'.at \in Int
<1>1. ruleCache'.rules = << >> /\ ruleCache'.at = 0 - CacheTicks
  BY DEF NoCache
<1>2. ruleCache'.at \in Int /\ ~ (ruleClock' - ruleCache'.at < CacheTicks)
  <2>1. 0 - CacheTicks \in Int /\ \A t \in Nat : ~ (t - (0 - CacheTicks) < CacheTicks)
    BY CacheAssumption
  <2>2. QED
    BY <1>1, <2>1
<1>3. QED
  BY <1>1, <1>2 DEF CacheFresh

LEMMA NothingIsNumbered == \A n \in Nat : Numbered(<< >>, n)
  BY DEF Numbered

LEMMA AllDoubted ==
    ASSUME told \subseteq Ordered
    PROVE  \A but : ToldIds \subseteq but => Agree(<< >>, told, but, ruleClock)
  BY DEF Agree, ToldIds, Range

(* SaveFails, of a list that holds what was loaded but for what it touches. *)
LEMMA FailureIsDoubted ==
    ASSUME RulesInv, NEW rules, NEW touched, SaveFails(rules, touched),
           ruleCount' \in Nat, ruleCount <= ruleCount', ruleClock' = ruleClock,
           Numbered(rules, ruleCount'),
           Agree(rules, told, doubted \cup touched, ruleClock)
    PROVE  RulesInv'
<1>1. /\ ruleFaults' = ruleFaults + 1 /\ told' = told
      /\ ruleCache'.rules = rules /\ ruleCache'.at = LoadedAt
      /\ \/ ruleFile' = FileOnceLoaded /\ doubted' = doubted \cup touched
         \/ ruleFile' = <<>> /\ doubted' = doubted \cup touched \cup ToldIds
  BY DEF SaveFails
<1>2. ruleFaults' \in Nat /\ ruleFaults' # 0
  BY <1>1 DEF RulesInv
<1>3. Agree(rules, told, doubted', ruleClock)
  BY <1>1, MoreDoubtsAgree DEF RulesInv
<1>4. Numbered(FileOnceLoaded, ruleCount')
  <2>1. \A x \in Ordered : x.id \in Nat
    BY DEF Ordered
  <2>2. Numbered(FileOnceLoaded, ruleCount) /\ ruleCount \in Nat
    BY LoadedAgrees DEF RulesInv
  <2>3. QED
    BY <2>1, <2>2 DEF Numbered
<1>5. Numbered(ruleFile', ruleCount') /\ Agree(ruleFile', told, doubted', ruleClock)
  <2>1. CASE ruleFile' = FileOnceLoaded /\ doubted' = doubted \cup touched
    BY <1>4, <2>1, LoadedAgrees, MoreDoubtsAgree DEF RulesInv
  <2>2. CASE ruleFile' = <<>> /\ doubted' = doubted \cup touched \cup ToldIds
    BY <2>2, NothingIsNumbered, AllDoubted DEF RulesInv
  <2>3. QED
    BY <1>1, <2>1, <2>2
<1>6. QED
  BY <1>1, <1>2, <1>3, <1>5, LoadedAgrees DEF RulesInv

(* One lemma for each action that changes the rules. *)
LEMMA AddKeepsRules ==
    ASSUME RulesInv, NEW order \in RuleOrders, AddRule(order)
    PROVE  RulesInv'
<1> DEFINE rule == [id |-> ruleCount + 1, subsystem |-> order.subsystem,
                    action |-> order.action, about |-> order.about,
                    dies |-> ComputeExpiry(order)]
           all == Append(Loaded, rule)
           left == KeptRules(all)
           gone == Ids(all) \ Ids(left)
<1>1. rule \in Ordered /\ rule.id = ruleCount + 1 /\ ruleCount \in Nat
  <2>1. /\ order.subsystem \in RuleSubsystems \cup {EverySubsystem}
        /\ order.action \in {"block", "allow"} /\ order.about \in Matters \cup {AnyMatter}
        /\ order.lasts \in Nat
    BY OrdersAreRules
  <2>2. ComputeExpiry(order) \in Nat
    BY <2>1 DEF ComputeExpiry, RulesInv
  <2>3. QED
    BY <2>1, <2>2 DEF Ordered, RulesInv
<1> HIDE DEF rule
<1>2. /\ Numbered(left, ruleCount + 1)
      /\ Range(left) \subseteq Range(Loaded) \cup {rule}
      /\ \A x \in Range(Loaded) \cup {rule} : x.id \notin gone => x \in Range(left)
      /\ gone = {} => left = all
  BY <1>1, LoadedAgrees, AddedRule
<1>3. /\ ruleCount' = ruleCount + 1 /\ ruleClock' = ruleClock
      /\ shown' = IF gone = {} /\ FileOnceLoaded = ruleFile THEN shown ELSE <<>>
      /\ \/ /\ SaveStore(left)
            /\ told' = told \cup {rule} /\ doubted' = doubted \cup gone
         \/ SaveFails(left, gone \cup {rule.id})
  BY DEF AddRule, rule
<1> HIDE DEF left, gone
<1>4. CASE /\ SaveStore(left)
           /\ told' = told \cup {rule} /\ doubted' = doubted \cup gone
  <2>1. ruleFile' = left /\ ruleCache' = NoCache /\ ruleFaults' = ruleFaults
    BY <1>4 DEF SaveStore
  <2>2. Agree(left, told', doubted', ruleClock)
    <3>1. Agree(Loaded, told, doubted, ruleClock)
      BY LoadedAgrees
    <3>2. QED
      BY <1>2, <1>4, <3>1 DEF Agree
  <2>3. ASSUME ruleFaults' = 0, NEW n \in DOMAIN shown'
        PROVE  n \in DOMAIN left /\ shown'[n] = left[n].id
    <3>1. gone = {} /\ FileOnceLoaded = ruleFile /\ shown' = shown
      BY <1>3, <2>3
    <3>2. Loaded = ruleFile /\ n \in DOMAIN ruleFile /\ shown[n] = ruleFile[n].id
      BY <2>1, <2>3, <3>1, LoadedAgrees DEF RulesInv
    <3>3. Loaded \in Seq(Ordered)
      BY LoadedAgrees DEF Numbered
    <3>4. n \in DOMAIN all /\ all[n] = Loaded[n]
      BY <3>2, <3>3
    <3>5. QED
      BY <1>2, <3>1, <3>2, <3>4
  <2>4. ~ CacheFresh' /\ ruleCache'.rules = << >> /\ ruleCache'.at \in Int
    BY <1>3, <2>1, NoCacheIsStale DEF RulesInv
  <2>5. told' \subseteq Ordered
    BY <1>1, <1>4 DEF RulesInv
  <2>6. Numbered(ruleFile', ruleCount') /\ Numbered(ruleCache'.rules, ruleCount')
        /\ ruleCount' \in Nat
    BY <1>1, <1>2, <1>3, <2>1, <2>4, NothingIsNumbered
  <2>7. QED
    BY <1>3, <2>1, <2>2, <2>3, <2>4, <2>5, <2>6 DEF RulesInv
<1>5. CASE SaveFails(left, gone \cup {rule.id})
  <2>1. Agree(left, told, doubted \cup (gone \cup {rule.id}), ruleClock)
    <3>1. Agree(Loaded, told, doubted, ruleClock)
      BY LoadedAgrees
    <3>2. QED
      BY <1>2, <3>1 DEF Agree
  <2>2. ruleCount' \in Nat /\ ruleCount <= ruleCount' /\ Numbered(left, ruleCount')
    BY <1>1, <1>2, <1>3
  <2>3. QED
    BY <1>3, <1>5, <2>1, <2>2, FailureIsDoubted
<1>6. QED
  BY <1>3, <1>4, <1>5

LEMMA RemoveKeepsRules ==
    ASSUME RulesInv, NEW n \in DOMAIN Loaded, NEW meant, Removes(n, meant),
           meant = Loaded[n].id
    PROVE  RulesInv'
<1> DEFINE rest == RemoveAt(Loaded, n)
           id == Loaded[n].id
<1>1. /\ Numbered(rest, ruleCount)
      /\ \A x \in Ordered : x \in Range(rest) <=> x \in Range(Loaded) /\ x.id # id
  BY LoadedAgrees, RemovedRule DEF RulesInv
<1>2. /\ shown' = <<>> /\ ruleClock' = ruleClock /\ ruleCount' = ruleCount
      /\ \/ /\ SaveStore(rest) /\ told' = {rule \in told : rule.id # id}
            /\ doubted' = doubted
         \/ SaveFails(rest, {id})
  BY DEF Removes
<1> HIDE DEF rest, id
<1>3. CASE /\ SaveStore(rest) /\ told' = {rule \in told : rule.id # id}
           /\ doubted' = doubted
  <2>1. ruleFile' = rest /\ ruleCache' = NoCache /\ ruleFaults' = ruleFaults
    BY <1>3 DEF SaveStore
  <2>2. Agree(rest, told', doubted', ruleClock)
    <3>1. Agree(Loaded, told, doubted, ruleClock)
      BY LoadedAgrees
    <3>2. QED
      BY <1>1, <1>3, <3>1 DEF Agree
  <2>3. ~ CacheFresh' /\ ruleCache'.rules = << >> /\ ruleCache'.at \in Int
    BY <1>2, <2>1, NoCacheIsStale DEF RulesInv
  <2>4. Numbered(ruleCache'.rules, ruleCount')
    BY <1>2, <2>3, NothingIsNumbered DEF RulesInv
  <2>5. QED
    BY <1>1, <1>2, <1>3, <2>1, <2>2, <2>3, <2>4 DEF RulesInv
<1>4. CASE SaveFails(rest, {id})
  <2>1. Agree(rest, told, doubted \cup {id}, ruleClock)
    <3>1. Agree(Loaded, told, doubted, ruleClock)
      BY LoadedAgrees
    <3>2. QED
      BY <1>1, <3>1 DEF Agree
  <2>2. QED
    BY <1>1, <1>2, <1>4, <2>1, FailureIsDoubted DEF RulesInv
<1>5. QED
  BY <1>2, <1>3, <1>4

(* What allows goes before what blocks, whatever the order of the rules.   *)
LEMMA AnswerOfRules ==
    ASSUME Loaded \in Seq(Ordered), NEW subsystem \in RuleSubsystems, NEW matter \in Matters
    PROVE  LET bearing == {rule \in Range(Loaded) :
                             /\ InForce(rule)
                             /\ rule.subsystem \in {subsystem, EverySubsystem}
                             /\ MatchesConditions(rule, matter)}
           IN  ShouldForward(subsystem, matter)
                 <=> (bearing = {} \/ \E rule \in bearing : rule.action = "allow")
<1> DEFINE bearing == {rule \in Range(Loaded) :
                         /\ InForce(rule)
                         /\ rule.subsystem \in {subsystem, EverySubsystem}
                         /\ MatchesConditions(rule, matter)}
           active == ActiveRules(subsystem)
           Of(action) == Keep(active, {rule \in Range(active) :
                                          /\ rule.action = action
                                          /\ MatchesConditions(rule, matter)})
<1>1. /\ active \in Seq(Ordered)
      /\ Range(active) = {rule \in Range(Loaded) :
                            /\ InForce(rule)
                            /\ rule.subsystem \in {subsystem, EverySubsystem}}
  <2> DEFINE those == {rule \in Range(Loaded) :
                         /\ InForce(rule)
                         /\ rule.subsystem \in {subsystem, EverySubsystem}}
  <2>1. active = Keep(Loaded, those)
    BY DEF ActiveRules
  <2>2. Keep(Loaded, those) \in Seq(Ordered)
        /\ Range(Keep(Loaded, those)) = Range(Loaded) \cap those
    <3> HIDE DEF those
    <3>1. QED
      BY KeptOnce
  <2> HIDE DEF active
  <2>3. QED
    BY <2>1, <2>2
<1> HIDE DEF active
<1>2. ASSUME NEW action
      PROVE  /\ Of(action) \in Seq(Ordered)
             /\ Range(Of(action)) = {rule \in bearing : rule.action = action}
  <2> DEFINE those == {rule \in Range(active) : /\ rule.action = action
                                                /\ MatchesConditions(rule, matter)}
  <2>1. Keep(active, those) \in Seq(Ordered)
        /\ Range(Keep(active, those)) = Range(active) \cap those
    <3> HIDE DEF those
    <3>1. QED
      BY <1>1, KeptOnce
  <2>2. QED
    BY <1>1, <2>1
<1> DEFINE first == Of("allow")
           second == Of("block")
           found == first \o second
<1>3. ShouldForward(subsystem, matter) <=> (found = <<>> \/ Head(found).action = "allow")
  BY DEF ShouldForward, FindMatchingRules, active
<1>4. /\ first \in Seq(Ordered) /\ second \in Seq(Ordered)
      /\ Range(first) = {rule \in bearing : rule.action = "allow"}
      /\ Range(second) = {rule \in bearing : rule.action = "block"}
  BY <1>2
<1>5. \A rule \in bearing : rule.action \in {"allow", "block"}
  <2>1. \A rule \in Ordered : rule.action \in {"allow", "block"}
    BY DEF Ordered
  <2>2. \A rule \in bearing : rule \in Ordered
    BY DEF Range
  <2>3. QED
    BY <2>1, <2>2
<1> HIDE DEF first, second, bearing
<1>6. CASE first # << >>
  <2>1. found # << >> /\ Head(found) = first[1] /\ first[1] \in Range(first)
    BY <1>4, <1>6 DEF Range
  <2>2. first[1].action = "allow" /\ first[1] \in bearing
    BY <1>4, <2>1
  <2>3. QED
    BY <1>3, <2>1, <2>2 DEF bearing
<1>7. CASE first = << >> /\ second # << >>
  <2>1. found # << >> /\ Head(found) = second[1] /\ second[1] \in Range(second)
    BY <1>4, <1>7 DEF Range
  <2>2. second[1].action = "block" /\ second[1] \in bearing
    BY <1>4, <2>1
  <2>3. Range(first) = {}
    BY <1>7 DEF Range
  <2>4. ~ \E rule \in bearing : rule.action = "allow"
    BY <1>4, <2>3
  <2>5. ~ ShouldForward(subsystem, matter)
    BY <1>3, <2>1, <2>2
  <2>6. QED
    BY <2>2, <2>4, <2>5 DEF bearing
<1>8. CASE first = << >> /\ second = << >>
  <2>1. found = << >> /\ Range(first) = {} /\ Range(second) = {}
    BY <1>8 DEF Range
  <2>2. bearing = {}
    BY <1>4, <1>5, <2>1
  <2>3. QED
    BY <1>3, <2>1, <2>2 DEF bearing
<1>9. QED
  BY <1>6, <1>7, <1>8

(***************************************************************************)
(* Every subsystem is answered as the owner ordered, for any orders, terms *)
(* and bounds on rules, ticks and failing writes: through the cache, past  *)
(* restarts, and of what he removes by the number he saw.                  *)
(***************************************************************************)
THEOREM AnsweredAsTold == OperationalRulesSpec => []RulesAsTold
<1>1. OperationalRulesInit => RulesInv
  <2> SUFFICES ASSUME OperationalRulesInit PROVE RulesInv
    OBVIOUS
  <2>1. ruleCache.rules = << >> /\ ruleCache.at \in Int
    BY CacheAssumption DEF OperationalRulesInit, NoCache
  <2>2. ~ CacheFresh
    BY CacheAssumption DEF OperationalRulesInit, NoCache, CacheFresh
  <2>3. ToldIds \subseteq doubted /\ told \subseteq Ordered
    BY DEF OperationalRulesInit, ToldIds
  <2>4. QED
    BY <2>1, <2>2, <2>3, AllDoubted, NothingIsNumbered DEF OperationalRulesInit, RulesInv
<1>2. RulesInv /\ [OperationalRulesNext]_ruleVars => RulesInv'
  <2> SUFFICES ASSUME RulesInv, [OperationalRulesNext]_ruleVars PROVE RulesInv'
    OBVIOUS
  <2>1. CASE AskRules
    BY <2>1, AskKeepsRules DEF AskRules, RulesInv
  <2>2. ASSUME NEW whole \in BOOLEAN, ListRules(whole) PROVE RulesInv'
    <3>1. ruleFaults = 0 => \A n \in DOMAIN shown' : /\ n \in DOMAIN FileOnceLoaded
                                                     /\ shown'[n] = FileOnceLoaded[n].id
      BY <2>2, LoadedAgrees DEF ListRules
    <3>2. QED
      BY <2>2, <3>1, AskKeepsRules DEF ListRules
  <2>3. ASSUME NEW order \in RuleOrders, AddRule(order) PROVE RulesInv'
    BY <2>3, AddKeepsRules
  <2>4. ASSUME NEW n \in 1 .. MaxRules, RemoveNumbered(n) PROVE RulesInv'
    <3>1. n \in DOMAIN Loaded /\ Removes(n, Meant(n))
      BY <2>4 DEF RemoveNumbered
    <3>2. Meant(n) = Loaded[n].id
      BY LoadedAgrees DEF Meant, RulesInv
    <3>3. QED
      BY <3>1, <3>2, RemoveKeepsRules
  <2>5. ASSUME NEW matter \in Matters, RemoveAbout(matter) PROVE RulesInv'
    BY <2>5, RemoveKeepsRules DEF RemoveAbout
  <2>6. CASE DiesSaving
    <3>1. /\ ruleFile' = << >> /\ ruleCache' = NoCache /\ ruleFaults' = ruleFaults + 1
          /\ doubted' = doubted \cup ToldIds /\ ruleClock' = ruleClock
          /\ ruleCount' = ruleCount /\ told' = told
      BY <2>6 DEF DiesSaving
    <3>2. ~ CacheFresh' /\ ruleCache'.rules = << >> /\ ruleCache'.at \in Int
      BY <3>1, NoCacheIsStale DEF RulesInv
    <3>3. Agree(<< >>, told, doubted', ruleClock)
      BY <3>1, AllDoubted DEF RulesInv
    <3>4. ruleFaults' \in Nat /\ ruleFaults' # 0
      BY <3>1 DEF RulesInv
    <3>5. QED
      BY <3>1, <3>2, <3>3, <3>4, NothingIsNumbered DEF RulesInv
  <2>7. CASE RulesRestart
    <3>1. ~ CacheFresh' /\ ruleCache'.rules = << >> /\ ruleCache'.at \in Int
      BY <2>7, NoCacheIsStale DEF RulesInv, RulesRestart
    <3>2. QED
      BY <2>7, <3>1, NothingIsNumbered DEF RulesInv, RulesRestart
  <2>8. CASE RuleTime
    <3>1. /\ ruleClock \in Nat /\ ruleClock' \in Nat /\ ruleClock <= ruleClock'
          /\ CacheFresh' => CacheFresh
      BY <2>8, CacheAssumption DEF RuleTime, RulesInv, CacheFresh
    <3>2. Agree(ruleFile, told, doubted, ruleClock')
          /\ (CacheFresh => Agree(ruleCache.rules, told, doubted, ruleClock'))
      BY <3>1, MoreDoubtsAgree DEF RulesInv
    <3>3. QED
      BY <2>8, <3>1, <3>2 DEF RuleTime, RulesInv
  <2>9. CASE UNCHANGED ruleVars
    BY <2>9 DEF ruleVars, RulesInv, CacheFresh
  <2>10. QED
    BY <2>1, <2>2, <2>3, <2>4, <2>5, <2>6, <2>7, <2>8, <2>9 DEF OperationalRulesNext
<1>3. RulesInv => RulesAsTold
  <2> SUFFICES ASSUME RulesInv, NEW subsystem \in RuleSubsystems, NEW matter \in Matters
               PROVE  LET bears(rule) == /\ InForce(rule)
                                         /\ rule.subsystem \in {subsystem, EverySubsystem}
                                         /\ MatchesConditions(rule, matter)
                          wanted == {rule \in told : bears(rule)}
                      IN  (\A rule \in told \cup Range(Loaded) :
                              bears(rule) => rule.id \notin doubted)
                            => (ShouldForward(subsystem, matter)
                                  <=> (wanted = {} \/ \E rule \in wanted : rule.action = "allow"))
    BY DEF RulesAsTold
  <2> DEFINE bears(rule) == /\ InForce(rule)
                            /\ rule.subsystem \in {subsystem, EverySubsystem}
                            /\ MatchesConditions(rule, matter)
             wanted == {rule \in told : bears(rule)}
             bearing == {rule \in Range(Loaded) : bears(rule)}
  <2> SUFFICES ASSUME \A rule \in told \cup Range(Loaded) : bears(rule) => rule.id \notin doubted
               PROVE  ShouldForward(subsystem, matter)
                        <=> (wanted = {} \/ \E rule \in wanted : rule.action = "allow")
    OBVIOUS
  <2>1. Loaded \in Seq(Ordered) /\ Agree(Loaded, told, doubted, ruleClock)
        /\ told \subseteq Ordered
    BY LoadedAgrees DEF Numbered, RulesInv
  <2>2. Range(Loaded) \subseteq Ordered
    BY <2>1 DEF Range
  <2>3. \A rule \in Ordered : InForce(rule) /\ rule.id \notin doubted =>
                                (rule \in told <=> rule \in Range(Loaded))
    BY <2>1 DEF Agree, InForce
  <2>4. bearing = wanted
    BY <2>1, <2>2, <2>3
  <2>5. ShouldForward(subsystem, matter)
          <=> (bearing = {} \/ \E rule \in bearing : rule.action = "allow")
    BY <2>1, AnswerOfRules
  <2> HIDE DEF bearing, wanted
  <2>6. QED
    BY <2>4, <2>5
<1>4. QED
  BY <1>1, <1>2, <1>3, PTL DEF OperationalRulesSpec

-----------------------------------------------------------------------------
(* What the model is given *)

ChatRows ==
    {[role |-> "user", marks |-> m.marks] : m \in Signals}
    \cup {[role |-> "assistant", marks |-> marks] : marks \in Answers}

(* The sections differ from each other, and those there is always room for *)
(* are the first eight.                                                    *)
LEMMA SectionsDiffer ==
    /\ DOMAIN SectionOrder = 1 .. 17
    /\ \A i, j \in 1 .. 17 : SectionOrder[i] = SectionOrder[j] => i = j
<1> DEFINE last == [s \in {SectionOrder[k] : k \in 1 .. 17} |->
             CASE s = "primary_focus" -> 1 [] s = "response_strategy" -> 2
               [] s = "execution_decision" -> 3 [] s = "missing_info" -> 4
               [] s = "contradictions" -> 5 [] s = "tool_routing" -> 6
               [] s = "action_plan" -> 7 [] s = "open_loops" -> 8
               [] s = "references" -> 9 [] s = "urgency" -> 10
               [] s = "conversation_state" -> 11 [] s = "person" -> 12
               [] s = "response_mode" -> 13 [] s = "tool_intent" -> 14
               [] s = "memory_write" -> 15 [] s = "guidance" -> 16 [] s = "mood" -> 17]
<1>1. DOMAIN SectionOrder = 1 .. 17
  BY DEF SectionOrder
<1>2. \A k \in 1 .. 17 : last[SectionOrder[k]] = k
  BY DEF SectionOrder
<1> HIDE DEF last
<1>3. QED
  BY <1>1, <1>2

LEMMA CertainFirst ==
    /\ DOMAIN SectionOrder = 1 .. 17
    /\ \A s \in Certain : \E k \in 1 .. 8 : SectionOrder[k] = s
    /\ Critical \subseteq Certain
    /\ MaxSections >= 8 /\ MaxSections \in Nat
<1>1. /\ SectionOrder[1] = "primary_focus" /\ SectionOrder[2] = "response_strategy"
      /\ SectionOrder[3] = "execution_decision" /\ SectionOrder[4] = "missing_info"
      /\ SectionOrder[5] = "contradictions" /\ SectionOrder[6] = "tool_routing"
      /\ SectionOrder[7] = "action_plan" /\ SectionOrder[8] = "open_loops"
  BY DEF SectionOrder
<1>2. Certain = {SectionOrder[k] : k \in 1 .. 8}
  <2>1. \A k \in 1 .. 8 : k \in {1, 2, 3, 4, 5, 6, 7, 8}
    OBVIOUS
  <2>2. \A k \in 1 .. 8 : SectionOrder[k] \in Certain
    BY <1>1, <2>1 DEF Certain, Critical
  <2>3. \A s \in Certain : \E k \in 1 .. 8 : s = SectionOrder[k]
    BY <1>1 DEF Certain, Critical
  <2>4. QED
    BY <2>2, <2>3
<1> DEFINE f == [k \in 1 .. 8 |-> SectionOrder[k]]
<1>3. f \in Bijection(1 .. 8, Certain)
  <2>1. \A i, j \in 1 .. 8 : SectionOrder[i] = SectionOrder[j] => i = j
    BY SectionsDiffer
  <2>2. QED
    BY <1>2, <2>1 DEF Bijection, Injection, Surjection, IsInjective
<1>4. IsFiniteSet(1 .. 8) /\ Cardinality(1 .. 8) = 8
  <2> DEFINE N == 8
  <2>1. N \in Nat
    OBVIOUS
  <2> HIDE DEF N
  <2>2. IsFiniteSet(1 .. N) /\ Cardinality(1 .. N) = N
    BY <2>1, FS_Interval
  <2>3. QED
    BY <2>2 DEF N
<1> HIDE DEF f
<1>5. Cardinality(Certain) = 8
  BY <1>3, <1>4, FS_Bijection DEF ExistsBijection
<1>6. Critical \subseteq Certain
  BY DEF Certain
<1>7. QED
  BY <1>2, <1>5, <1>6, SectionsDiffer, PromptAssumption

(* Of a finite set of numbers no more than N have fewer than N before them. *)
LEMMA AtMostFirst ==
    ASSUME NEW S \in SUBSET Int, IsFiniteSet(S), NEW key, \A n \in S : key[n] \in Int, NEW N \in Nat
    PROVE  LET T == {n \in S : Cardinality({l \in S : Sooner(key, l, n)}) < N}
           IN  IsFiniteSet(T) /\ Cardinality(T) \in Nat /\ Cardinality(T) <= N
<1> DEFINE T == {n \in S : Cardinality({l \in S : Sooner(key, l, n)}) < N}
           rank == Rank(S, key)
           f == [n \in T |-> rank[n]]
<1>1. rank \in [S -> 1 .. Cardinality(S)] /\ \A a, b \in S : Sooner(key, a, b) => rank[a] < rank[b]
  BY RanksGrow
<1>2. ASSUME NEW n \in T PROVE rank[n] \in 1 .. N
  <2>1. rank[n] = Cardinality({l \in S : Sooner(key, l, n)}) + 1
    BY DEF Rank, Earlier
  <2>2. IsFiniteSet({l \in S : Sooner(key, l, n)})
    BY FS_Subset
  <2>3. Cardinality({l \in S : Sooner(key, l, n)}) \in Nat
    BY <2>2, FS_CardinalityType
  <2>4. QED
    BY <2>1, <2>3
<1>3. T \in SUBSET S
  OBVIOUS
<1> HIDE DEF T, rank
<1>4. ASSUME NEW a \in T, NEW b \in T, rank[a] = rank[b] PROVE a = b
  <2>1. rank[a] \in Int /\ rank[b] \in Int
    BY <1>2
  <2>2. ~ (rank[a] < rank[b]) /\ ~ (rank[b] < rank[a])
    BY <1>4, <2>1
  <2>3. QED
    BY <1>1, <1>3, <2>2, SoonerIsLinear
<1>5. f \in Injection(T, 1 .. N)
  BY <1>2, <1>4 DEF Injection, IsInjective
<1> HIDE DEF f
<1>6. IsFiniteSet(1 .. N) /\ Cardinality(1 .. N) = N
  BY FS_Interval
<1>7. IsFiniteSet(T) /\ Cardinality(T) <= N
  BY <1>5, <1>6, FS_Injection
<1>8. QED
  BY <1>7, FS_CardinalityType DEF T

(* And if one of them has N before it, there are N with fewer.              *)
LEMMA FullWhenCut ==
    ASSUME NEW S \in SUBSET Int, IsFiniteSet(S), NEW key, \A n \in S : key[n] \in Int, NEW N \in Nat,
           NEW k \in S, ~ (Cardinality({l \in S : Sooner(key, l, k)}) < N)
    PROVE  N <= Cardinality({n \in S : Cardinality({l \in S : Sooner(key, l, n)}) < N})
<1> DEFINE T == {n \in S : Cardinality({l \in S : Sooner(key, l, n)}) < N}
           C == Cardinality(S)
           rank == Rank(S, key)
           f == [n \in T |-> rank[n]]
<1>1. rank \in [S -> 1 .. C] /\ \A a, b \in S : Sooner(key, a, b) => rank[a] < rank[b]
  BY RanksGrow
<1>2. C \in Nat /\ IsFiniteSet(1 .. C) /\ Cardinality(1 .. C) = C
  <2>1. C \in Nat
    BY FS_CardinalityType
  <2>2. QED
    BY <2>1, FS_Interval
<1>3. ASSUME NEW n \in S
      PROVE  /\ rank[n] = Cardinality({l \in S : Sooner(key, l, n)}) + 1
             /\ Cardinality({l \in S : Sooner(key, l, n)}) \in Nat
  <2>1. IsFiniteSet({l \in S : Sooner(key, l, n)})
    BY FS_Subset
  <2>2. QED
    BY <2>1, FS_CardinalityType DEF Rank, Earlier
<1>4. IsFiniteSet(T)
  BY FS_Subset
<1>5. \A n \in S : n \in T <=> rank[n] <= N
  BY <1>3
<1>6. N < C
  BY <1>1, <1>2, <1>3
<1> HIDE DEF rank, C, T
<1>7. rank \in Surjection(S, 1 .. C)
  <2>1. ASSUME NEW a \in S, NEW b \in S, rank[a] = rank[b] PROVE a = b
    <3>1. rank[a] \in Int /\ rank[b] \in Int
      BY <1>1
    <3>2. ~ (rank[a] < rank[b]) /\ ~ (rank[b] < rank[a])
      BY <2>1, <3>1
    <3>3. QED
      BY <1>1, <3>2, SoonerIsLinear
  <2>2. rank \in Injection(S, 1 .. C)
    BY <1>1, <2>1 DEF Injection, IsInjective
  <2>3. C = Cardinality(S)
    BY DEF C
  <2>4. QED
    BY <1>2, <2>2, <2>3, FS_Injection
<1>8. f \in Surjection(T, 1 .. N)
  <2>1. T \subseteq S
    BY DEF T
  <2>2. \A n \in T : f[n] \in 1 .. N
    BY <1>1, <1>2, <1>5, <2>1
  <2>3. ASSUME NEW i \in 1 .. N PROVE \E n \in T : f[n] = i
    <3>1. i \in 1 .. C
      BY <1>2, <1>6
    <3>2. PICK n \in S : rank[n] = i
      BY <1>7, <3>1 DEF Surjection
    <3>3. QED
      BY <1>5, <3>2
  <2>4. QED
    BY <2>2, <2>3 DEF Surjection
<1> HIDE DEF f
<1>9. Cardinality(1 .. N) <= Cardinality(T)
  BY <1>4, <1>8, FS_Surjection
<1>10. Cardinality(1 .. N) = N
  BY FS_Interval
<1>11. QED
  BY <1>9, <1>10 DEF T

(* The sections that go in: as many as there is room for, and a wanted one  *)
(* is left out of a full prompt only.                                      *)
LEMMA SectionsFit ==
    ASSUME NEW m
    PROVE  /\ Cardinality(Packed(m)) <= MaxSections
           /\ \A k \in 1 .. 17 :
                 Wanted(SectionOrder[k], m) =>
                   SectionOrder[k] \in Packed(m) \/ Cardinality(Packed(m)) = MaxSections
<1> DEFINE wanted == {k \in DOMAIN SectionOrder : Wanted(SectionOrder[k], m)}
           rank == [k \in wanted |-> RankOf(SectionOrder[k], m)]
           first == {k \in wanted : Cardinality({j \in wanted : Sooner(rank, j, k)}) < MaxSections}
           f == [k \in first |-> SectionOrder[k]]
<1>1. wanted \in SUBSET Int /\ IsFiniteSet(wanted) /\ wanted \subseteq 1 .. 17
  <2>1. wanted \in SUBSET (1 .. 17)
    BY SectionsDiffer
  <2>2. 1 \in Int /\ 17 \in Int
    OBVIOUS
  <2>3. IsFiniteSet(1 .. 17) /\ 1 .. 17 \in SUBSET Int
    <3>1. IsFiniteSet(1 .. 17)
      BY <2>2, FS_Interval, Zenon
    <3>2. QED
      BY <3>1
  <2> HIDE DEF wanted
  <2>4. QED
    BY <2>1, <2>3, FS_Subset
<1>2. Packed(m) = {SectionOrder[k] : k \in first}
  BY DEF Packed
<1>3. \A k \in wanted : rank[k] \in Int
  BY DEF RankOf
<1>4. MaxSections \in Nat
  BY PromptAssumption
<1>5. \A k \in 1 .. 17 : Wanted(SectionOrder[k], m) => k \in wanted
  BY SectionsDiffer
<1> HIDE DEF wanted, rank
<1>6. IsFiniteSet(first) /\ Cardinality(first) \in Nat /\ Cardinality(first) <= MaxSections
  BY <1>1, <1>3, <1>4, AtMostFirst
<1>7. ASSUME NEW k \in wanted, k \notin first PROVE MaxSections <= Cardinality(first)
  BY <1>1, <1>3, <1>4, <1>7, FullWhenCut
<1>8. first \subseteq wanted
  OBVIOUS
<1> HIDE DEF first
<1>9. f \in Bijection(first, Packed(m))
  <2>1. ASSUME NEW i \in first, NEW j \in first, f[i] = f[j] PROVE i = j
    <3>1. i \in 1 .. 17 /\ j \in 1 .. 17 /\ SectionOrder[i] = SectionOrder[j]
      BY <1>1, <1>8, <2>1
    <3>2. QED
      BY <3>1, SectionsDiffer
  <2>2. f \in Injection(first, Packed(m))
    BY <1>2, <2>1 DEF Injection, IsInjective
  <2>3. f \in Surjection(first, Packed(m))
    BY <1>2 DEF Surjection
  <2>4. QED
    BY <2>2, <2>3 DEF Bijection
<1>10. Cardinality(Packed(m)) = Cardinality(first)
  BY <1>6, <1>9, FS_Bijection DEF ExistsBijection
<1>11. ASSUME NEW k \in 1 .. 17, Wanted(SectionOrder[k], m)
       PROVE  SectionOrder[k] \in Packed(m) \/ Cardinality(Packed(m)) = MaxSections
  <2>1. CASE k \in first
    BY <1>2, <2>1
  <2>2. CASE k \notin first
    <3>1. MaxSections <= Cardinality(first)
      BY <1>5, <1>7, <1>11, <2>2
    <3>2. QED
      BY <1>4, <1>6, <1>10, <3>1
  <2>3. QED
    BY <2>1, <2>2
<1>12. QED
  BY <1>6, <1>10, <1>11

LEMMA CertainIsPacked ==
    ASSUME NEW m, NEW s \in Certain, Wanted(s, m)
    PROVE  s \in Packed(m)
<1> DEFINE wanted == {k \in DOMAIN SectionOrder : Wanted(SectionOrder[k], m)}
           rank == [k \in wanted |-> RankOf(SectionOrder[k], m)]
<1>1. PICK k \in 1 .. 8 : SectionOrder[k] = s
  BY CertainFirst
<1>2. DOMAIN SectionOrder = 1 .. 17 /\ k \in wanted
  BY <1>1, SectionsDiffer
<1>3. wanted \subseteq 1 .. 17
  BY <1>2
<1>4. \A j \in wanted : rank[j] \in {1, 2, 3} /\ (rank[j] = 1 <=> SectionOrder[j] \in Critical)
  BY DEF RankOf
<1>5. \A j \in 1 .. 17 : SectionOrder[j] \in Critical <=> j \in 1 .. 5
  BY SectionsDiffer DEF SectionOrder, Critical
<1>6. rank[k] \in {1, 2}
  BY <1>1, <1>2 DEF RankOf, Certain
<1> DEFINE before == {j \in wanted : Sooner(rank, j, k)}
<1> HIDE DEF wanted, rank
<1>7. before \in SUBSET (1 .. k - 1)
  <2>1. ASSUME NEW j \in wanted, Sooner(rank, j, k) PROVE j \in 1 .. k - 1
    <3>1. /\ j \in 1 .. 17 /\ rank[j] \in {1, 2, 3} /\ (rank[j] = 1 <=> j \in 1 .. 5)
          /\ k \in 1 .. 17 /\ (rank[k] = 1 <=> k \in 1 .. 5)
      BY <1>2, <1>3, <1>4, <1>5
    <3>2. rank[j] < rank[k] \/ (rank[j] = rank[k] /\ j < k)
      BY <2>1 DEF Sooner
    <3>3. QED
      BY <1>6, <3>1, <3>2
  <2>2. QED
    BY <2>1
<1>8. IsFiniteSet(1 .. k - 1) /\ Cardinality(1 .. k - 1) = k - 1
  BY FS_Interval
<1> HIDE DEF before
<1>9. IsFiniteSet(before) /\ Cardinality(before) <= k - 1
  BY <1>7, <1>8, FS_Subset
<1>10. Cardinality(before) < MaxSections
  BY <1>9, CertainFirst, FS_CardinalityType
<1>11. QED
  BY <1>1, <1>2, <1>10 DEF Packed, wanted, rank, before

LEMMA RecentIsSelected ==
    ASSUME NEW m, chatRows \in Seq(ChatRows),
           NEW i \in Len(chatRows) - RecencyWindow + 1 .. Len(chatRows), i > 0
    PROVE  i \in Selected(m)
<1>1. Len(chatRows) \in Nat /\ DOMAIN chatRows = 1 .. Len(chatRows) /\ RecencyWindow \in Nat
  BY PromptAssumption
<1>2. i \in Int /\ i \in DOMAIN chatRows /\ i > Len(chatRows) - RecencyWindow
  BY <1>1
<1>3. i \in Recent
  BY <1>2 DEF Recent
<1>4. QED
  BY <1>2, <1>3 DEF Selected, Paired

LEMMA OverdueIsFirst ==
    ASSUME NEW m, m.followups = "overdue"
    PROVE  Told(m) # <<>> => Head(Told(m)) = "overdue"
<1> DEFINE S == {d \in {GuidanceOrder[n] : n \in DOMAIN GuidanceOrder} : Applies(d, m)}
           all == Keep(GuidanceOrder, S)
           T == {GuidanceOrder[n] : n \in 1 .. 10}
<1>1. GuidanceOrder[1] = "overdue" /\ DOMAIN GuidanceOrder = 1 .. 10 /\ GuidanceOrder \in Seq(T)
  <2>1. GuidanceOrder[1] = "overdue" /\ DOMAIN GuidanceOrder = 1 .. 10 /\ Len(GuidanceOrder) = 10
    BY DEF GuidanceOrder
  <2>2. GuidanceOrder = [n \in 1 .. 10 |-> GuidanceOrder[n]]
    BY DEF GuidanceOrder
  <2>3. QED
    BY <2>1, <2>2
<1>2. "overdue" \in S
  BY <1>1 DEF Applies
<1> HIDE DEF S, T
<1>3. PICK at \in [DOMAIN all -> DOMAIN GuidanceOrder] :
        /\ \A k \in DOMAIN all : all[k] = GuidanceOrder[at[k]]
        /\ \A i, j \in DOMAIN all : i < j => at[i] < at[j]
        /\ \A n \in DOMAIN GuidanceOrder : GuidanceOrder[n] \in S => \E k \in DOMAIN all : at[k] = n
  <2>1. GuidanceOrder \in Seq(T)
    BY <1>1
  <2>2. QED
    BY <2>1, KeptSequence, SMTT(60)
<1>4. all \in Seq(T)
  BY <1>1, KeptSequence
<1> HIDE DEF all
<1>5. PICK k \in DOMAIN all : at[k] = 1
  BY <1>1, <1>2, <1>3
<1>6. DOMAIN all = 1 .. Len(all) /\ Len(all) \in Nat
  BY <1>4
<1>7. k = 1
  <2>1. 1 \in DOMAIN all /\ at[1] \in 1 .. 10
    BY <1>1, <1>3, <1>5, <1>6
  <2>2. k > 1 => at[1] < 1
    BY <1>3, <1>5, <2>1
  <2>3. QED
    BY <1>5, <1>6, <2>1, <2>2
<1>8. all[1] = "overdue" /\ Len(all) >= 1
  BY <1>1, <1>3, <1>5, <1>6, <1>7
<1>9. Guidance(m) = SubSeq(all, 1, Least2(Len(all), 3))
  BY DEF Guidance, all, S
<1>10. Least2(Len(all), 3) \in 1 .. Len(all)
  BY <1>6, <1>8 DEF Least2
<1>11. ASSUME NEW n \in 1 .. Len(all)
       PROVE  /\ SubSeq(all, 1, n) \in Seq(T) /\ Len(SubSeq(all, 1, n)) = n
              /\ SubSeq(all, 1, n)[1] = all[1]
  BY <1>4, <1>6
<1> DEFINE some == Guidance(m)
<1>12. some \in Seq(T) /\ Len(some) \in Nat /\ Len(some) >= 1 /\ some[1] = "overdue"
  BY <1>8, <1>9, <1>10, <1>11
<1> HIDE DEF some
<1>13. Least2(Len(some), 2) \in 1 .. Len(some)
  BY <1>12 DEF Least2
<1>14. ASSUME NEW n \in 1 .. Len(some)
       PROVE  Head(SubSeq(some, 1, n)) = "overdue"
  <2>1. SubSeq(some, 1, n) \in Seq(T) /\ Len(SubSeq(some, 1, n)) = n /\ SubSeq(some, 1, n)[1] = some[1]
    BY <1>12
  <2>2. QED
    BY <1>12, <2>1
<1>15. Told(m) = <<>> \/ Told(m) = SubSeq(some, 1, Least2(Len(some), 2))
  BY DEF Told, some
<1>16. QED
  BY <1>13, <1>14, <1>15

(* No directive is told when there is none, or no room for their section.  *)
LEMMA ToldWhileThereIsRoom ==
    ASSUME NEW m, Told(m) = <<>>, Cardinality(Packed(m)) # MaxSections
    PROVE  Guidance(m) = <<>>
<1> DEFINE S == {d \in {GuidanceOrder[n] : n \in DOMAIN GuidanceOrder} : Applies(d, m)}
           all == Keep(GuidanceOrder, S)
           T == {GuidanceOrder[n] : n \in 1 .. 10}
           some == Guidance(m)
<1>1. GuidanceOrder \in Seq(T)
  <2>1. DOMAIN GuidanceOrder = 1 .. 10 /\ Len(GuidanceOrder) = 10
    BY DEF GuidanceOrder
  <2>2. GuidanceOrder = [n \in 1 .. 10 |-> GuidanceOrder[n]]
    BY DEF GuidanceOrder
  <2>3. QED
    BY <2>1, <2>2
<1>2. some = SubSeq(all, 1, Least2(Len(all), 3))
  BY DEF Guidance
<1> HIDE DEF S, T
<1>3. all \in Seq(T)
  BY <1>1, KeptSequence
<1> HIDE DEF all
<1>4. Len(all) \in Nat /\ Least2(Len(all), 3) \in Nat /\ Least2(Len(all), 3) <= Len(all)
  BY <1>3 DEF Least2
<1>5. some \in Seq(T)
  BY <1>2, <1>3, <1>4
<1> HIDE DEF some
<1>6. SUFFICES ASSUME some # <<>> PROVE FALSE
  BY DEF some
<1>7. Len(some) \in Nat /\ Len(some) >= 1
  BY <1>5, <1>6
<1>8. SectionOrder[16] = "guidance" /\ Wanted("guidance", m)
  BY <1>6 DEF SectionOrder, Wanted, some
<1>9. "guidance" \in Packed(m)
  BY <1>8, SectionsFit
<1>10. Told(m) = SubSeq(some, 1, Least2(Len(some), 2))
  BY <1>9 DEF Told, some
<1>11. Least2(Len(some), 2) \in 1 .. Len(some)
  BY <1>7 DEF Least2
<1>12. ASSUME NEW n \in 1 .. Len(some) PROVE SubSeq(some, 1, n) # <<>>
  <2>1. Len(SubSeq(some, 1, n)) = n
    BY <1>5, <1>7
  <2>2. QED
    BY <2>1
<1>13. QED
  BY <1>10, <1>11, <1>12

LEMMA PoliciesAreLayered ==
    ASSUME NEW m
    PROVE  \A i, j \in DOMAIN Policies(m) : i < j => Policies(m)[i].level <= Policies(m)[j].level
<1> DEFINE all == PolicyLayers(m)
           S == {p \in {all[n] : n \in DOMAIN all} : p.of # {}}
           given == Keep(all, S)
           T == {all[n] : n \in 1 .. 5}
<1>1. DOMAIN all = 1 .. 5 /\ Len(all) = 5 /\ all = [n \in 1 .. 5 |-> all[n]]
  BY DEF PolicyLayers
<1>2. /\ all[1].level = 1 /\ all[2].level = 2 /\ all[3].level = 2
      /\ all[4].level = 4 /\ all[5].level = 6
  BY DEF PolicyLayers
<1>3. given = Policies(m)
  BY DEF Policies
<1> HIDE DEF all, S
<1>4. all \in Seq(T)
  BY <1>1
<1> HIDE DEF T
<1>5. PICK at \in [DOMAIN given -> DOMAIN all] :
        /\ \A k \in DOMAIN given : given[k] = all[at[k]]
        /\ \A i, j \in DOMAIN given : i < j => at[i] < at[j]
  BY <1>4, KeptSequence
<1> HIDE DEF given
<1>6. ASSUME NEW i \in DOMAIN given, NEW j \in DOMAIN given, i < j
      PROVE  given[i].level <= given[j].level
  <2>1. at[i] \in 1 .. 5 /\ at[j] \in 1 .. 5 /\ at[i] < at[j]
    BY <1>1, <1>5, <1>6
  <2>2. given[i].level = all[at[i]].level /\ given[j].level = all[at[j]].level
    BY <1>5
  <2>3. QED
    BY <1>2, <2>1, <2>2
<1>7. QED
  BY <1>3, <1>6

(* Whatever there is to say of a turn, the model is given the latest rows, *)
(* no more sections than there is room for and all of those a decision     *)
(* rests on, directives unless the prompt is full without them and an      *)
(* overdue promise's first of them, and the policies by their rank; for    *)
(* every history, every message and every size of the window.              *)
THEOREM WhatMattersIsAlwaysTold == PromptSpec => []WhatMattersIsTold
<1> DEFINE Given == chatRows \in Seq(ChatRows) /\ WhatMattersIsTold
<1>1. PromptInit => Given
  BY DEF PromptInit, NoPrompt, WhatMattersIsTold
<1>2. Given /\ [PromptNext]_promptVars => Given'
  <2> SUFFICES ASSUME Given, [PromptNext]_promptVars PROVE Given'
    OBVIOUS
  <2>1. ASSUME NEW m \in Signals, Stores(m) PROVE Given'
    <3>1. [role |-> "user", marks |-> m.marks] \in ChatRows
      BY DEF ChatRows
    <3>2. chatRows' \in Seq(ChatRows)
      BY <2>1, <3>1 DEF Stores
    <3>3. prompt'.on = FALSE
      BY <2>1 DEF Stores, NoPrompt
    <3>4. QED
      BY <3>2, <3>3 DEF WhatMattersIsTold
  <2>2. ASSUME NEW marks \in Answers, Answered(marks) PROVE Given'
    <3>1. [role |-> "assistant", marks |-> marks] \in ChatRows
      BY DEF ChatRows
    <3>2. chatRows' \in Seq(ChatRows)
      BY <2>2, <3>1 DEF Answered
    <3>3. prompt'.on = FALSE
      BY <2>2 DEF Answered, NoPrompt
    <3>4. QED
      BY <3>2, <3>3 DEF WhatMattersIsTold
  <2>3. ASSUME NEW m \in Signals, Composes(m) PROVE Given'
    <3>1. UNCHANGED chatRows
      BY <2>3 DEF Composes
    <3>2. /\ prompt'.message = m /\ prompt'.rows = Selected(m) /\ prompt'.sections = Packed(m)
          /\ prompt'.guidance = Told(m) /\ prompt'.policies = Policies(m)
      BY <2>3 DEF Composes
    <3>3. \A i \in Len(chatRows) - RecencyWindow + 1 .. Len(chatRows) : i > 0 => i \in Selected(m)
      BY RecentIsSelected
    <3>4. \A s \in Certain : Wanted(s, m) => s \in Packed(m)
      BY CertainIsPacked
    <3>5. Cardinality(Packed(m)) <= MaxSections
      BY SectionsFit
    <3>6. /\ m.followups = "overdue" /\ Told(m) # <<>> => Head(Told(m)) = "overdue"
          /\ Told(m) = <<>> => Guidance(m) = <<>> \/ Cardinality(Packed(m)) = MaxSections
      BY OverdueIsFirst, ToldWhileThereIsRoom
    <3>7. /\ \A s \in Certain : Wanted(s, m)' <=> Wanted(s, m)
          /\ Guidance(m)' = Guidance(m)
      BY <3>1 DEF Wanted, References, Priority, Tone, Brief, Structure, Register,
           MemoryCommit, MemoryWrite, Guidance, Applies, Repeated
    <3>8. QED
      BY <3>1, <3>2, <3>3, <3>4, <3>5, <3>6, <3>7, PoliciesAreLayered DEF WhatMattersIsTold
  <2>4. CASE UNCHANGED promptVars
    <3>1. UNCHANGED chatRows /\ UNCHANGED prompt
      BY <2>4 DEF promptVars
    <3>2. /\ \A s \in Certain : Wanted(s, prompt.message)' <=> Wanted(s, prompt.message)
          /\ Guidance(prompt.message)' = Guidance(prompt.message)
      BY <3>1 DEF Wanted, References, Priority, Tone, Brief, Structure, Register,
           MemoryCommit, MemoryWrite, Guidance, Applies, Repeated
    <3>3. QED
      BY <3>1, <3>2 DEF WhatMattersIsTold
  <2>5. QED
    BY <2>1, <2>2, <2>3, <2>4 DEF PromptNext
<1>3. QED
  BY <1>1, <1>2, PTL DEF PromptSpec
=============================================================================
