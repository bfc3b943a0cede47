--------------------------- MODULE MeetingProofs ---------------------------
(***************************************************************************)
(* What the meeting lifecycle guarantees for every set of chats and        *)
(* meetings, every circuit threshold and every number of restarts.         *)
(*                                                                         *)
(* The approval handler saves, after each await, the copy of meetings.json *)
(* it read at its start.  That copy is stale, and it does wipe requests    *)
(* made in the meantime; what saves the decisions is CopyKnowsDecisions:   *)
(* the owner's chat lock admits no other decision while the copy is held,  *)
(* so every settled meeting is settled in the copy as well.                *)
(***************************************************************************)
EXTENDS MeetingStateMachine, FiniteSetTheorems, TLAPS

(* The operations on a circuit's record keep it one. *)
LEMMA CircuitUpdates ==
    /\ FreshCircuit \in Circuit
    /\ \A c \in Circuit : /\ AfterSuccess(c) \in Circuit
                          /\ AfterFailure(c) \in Circuit
                          /\ AfterCooldown(c) \in Circuit
<1>1. FreshCircuit \in Circuit
  BY ThresholdAssumption DEF FreshCircuit, Circuit
<1>2. ASSUME NEW c \in Circuit PROVE AfterFailure(c) \in Circuit
  BY ThresholdAssumption DEF AfterFailure, Circuit
<1>3. ASSUME NEW c \in Circuit PROVE AfterSuccess(c) \in Circuit
  BY <1>1 DEF AfterSuccess
<1>4. ASSUME NEW c \in Circuit PROVE AfterCooldown(c) \in Circuit
  BY DEF AfterCooldown, Circuit
<1>5. QED
  BY <1>1, <1>2, <1>3, <1>4

(* Saving a copy with one meeting in a new state gives a file again, with  *)
(* that meeting in that state and every other one as the copy has it.      *)
LEMMA SaveIsAFile ==
    ASSUME NEW copy \in File, NEW i \in MeetingIds, NEW s \in States
    PROVE  /\ [copy EXCEPT ![i] = s] \in File
           /\ [copy EXCEPT ![i] = s][i] = s
           /\ \A j \in MeetingIds \ {i} : [copy EXCEPT ![i] = s][j] = copy[j]
  BY DEF File

LEMMA NamedStates ==
    /\ Absent \in File
    /\ Idle \in OwnerCommand
    /\ {"requested", "owner_notified", "approved", "event_created"} = OpenStates
    /\ {"completed", "rejected"} = SettledStates
    /\ OpenStates \subseteq States /\ SettledStates \subseteq States
    /\ OpenStates \cap SettledStates = {}
    /\ "absent" \in States \ (OpenStates \cup SettledStates)
  BY DEF Absent, File, States, OpenStates, SettledStates, Idle, OwnerCommand

(* What Await stores is an owner command again. *)
LEMMA AwaitIsACommand ==
    ASSUME NEW copy \in File, NEW i \in MeetingIds, NEW s \in States,
           NEW step \in {"google", "telling"}
    PROVE  [step |-> step, id |-> i, snap |-> [copy EXCEPT ![i] = s]] \in OwnerCommand
  BY SaveIsAFile DEF OwnerCommand

(***************************************************************************)
(* While an approval is under way its meeting is open, in the file and in  *)
(* the copy, and the copy has every settled meeting as the file has it.    *)
(***************************************************************************)
CopyKnowsDecisions ==
    Approving =>
        /\ owner.id \in MeetingIds
        /\ meetings[owner.id] \in OpenStates
        /\ owner.snap[owner.id] \in OpenStates
        /\ \A j \in MeetingIds : meetings[j] \in SettledStates => owner.snap[j] = meetings[j]

DeciderIsKnown == owner.step # "idle" => owner.id \in MeetingIds

(* The inductive invariant of the decision path. *)
Decisions ==
    /\ meetings \in File
    /\ notifying \subseteq MeetingIds
    /\ owner \in OwnerCommand
    /\ DeciderIsKnown
    /\ CopyKnowsDecisions

LEMMA DecisionsInit == MeetingInit => Decisions
  BY NamedStates
  DEF MeetingInit, Decisions, DeciderIsKnown, CopyKnowsDecisions, Approving, Idle

LEMMA DecisionsStep == Decisions /\ [MeetingNext]_meetingVars => Decisions'
<1> SUFFICES ASSUME Decisions, [MeetingNext]_meetingVars PROVE Decisions'
  OBVIOUS
<1> USE DEF Decisions, DeciderIsKnown, CopyKnowsDecisions, Approving
<1>1. ASSUME NEW c \in Requesters, NEW i \in MeetingIds, CreateMeetingRequest(c, i)
      PROVE  Decisions'
  <2>1. meetings' = [meetings EXCEPT ![i] = "requested"] /\ owner' = owner
        /\ notifying' \subseteq MeetingIds /\ meetings[i] = "absent"
    BY <1>1 DEF CreateMeetingRequest
  <2>2. /\ meetings' \in File /\ meetings'[i] \in OpenStates
        /\ \A j \in MeetingIds \ {i} : meetings'[j] = meetings[j]
    <3>1. "requested" \in States /\ "requested" \in OpenStates
      BY NamedStates
    <3>2. QED
      BY <2>1, <3>1 DEF File
  <2>3. ASSUME Approving
        PROVE  /\ owner.id # i
               /\ \A j \in MeetingIds : meetings'[j] \in SettledStates => owner.snap[j] = meetings'[j]
    BY <2>1, <2>2, <2>3, NamedStates
  <2>4. QED
    BY <2>1, <2>2, <2>3
<1>2. ASSUME NEW i \in MeetingIds, OwnerNotified(i) PROVE Decisions'
  <2>1. /\ meetings' = meetings \/ meetings' = [meetings EXCEPT ![i] = "owner_notified"]
        /\ owner' = owner /\ notifying' \subseteq MeetingIds
    BY <1>2 DEF OwnerNotified
  <2>2. QED
    BY <2>1, SaveIsAFile, NamedStates
<1>3. ASSUME NEW c \in Requesters, ReplyTimesOut(c) PROVE Decisions'
  BY <1>3 DEF ReplyTimesOut
<1>4. ASSUME NEW i \in MeetingIds, NEW s \in OpenStates, NEW step \in {"google", "telling"},
             Save(meetings, i, s), Await(step, i, s, meetings), UNCHANGED notifying
      PROVE  Decisions'
  <2>1. /\ meetings' = [meetings EXCEPT ![i] = s]
        /\ owner' = [step |-> step, id |-> i, snap |-> [meetings EXCEPT ![i] = s]]
    BY <1>4 DEF Save, Await
  <2>2. owner' \in OwnerCommand /\ owner'.id = i /\ owner'.snap = meetings'
    BY <2>1, <1>4, AwaitIsACommand, NamedStates
  <2>3. meetings' \in File /\ meetings'[i] = s
    <3>1. s \in States
      BY <1>4, NamedStates
    <3>2. QED
      BY <2>1, <3>1 DEF File
  <2>4. QED
    BY <1>4, <2>2, <2>3
<1>5. ASSUME NEW i \in MeetingIds, OwnerCommands(i) PROVE Decisions'
  <2>1. CASE ApproveWithApple(i)
    BY <2>1, <1>4, NamedStates DEF ApproveWithApple
  <2>2. ASSUME NEW made \in BOOLEAN, ApproveTriesGoogle(i, made) PROVE Decisions'
    BY <2>2, <1>4, NamedStates DEF ApproveTriesGoogle
  <2>3. ASSUME NEW made \in BOOLEAN, ApproveWithoutCalendar(i, made) PROVE Decisions'
    BY <2>3, <1>4, NamedStates DEF ApproveWithoutCalendar
  <2>4. CASE RejectMeeting(i)
    <3>1. /\ meetings' = [meetings EXCEPT ![i] = "rejected"]
          /\ owner' = [step |-> "declining", id |-> i, snap |-> Absent]
          /\ notifying' = notifying
      BY <2>4 DEF RejectMeeting, Save
    <3>2. owner' \in OwnerCommand /\ owner'.step = "declining" /\ owner'.id = i
      BY <3>1, NamedStates DEF OwnerCommand
    <3>3. QED
      BY <3>1, <3>2, SaveIsAFile, NamedStates
  <2>5. QED
    BY <1>5, <2>1, <2>2, <2>3, <2>4 DEF OwnerCommands
<1>6. CASE OwnerAwaits
  <2>1. owner.id \in MeetingIds /\ owner.snap \in File
    BY <1>6 DEF OwnerAwaits, GoogleMakesEvent, GoogleRejects, ApprovalTold, RejectionTold,
                OwnerCommand
  <2>2. CASE GoogleMakesEvent
    <3> DEFINE f == [owner.snap EXCEPT ![owner.id] = "event_created"]
    <3>1. /\ meetings' = f
          /\ owner' = [step |-> "telling", id |-> owner.id, snap |-> f]
          /\ notifying' = notifying
      BY <2>2 DEF GoogleMakesEvent, Save, Await
    <3>2. f \in File /\ f[owner.id] = "event_created"
      BY <2>1, SaveIsAFile, NamedStates
    <3>3. owner' \in OwnerCommand
      BY <3>1, <2>1, AwaitIsACommand, NamedStates
    <3>4. owner'.id = owner.id /\ owner'.snap = f
      BY <3>1
    <3> HIDE DEF f
    <3>5. QED
      BY <2>1, <3>1, <3>2, <3>3, <3>4, NamedStates
  <2>3. ASSUME NEW s \in States, Save(owner.snap, owner.id, s), owner' = Idle,
               UNCHANGED notifying
        PROVE  Decisions'
    BY <2>1, <2>3, SaveIsAFile, NamedStates DEF Save, Idle
  <2>4. ASSUME NEW made \in BOOLEAN, GoogleRejects(made) PROVE Decisions'
    BY <2>4, <2>3, NamedStates DEF GoogleRejects
  <2>5. ASSUME NEW sent \in BOOLEAN, ApprovalTold(sent) PROVE Decisions'
    BY <2>5, <2>3, NamedStates DEF ApprovalTold
  <2>6. ASSUME NEW sent \in BOOLEAN, RejectionTold(sent) PROVE Decisions'
    BY <2>6, NamedStates DEF RejectionTold, Idle
  <2>7. QED
    BY <1>6, <2>2, <2>4, <2>5, <2>6 DEF OwnerAwaits
<1>7. CASE GoogleUsedElsewhere
  BY <1>7 DEF GoogleUsedElsewhere
<1>8. CASE GoogleCooldownExpires
  BY <1>8 DEF GoogleCooldownExpires
<1>9. ASSUME NEW torn \in BOOLEAN, NEW sent \in BOOLEAN, MeetingsRestart(torn, sent)
      PROVE  Decisions'
  BY <1>9, NamedStates DEF MeetingsRestart, Idle
<1>10. ASSUME NEW i \in MeetingIds, NEW made \in BOOLEAN, RestartDuringApple(i, made)
       PROVE  Decisions'
  BY <1>10, SaveIsAFile, NamedStates DEF RestartDuringApple, Save, Decidable
<1>11. CASE UNCHANGED meetingVars
  BY <1>11 DEF meetingVars
<1>12. QED
  BY <1>1, <1>2, <1>3, <1>5, <1>6, <1>7, <1>8, <1>9, <1>10, <1>11 DEF MeetingNext

(* The inductive invariant holds: decisions survive the stale copies that  *)
(* approveMeeting (meeting-state.ts:178-269) saves.                        *)
THEOREM DecisionsInvariant == MeetingSpec => []Decisions
  BY DecisionsInit, DecisionsStep, PTL DEF MeetingSpec

(* While an approval is under way its meeting stays open                   *)
(* (meeting-state.ts:178-269 under the owner's chat lock).                 *)
THEOREM MeetingStaysOpen == MeetingSpec => []ApprovalKeepsItsMeetingOpen
<1>1. Decisions => ApprovalKeepsItsMeetingOpen
  BY DEF Decisions, CopyKnowsDecisions, ApprovalKeepsItsMeetingOpen
<1>2. QED
  BY <1>1, DecisionsInvariant, PTL

(* A decision is final, but for the late return of the meeting's own       *)
(* notification (meeting-state.ts:163-170).                                *)
THEOREM DecisionsStayFinal == MeetingSpec => DecisionsAreFinal
<1> DEFINE Reopened(i) == meetings[i] \in SettledStates /\ meetings'[i] \in OpenStates
           Final == \A i \in MeetingIds : Reopened(i) => i \in notifying
<1>1. Decisions /\ [MeetingNext]_meetingVars => [Final]_meetingVars
  <2> SUFFICES ASSUME Decisions, MeetingNext, NEW j \in MeetingIds, Reopened(j)
               PROVE  j \in notifying
    OBVIOUS
  <2> USE DEF Decisions, DeciderIsKnown, CopyKnowsDecisions, Approving
  <2>1. ASSUME NEW i \in MeetingIds, Decidable(i), NEW s \in States, Save(meetings, i, s)
        PROVE  j \in notifying
    BY <2>1, SaveIsAFile, NamedStates DEF Decidable, Save
  <2>2. ASSUME NEW s \in States, Approving, Save(owner.snap, owner.id, s)
        PROVE  j \in notifying
    BY <2>2, SaveIsAFile, NamedStates DEF Save, OwnerCommand
  <2>3. ASSUME NEW c \in Requesters, NEW i \in MeetingIds, CreateMeetingRequest(c, i)
        PROVE  j \in notifying
    BY <2>3, SaveIsAFile, NamedStates DEF CreateMeetingRequest
  <2>4. ASSUME NEW i \in MeetingIds, OwnerNotified(i) PROVE j \in notifying
    BY <2>4, SaveIsAFile, NamedStates DEF OwnerNotified
  <2>5. ASSUME meetings' = meetings PROVE j \in notifying
    BY <2>5, NamedStates
  <2>6. ASSUME NEW i \in MeetingIds, OwnerCommands(i) PROVE j \in notifying
    BY <2>6, <2>1, NamedStates
    DEF OwnerCommands, ApproveWithApple, ApproveTriesGoogle, ApproveWithoutCalendar,
        RejectMeeting
  <2>7. CASE OwnerAwaits
    BY <2>7, <2>2, <2>5, NamedStates
    DEF OwnerAwaits, GoogleMakesEvent, GoogleRejects, ApprovalTold, RejectionTold
  <2>8. ASSUME NEW torn \in BOOLEAN, NEW sent \in BOOLEAN, MeetingsRestart(torn, sent)
        PROVE  j \in notifying
    BY <2>8, NamedStates DEF MeetingsRestart, Absent
  <2>9. ASSUME NEW i \in MeetingIds, NEW made \in BOOLEAN, RestartDuringApple(i, made)
        PROVE  j \in notifying
    BY <2>9, <2>1, NamedStates DEF RestartDuringApple
  <2>10. QED
    BY <2>3, <2>4, <2>5, <2>6, <2>7, <2>8, <2>9
    DEF MeetingNext, ReplyTimesOut, GoogleUsedElsewhere, GoogleCooldownExpires
<1>2. QED
  BY <1>1, DecisionsInvariant, PTL DEF MeetingSpec, DecisionsAreFinal

(* Type correctness of the file, the locks, the circuit and the answers.   *)
THEOREM MeetingTypeCorrect == MeetingSpec => []MeetingTypeOK
<1>1. MeetingInit => MeetingTypeOK
  BY NamedStates, CircuitUpdates, MeetingRestartsAssumption
  DEF MeetingInit, MeetingTypeOK, Verdict
<1>2. Decisions /\ MeetingTypeOK /\ [MeetingNext]_meetingVars => MeetingTypeOK'
  <2> SUFFICES ASSUME Decisions, MeetingTypeOK, [MeetingNext]_meetingVars PROVE MeetingTypeOK'
    OBVIOUS
  <2>0. Decisions'
    BY DecisionsStep
  <2>a. /\ meetings' \in File /\ owner' \in OwnerCommand /\ notifying' \subseteq MeetingIds
        /\ owner.step # "idle" => owner.id \in MeetingIds
    BY <2>0 DEF Decisions, DeciderIsKnown
  <2>b. OneMore(0) \in 0 .. 2 /\ \A n \in 0 .. 2 : OneMore(n) \in 0 .. 2
    BY DEF OneMore
  <2>c. Answer \subseteq Verdict
    BY DEF Answer, Verdict
  <2>d. ASSUME NEW i \in MeetingIds
        PROVE  [events EXCEPT ![i] = OneMore(events[i])] \in [MeetingIds -> 0 .. 2]
    BY <2>b DEF MeetingTypeOK
  <2>e. ASSUME owner.id \in MeetingIds
        PROVE  [answers EXCEPT ![owner.id] = answers[owner.id] \cup Answer]
                  \in [MeetingIds -> SUBSET Verdict]
    BY <2>c, <2>e DEF MeetingTypeOK
  <2>f. ASSUME NEW i \in MeetingIds, NEW made \in BOOLEAN, AppleGaveUp(i, made)
        PROVE  events' \in [MeetingIds -> 0 .. 2] /\ hit' \subseteq MeetingIds
    BY <2>d, <2>f DEF AppleGaveUp, MeetingTypeOK
  <2>1. ASSUME NEW c \in Requesters, NEW i \in MeetingIds, CreateMeetingRequest(c, i) PROVE MeetingTypeOK'
    BY <2>1, <2>a DEF CreateMeetingRequest, MeetingTypeOK
  <2>2. ASSUME NEW i \in MeetingIds, OwnerNotified(i) PROVE MeetingTypeOK'
    BY <2>2, <2>a DEF OwnerNotified, MeetingTypeOK
  <2>3. ASSUME NEW c \in Requesters, ReplyTimesOut(c) PROVE MeetingTypeOK'
    BY <2>3, <2>a DEF ReplyTimesOut, MeetingTypeOK
  <2>4. ASSUME NEW i \in MeetingIds, OwnerCommands(i) PROVE MeetingTypeOK'
    <3>1. CASE ApproveWithApple(i)
      BY <3>1, <2>a, <2>d DEF ApproveWithApple, MeetingTypeOK
    <3>2. ASSUME NEW made \in BOOLEAN, ApproveTriesGoogle(i, made) PROVE MeetingTypeOK'
      BY <3>2, <2>a, <2>f DEF ApproveTriesGoogle, MeetingTypeOK
    <3>3. ASSUME NEW made \in BOOLEAN, ApproveWithoutCalendar(i, made) PROVE MeetingTypeOK'
      BY <3>3, <2>a, <2>f DEF ApproveWithoutCalendar, MeetingTypeOK
    <3>4. CASE RejectMeeting(i)
      BY <3>4, <2>a DEF RejectMeeting, MeetingTypeOK
    <3>5. QED
      BY <2>4, <3>1, <3>2, <3>3, <3>4 DEF OwnerCommands
  <2>5. CASE OwnerAwaits
    <3>1. owner.id \in MeetingIds
      BY <2>5, <2>a
      DEF OwnerAwaits, GoogleMakesEvent, GoogleRejects, ApprovalTold, RejectionTold
    <3>2. CASE GoogleMakesEvent
      <4>1. meetingCircuit' \in Circuit
        BY <3>2, CircuitUpdates DEF GoogleMakesEvent, MeetingTypeOK
      <4>2. QED
        BY <3>1, <3>2, <4>1, <2>a, <2>d DEF GoogleMakesEvent, MeetingTypeOK
    <3>3. ASSUME NEW made \in BOOLEAN, GoogleRejects(made) PROVE MeetingTypeOK'
      <4>1. meetingCircuit' \in Circuit
        BY <3>3, CircuitUpdates DEF GoogleRejects, MeetingTypeOK
      <4>2. QED
        BY <3>1, <3>3, <4>1, <2>a, <2>f DEF GoogleRejects, MeetingTypeOK
    <3>4. ASSUME NEW sent \in BOOLEAN, ApprovalTold(sent) PROVE MeetingTypeOK'
      BY <3>1, <3>4, <2>a, <2>e DEF ApprovalTold, MeetingTypeOK
    <3>5. ASSUME NEW sent \in BOOLEAN, RejectionTold(sent) PROVE MeetingTypeOK'
      BY <3>1, <3>5, <2>a, <2>e DEF RejectionTold, MeetingTypeOK
    <3>6. QED
      BY <2>5, <3>2, <3>3, <3>4, <3>5 DEF OwnerAwaits
  <2>6. CASE GoogleUsedElsewhere
    <3>1. meetingCircuit' \in Circuit
      BY <2>6, CircuitUpdates DEF GoogleUsedElsewhere, MeetingTypeOK
    <3>2. QED
      BY <2>6, <3>1, <2>a DEF GoogleUsedElsewhere, MeetingTypeOK
  <2>7. CASE GoogleCooldownExpires
    <3>1. meetingCircuit' \in Circuit
      BY <2>7, CircuitUpdates DEF GoogleCooldownExpires, MeetingTypeOK
    <3>2. QED
      BY <2>7, <3>1, <2>a DEF GoogleCooldownExpires, MeetingTypeOK
  <2>8. ASSUME NEW torn \in BOOLEAN, NEW sent \in BOOLEAN, MeetingsRestart(torn, sent)
        PROVE  MeetingTypeOK'
    <3>1. answers' \in [MeetingIds -> SUBSET Verdict]
      <4>1. CASE Answer # {}
        <5>1. owner.id \in MeetingIds
          BY <4>1, <2>a DEF Answer
        <5>2. QED
          BY <2>8, <5>1, <2>e DEF MeetingsRestart, MeetingTypeOK
      <4>2. CASE Answer = {}
        BY <2>8, <4>2 DEF MeetingsRestart, MeetingTypeOK
      <4>3. QED
        BY <4>1, <4>2
    <3>2. meetingRestarts' \in 0 .. MaxMeetingRestarts
      BY <2>8, MeetingRestartsAssumption DEF MeetingsRestart, MeetingTypeOK
    <3>3. QED
      BY <2>8, <3>1, <3>2, <2>a, CircuitUpdates DEF MeetingsRestart, MeetingTypeOK
  <2>9. ASSUME NEW i \in MeetingIds, NEW made \in BOOLEAN, RestartDuringApple(i, made)
        PROVE  MeetingTypeOK'
    <3>1. meetingRestarts' \in 0 .. MaxMeetingRestarts
      BY <2>9, MeetingRestartsAssumption DEF RestartDuringApple, MeetingTypeOK
    <3>2. QED
      BY <2>9, <3>1, <2>a, <2>d, CircuitUpdates DEF RestartDuringApple, MeetingTypeOK
  <2>10. CASE UNCHANGED meetingVars
    BY <2>10 DEF meetingVars, MeetingTypeOK
  <2>11. QED
    BY <2>1, <2>2, <2>3, <2>4, <2>5, <2>6, <2>7, <2>8, <2>9, <2>10 DEF MeetingNext
<1>3. QED
  BY <1>1, <1>2, DecisionsInvariant, PTL DEF MeetingSpec

-----------------------------------------------------------------------------
(* One outcome per meeting. *)

Deciding(i) == owner.step # "idle" /\ owner.id = i

(***************************************************************************)
(* What a meeting that no outside fault touched has got so far: nothing    *)
(* while it is open, an event while its approval is being told, one answer *)
(* once it is settled; and the copy that an approval will save knows the   *)
(* settled meetings as they are.                                           *)
(***************************************************************************)
Outcomes ==
    \A i \in MeetingIds \ hit :
        /\ Deciding(i) => answers[i] = {}
        /\ Deciding(i) /\ owner.step # "telling" => events[i] = 0
        /\ Deciding(i) /\ owner.step = "declining" => meetings[i] = "rejected"
        /\ ~Deciding(i) /\ meetings[i] \notin SettledStates => events[i] = 0 /\ answers[i] = {}
        /\ meetings[i] = "completed" => answers[i] \subseteq {"approved"}
        /\ meetings[i] = "rejected" => events[i] = 0 /\ answers[i] \subseteq {"rejected"}
        /\ events[i] <= 1
        /\ Approving /\ i # owner.id /\ owner.snap[i] \in SettledStates =>
              meetings[i] = owner.snap[i]

LEMMA OutcomesInit == MeetingInit => Outcomes
  BY NamedStates DEF MeetingInit, Outcomes, Deciding, Approving, Idle, Absent

LEMMA OutcomesStep ==
    ASSUME MeetingTypeOK, Decisions, Outcomes, [MeetingNext]_meetingVars
    PROVE  Outcomes'
<1> USE DEF Outcomes, Deciding, Approving
<1>a. /\ meetings \in File /\ owner \in OwnerCommand
      /\ events \in [MeetingIds -> 0 .. 2] /\ answers \in [MeetingIds -> SUBSET Verdict]
      /\ owner.step # "idle" => owner.id \in MeetingIds
      /\ Approving => meetings[owner.id] \in OpenStates
      /\ Approving => \A j \in MeetingIds : meetings[j] \in SettledStates => owner.snap[j] = meetings[j]
  BY DEF MeetingTypeOK, Decisions, DeciderIsKnown, CopyKnowsDecisions
<1>b. OneMore(0) = 1
  BY DEF OneMore
<1>1. ASSUME NEW c \in Requesters, NEW i \in MeetingIds, CreateMeetingRequest(c, i)
      PROVE  Outcomes'
  <2>1. /\ meetings' = [meetings EXCEPT ![i] = "requested"]
        /\ meetings[i] = "absent"
        /\ UNCHANGED <<owner, events, answers, hit>>
    BY <1>1 DEF CreateMeetingRequest
  <2>2. /\ meetings'[i] = "requested"
        /\ \A j \in MeetingIds \ {i} : meetings'[j] = meetings[j]
    BY <2>1, <1>a DEF File
  <2>3. QED
    BY <2>1, <2>2, <1>a, NamedStates
<1>2. ASSUME NEW i \in MeetingIds, OwnerNotified(i) PROVE Outcomes'
  <2>1. /\ UNCHANGED <<owner, events, answers>>
        /\ hit' = IF meetings[i] \in SettledStates THEN hit \cup {i} ELSE hit
        /\ \A j \in MeetingIds \ {i} : meetings'[j] = meetings[j]
        /\ meetings[i] = "absent" => meetings'[i] = meetings[i]
        /\ meetings[i] # "absent" => meetings'[i] = "owner_notified"
    BY <1>2, <1>a DEF OwnerNotified, File
  <2>2. meetings[i] \in OpenStates \cup SettledStates \cup {"absent"}
    BY <1>a DEF File, States
  <2>3. QED
    BY <2>1, <2>2, <1>a, NamedStates
<1>3. ASSUME NEW i \in MeetingIds, Decidable(i), NEW s \in {"approved", "event_created"},
             NEW step \in {"google", "telling"},
             Save(meetings, i, s), Await(step, i, s, meetings), UNCHANGED answers,
             hit \subseteq hit',
             \A j \in MeetingIds \ {i} : events'[j] = events[j],
             i \in hit' \/ events'[i] = events[i] \/ (step = "telling" /\ events'[i] = 1)
      PROVE  Outcomes'
  <2>1. /\ meetings' = [meetings EXCEPT ![i] = s]
        /\ owner'.step = step /\ owner'.id = i /\ owner'.snap = meetings'
    BY <1>3 DEF Save, Await
  <2>2. /\ meetings'[i] = s
        /\ \A j \in MeetingIds \ {i} : meetings'[j] = meetings[j]
    BY <2>1, <1>a DEF File
  <2>3. owner.step = "idle" /\ meetings[i] \in OpenStates
    BY <1>3 DEF Decidable
  <2>4. i \notin hit => events[i] = 0 /\ answers[i] = {}
    BY <2>3, NamedStates
  <2>5. QED
    BY <1>3, <2>1, <2>2, <2>3, <2>4, <1>a, NamedStates
<1>4. ASSUME NEW i \in MeetingIds, OwnerCommands(i) PROVE Outcomes'
  <2>0. Decidable(i) => (i \notin hit => events[i] = 0)
    BY NamedStates DEF Decidable
  <2>1. CASE ApproveWithApple(i)
    <3>1. /\ \A j \in MeetingIds \ {i} : events'[j] = events[j]
          /\ i \in hit' \/ events'[i] = 1
      BY <2>1, <2>0, <1>a, <1>b DEF ApproveWithApple
    <3>2. QED
      BY <2>1, <3>1, <1>3 DEF ApproveWithApple
  <2>2. ASSUME NEW made \in BOOLEAN, AppleGaveUp(i, made)
        PROVE  /\ hit \subseteq hit'
               /\ \A j \in MeetingIds \ {i} : events'[j] = events[j]
               /\ i \in hit' \/ events'[i] = events[i]
    BY <2>2, <1>a DEF AppleGaveUp
  <2>3. ASSUME NEW made \in BOOLEAN, ApproveTriesGoogle(i, made) PROVE Outcomes'
    BY <2>3, <2>2, <1>3 DEF ApproveTriesGoogle
  <2>4. ASSUME NEW made \in BOOLEAN, ApproveWithoutCalendar(i, made) PROVE Outcomes'
    BY <2>4, <2>2, <1>3 DEF ApproveWithoutCalendar
  <2>5. CASE RejectMeeting(i)
    <3>1. /\ meetings'[i] = "rejected"
          /\ \A j \in MeetingIds \ {i} : meetings'[j] = meetings[j]
          /\ owner'.step = "declining" /\ owner'.id = i
          /\ UNCHANGED <<events, answers, hit>>
      BY <2>5, <1>a DEF RejectMeeting, Save, File
    <3>2. owner.step = "idle" /\ meetings[i] \in OpenStates
      BY <2>5 DEF RejectMeeting, Decidable
    <3>3. QED
      BY <3>1, <3>2, <1>a, NamedStates
  <2>6. QED
    BY <1>4, <2>1, <2>3, <2>4, <2>5 DEF OwnerCommands
<1>5. CASE OwnerAwaits
  <2>1. owner.id \in MeetingIds /\ owner.snap \in File /\ owner.step # "idle"
    BY <1>5, <1>a DEF OwnerAwaits, GoogleMakesEvent, GoogleRejects, ApprovalTold, RejectionTold,
                      OwnerCommand
  <2> DEFINE saved(s) == [owner.snap EXCEPT ![owner.id] = s]
  <2>2. ASSUME NEW s \in States, Approving, Save(owner.snap, owner.id, s)
        PROVE  /\ meetings' = saved(s)
               /\ meetings'[owner.id] = s
               /\ \A j \in MeetingIds \ {owner.id} : meetings'[j] = owner.snap[j]
               /\ \A j \in MeetingIds \ hit : j # owner.id =>
                     \/ meetings'[j] \in SettledStates /\ meetings'[j] = meetings[j]
                     \/ meetings'[j] \notin SettledStates /\ meetings[j] \notin SettledStates
    <3>1. /\ meetings' = saved(s)
          /\ meetings'[owner.id] = s
          /\ \A j \in MeetingIds \ {owner.id} : meetings'[j] = owner.snap[j]
      BY <2>1, <2>2 DEF Save, File
    <3>2. QED
      BY <3>1, <2>2, <1>a
  <2>3. CASE GoogleMakesEvent
    <3>1. /\ owner.step = "google"
          /\ owner' = [step |-> "telling", id |-> owner.id, snap |-> saved("event_created")]
          /\ events' = [events EXCEPT ![owner.id] = OneMore(@)]
          /\ Save(owner.snap, owner.id, "event_created")
          /\ UNCHANGED <<answers, hit>>
      BY <2>3 DEF GoogleMakesEvent, Await
    <3>2. /\ owner'.step = "telling" /\ owner'.id = owner.id /\ owner'.snap = meetings'
          /\ meetings'[owner.id] = "event_created"
      BY <3>1, <2>2, NamedStates
    <3>3. /\ \A j \in MeetingIds \ {owner.id} : events'[j] = events[j]
          /\ owner.id \in hit \/ events'[owner.id] = 1
      BY <3>1, <2>1, <1>a, <1>b
    <3>4. ASSUME NEW j \in MeetingIds \ hit, j # owner.id
          PROVE  \/ meetings'[j] \in SettledStates /\ meetings'[j] = meetings[j]
                 \/ meetings'[j] \notin SettledStates /\ meetings[j] \notin SettledStates
      BY <3>1, <3>4, <2>2, NamedStates
    <3> HIDE DEF saved
    <3>5. QED
      BY <3>1, <3>2, <3>3, <3>4, <2>1, NamedStates
  <2>4. ASSUME NEW made \in BOOLEAN, GoogleRejects(made) PROVE Outcomes'
    <3>1. /\ owner.step = "google" /\ owner'.step = "idle"
          /\ Save(owner.snap, owner.id, "owner_notified")
          /\ UNCHANGED answers /\ hit \subseteq hit'
          /\ \A j \in MeetingIds \ {owner.id} : events'[j] = events[j]
          /\ owner.id \in hit' \/ events'[owner.id] = events[owner.id]
      BY <2>4, <2>1, <1>a DEF GoogleRejects, AppleGaveUp, Idle
    <3>2. /\ meetings'[owner.id] = "owner_notified"
          /\ \A j \in MeetingIds \ hit : j # owner.id =>
                 \/ meetings'[j] \in SettledStates /\ meetings'[j] = meetings[j]
                 \/ meetings'[j] \notin SettledStates /\ meetings[j] \notin SettledStates
      BY <3>1, <2>2, NamedStates
    <3>3. QED
      BY <3>1, <3>2, <2>1, NamedStates
  <2>5. ASSUME NEW sent \in BOOLEAN, ApprovalTold(sent) PROVE Outcomes'
    <3>1. /\ owner.step = "telling" /\ owner'.step = "idle"
          /\ Save(owner.snap, owner.id, "completed")
          /\ UNCHANGED <<events, hit>>
          /\ \A j \in MeetingIds \ {owner.id} : answers'[j] = answers[j]
          /\ answers'[owner.id] \subseteq answers[owner.id] \cup {"approved"}
      BY <2>5, <2>1, <1>a DEF ApprovalTold, Answer, Idle
    <3>2. /\ meetings'[owner.id] = "completed"
          /\ \A j \in MeetingIds \ hit : j # owner.id =>
                 \/ meetings'[j] \in SettledStates /\ meetings'[j] = meetings[j]
                 \/ meetings'[j] \notin SettledStates /\ meetings[j] \notin SettledStates
      BY <3>1, <2>2, NamedStates
    <3>3. QED
      BY <3>1, <3>2, <2>1, NamedStates
  <2>6. ASSUME NEW sent \in BOOLEAN, RejectionTold(sent) PROVE Outcomes'
    <3>1. /\ owner.step = "declining" /\ owner'.step = "idle"
          /\ UNCHANGED <<meetings, events, hit>>
          /\ \A j \in MeetingIds \ {owner.id} : answers'[j] = answers[j]
          /\ answers'[owner.id] \subseteq answers[owner.id] \cup {"rejected"}
      BY <2>6, <2>1, <1>a DEF RejectionTold, Answer, Idle
    <3>2. QED
      BY <3>1, <2>1, NamedStates
  <2>7. QED
    BY <1>5, <2>3, <2>4, <2>5, <2>6 DEF OwnerAwaits
<1>6. ASSUME NEW torn \in BOOLEAN, NEW sent \in BOOLEAN, MeetingsRestart(torn, sent)
      PROVE  Outcomes'
  <2>1. /\ meetings' = IF torn THEN Absent ELSE meetings
        /\ hit' = hit \cup {i \in MeetingIds : i = owner.id \/ (torn /\ meetings[i] # "absent")}
        /\ owner'.step = "idle" /\ UNCHANGED events
        /\ \A j \in MeetingIds : j # owner.id => answers'[j] = answers[j]
    BY <1>6, <1>a DEF MeetingsRestart, Idle
  <2>2. QED
    BY <2>1, NamedStates DEF Absent
<1>7. ASSUME NEW i \in MeetingIds, NEW made \in BOOLEAN, RestartDuringApple(i, made)
      PROVE  Outcomes'
  <2>1. /\ owner.step = "idle" /\ UNCHANGED <<owner, answers>>
        /\ hit' = hit \cup {i}
        /\ \A j \in MeetingIds \ {i} : events'[j] = events[j] /\ meetings'[j] = meetings[j]
    BY <1>7, <1>a DEF RestartDuringApple, Decidable, Save, File
  <2>2. QED
    BY <2>1, NamedStates
<1>8. CASE UNCHANGED <<meetings, owner, events, answers, hit>>
  BY <1>8
<1>9. QED
  BY <1>1, <1>2, <1>4, <1>5, <1>6, <1>7, <1>8
  DEF MeetingNext, ReplyTimesOut, GoogleUsedElsewhere, GoogleCooldownExpires, meetingVars

-----------------------------------------------------------------------------
(* One open meeting per chat. *)

(* A request that is open, or still on its way to the owner, excludes any  *)
(* other open meeting of its chat.                                         *)
OneAtATime ==
    \A i, j \in MeetingIds :
        ( /\ chat[i] \in Requesters \ timedOut
          /\ chat[j] = chat[i]
          /\ meetings[i] \in OpenStates \/ i \in notifying
          /\ meetings[j] \in OpenStates )
        => i = j

(* A request on its way holds its chat's lock until the reply times out.   *)
NotifyingHoldsLock ==
    \A i \in notifying :
        chat[i] \in Requesters /\ (chat[i] \notin timedOut => lock[chat[i]] = i)

(* The copy an approval saves reopens nothing and brings nothing back.     *)
CopyIsOlder ==
    Approving =>
        \A j \in MeetingIds :
            /\ owner.snap[j] \in OpenStates => meetings[j] \in OpenStates
            /\ owner.snap[j] # "absent" => meetings[j] # "absent"

OneRequest == OneAtATime /\ NotifyingHoldsLock /\ CopyIsOlder

LEMMA OneRequestInit == MeetingInit => OneRequest
  BY NamedStates
  DEF MeetingInit, OneRequest, OneAtATime, NotifyingHoldsLock, CopyIsOlder, Approving, Idle,
      Absent

LEMMA OneRequestStep ==
    ASSUME MeetingTypeOK, Decisions, OneRequest, [MeetingNext]_meetingVars
    PROVE  OneRequest'
<1> USE DEF OneRequest, OneAtATime, NotifyingHoldsLock, CopyIsOlder, Approving
<1>a. /\ meetings \in File /\ owner \in OwnerCommand /\ notifying \subseteq MeetingIds
      /\ chat \in [MeetingIds -> Requesters \cup {NoMeeting}] /\ lock \in [Requesters -> MeetingIds \cup {NoMeeting}]
      /\ owner.step # "idle" => owner.id \in MeetingIds
      /\ Approving => meetings[owner.id] \in OpenStates
  BY DEF MeetingTypeOK, Decisions, DeciderIsKnown, CopyKnowsDecisions
<1>1. ASSUME NEW c \in Requesters, NEW i \in MeetingIds, CreateMeetingRequest(c, i)
      PROVE  OneRequest'
  <2>1. /\ lock[c] = NoMeeting /\ meetings[i] = "absent" /\ i \notin notifying
        /\ \A j \in MeetingIds : chat[j] = c => meetings[j] \notin OpenStates
        /\ notifying' = notifying \cup {i}
        /\ UNCHANGED <<owner, timedOut>>
    BY <1>1 DEF CreateMeetingRequest, OpenMeetings
  <2>2. /\ meetings'[i] = "requested" /\ chat'[i] = c /\ lock'[c] = i
        /\ \A j \in MeetingIds \ {i} : meetings'[j] = meetings[j] /\ chat'[j] = chat[j]
        /\ \A d \in Requesters \ {c} : lock'[d] = lock[d]
    BY <1>1, <1>a DEF CreateMeetingRequest, File
  <2>3. ASSUME NEW j \in notifying, chat[j] = c PROVE c \in timedOut
    BY <2>1, <2>3, <1>a, NoMeetingAssumption
  <2>4. OneAtATime'
    BY <2>1, <2>2, <2>3, <1>a, NamedStates
  <2>5. NotifyingHoldsLock'
    BY <2>1, <2>2, <2>3, <1>a
  <2>6. CopyIsOlder'
    BY <2>1, <2>2, NamedStates
  <2>7. QED
    BY <2>4, <2>5, <2>6
<1>2. ASSUME NEW i \in MeetingIds, OwnerNotified(i) PROVE OneRequest'
  <2>1. /\ i \in notifying /\ notifying' = notifying \ {i}
        /\ UNCHANGED <<chat, owner, timedOut>>
        /\ \A j \in MeetingIds \ {i} : meetings'[j] = meetings[j]
        /\ meetings[i] = "absent" => meetings'[i] = "absent"
        /\ meetings[i] # "absent" => meetings'[i] = "owner_notified"
        /\ \A c \in Requesters : lock[c] # i => lock'[c] = lock[c]
    BY <1>2, <1>a DEF OwnerNotified, File
  <2>2. OneAtATime'
    BY <2>1, <1>a, NamedStates
  <2>3. NotifyingHoldsLock'
    BY <2>1, <1>a
  <2>4. CopyIsOlder'
    BY <2>1, NamedStates
  <2>5. QED
    BY <2>2, <2>3, <2>4
<1>3. ASSUME NEW c \in Requesters, ReplyTimesOut(c) PROVE OneRequest'
  <2>1. /\ timedOut' = timedOut \cup {c}
        /\ \A d \in Requesters \ {c} : lock'[d] = lock[d]
        /\ UNCHANGED <<chat, meetings, notifying, owner>>
    BY <1>3, <1>a DEF ReplyTimesOut
  <2>2. QED
    BY <2>1, <1>a
<1>4. ASSUME \A j \in MeetingIds : meetings'[j] \in OpenStates => meetings[j] \in OpenStates,
             UNCHANGED <<chat, notifying, lock, timedOut>>
      PROVE  OneAtATime' /\ NotifyingHoldsLock'
  BY <1>4
<1>5. ASSUME NEW i \in MeetingIds, OwnerCommands(i) PROVE OneRequest'
  <2>1. ASSUME Decidable(i), NEW s \in {"approved", "event_created"},
               NEW step \in {"google", "telling"},
               Save(meetings, i, s), Await(step, i, s, meetings),
               UNCHANGED <<chat, notifying, lock, timedOut>>
        PROVE  OneRequest'
    <3>1. /\ meetings'[i] = s /\ owner'.snap = meetings'
          /\ \A j \in MeetingIds \ {i} : meetings'[j] = meetings[j]
          /\ meetings[i] \in OpenStates
      BY <2>1, <1>a DEF Save, Await, Decidable, File
    <3>2. QED
      BY <2>1, <3>1, <1>4
  <2>2. CASE ApproveWithApple(i)
    BY <2>2, <2>1 DEF ApproveWithApple
  <2>3. ASSUME NEW made \in BOOLEAN, ApproveTriesGoogle(i, made) PROVE OneRequest'
    BY <2>3, <2>1 DEF ApproveTriesGoogle
  <2>4. ASSUME NEW made \in BOOLEAN, ApproveWithoutCalendar(i, made) PROVE OneRequest'
    BY <2>4, <2>1 DEF ApproveWithoutCalendar
  <2>5. CASE RejectMeeting(i)
    <3>1. /\ meetings'[i] = "rejected" /\ owner'.step = "declining"
          /\ \A j \in MeetingIds \ {i} : meetings'[j] = meetings[j]
          /\ UNCHANGED <<chat, notifying, lock, timedOut>>
      BY <2>5, <1>a DEF RejectMeeting, Save, File
    <3>2. QED
      BY <3>1, <1>4, NamedStates
  <2>6. QED
    BY <1>5, <2>2, <2>3, <2>4, <2>5 DEF OwnerCommands
<1>6. CASE OwnerAwaits
  <2>1. owner.id \in MeetingIds /\ owner.snap \in File
    BY <1>6, <1>a DEF OwnerAwaits, GoogleMakesEvent, GoogleRejects, ApprovalTold, RejectionTold,
                      OwnerCommand
  <2>2. ASSUME NEW s \in States, Approving, Save(owner.snap, owner.id, s),
               UNCHANGED <<chat, notifying, lock, timedOut>>
        PROVE  OneAtATime' /\ NotifyingHoldsLock'
    <3>1. /\ meetings'[owner.id] = s
          /\ \A j \in MeetingIds \ {owner.id} : meetings'[j] = owner.snap[j]
      BY <2>1, <2>2, SaveIsAFile DEF Save
    <3>2. \A j \in MeetingIds : meetings'[j] \in OpenStates => meetings[j] \in OpenStates
      BY <3>1, <2>2, <1>a
    <3>3. QED
      BY <3>2, <2>2, <1>4
  <2>3. CASE GoogleMakesEvent
    <3>1. owner'.snap = meetings'
      BY <2>3 DEF GoogleMakesEvent, Save, Await
    <3>2. OneAtATime' /\ NotifyingHoldsLock'
      BY <2>3, <2>2, NamedStates DEF GoogleMakesEvent
    <3>3. QED
      BY <3>1, <3>2
  <2>4. ASSUME NEW made \in BOOLEAN, GoogleRejects(made) PROVE OneRequest'
    BY <2>4, <2>2, NamedStates DEF GoogleRejects, Idle
  <2>5. ASSUME NEW sent \in BOOLEAN, ApprovalTold(sent) PROVE OneRequest'
    BY <2>5, <2>2, NamedStates DEF ApprovalTold, Idle
  <2>6. ASSUME NEW sent \in BOOLEAN, RejectionTold(sent) PROVE OneRequest'
    BY <2>6, <1>4 DEF RejectionTold, Idle
  <2>7. QED
    BY <1>6, <2>3, <2>4, <2>5, <2>6 DEF OwnerAwaits
<1>7. ASSUME NEW torn \in BOOLEAN, NEW sent \in BOOLEAN, MeetingsRestart(torn, sent)
      PROVE  OneRequest'
  BY <1>7, NamedStates DEF MeetingsRestart, Idle, Absent
<1>8. ASSUME NEW i \in MeetingIds, NEW made \in BOOLEAN, RestartDuringApple(i, made)
      PROVE  OneRequest'
  <2>1. /\ owner.step = "idle" /\ meetings[i] \in OpenStates
        /\ \A j \in MeetingIds \ {i} : meetings'[j] = meetings[j]
        /\ notifying' = {} /\ UNCHANGED <<chat, owner, timedOut>>
    BY <1>8, <1>a DEF RestartDuringApple, Decidable, Save, File
  <2>2. QED
    BY <2>1, <1>a
<1>9. CASE UNCHANGED <<meetings, chat, notifying, lock, owner, timedOut>>
  BY <1>9
<1>10. QED
  BY <1>1, <1>2, <1>3, <1>5, <1>6, <1>7, <1>8, <1>9
  DEF MeetingNext, GoogleUsedElsewhere, GoogleCooldownExpires, meetingVars

(* Without an outside fault no meeting gets two events and no contact both *)
(* answers, and no chat has two open meetings but one whose reply timed    *)
(* out: the duplicate check of createMeetingRequest (meeting-state.ts:     *)
(* 107-124) and the settled check of approveMeeting suffice, although      *)
(* every save is of the whole file.                                        *)
THEOREM OneMeetingAndOneOutcome == MeetingSpec => []OneMeetingOneOutcome
<1>1. MeetingInit => Outcomes /\ OneRequest
  BY OutcomesInit, OneRequestInit
<1>2. MeetingTypeOK /\ Decisions /\ Outcomes /\ OneRequest /\ [MeetingNext]_meetingVars
      => Outcomes' /\ OneRequest'
  BY OutcomesStep, OneRequestStep
<1>3. ASSUME MeetingTypeOK, Outcomes, OneRequest PROVE OneMeetingOneOutcome
  <2>1. ASSUME NEW c \in Requesters \ timedOut PROVE Cardinality(OpenMeetings(c)) <= 1
    <3>1. CASE OpenMeetings(c) = {}
      <4>1. Cardinality(OpenMeetings(c)) = 0
        BY <3>1, FS_EmptySet
      <4>2. QED
        BY <4>1
    <3>2. CASE OpenMeetings(c) # {}
      <4>1. PICK i \in MeetingIds : i \in OpenMeetings(c)
        BY <3>2 DEF OpenMeetings
      <4>2. OpenMeetings(c) = {i}
        BY <4>1, <1>3, <2>1 DEF OpenMeetings, OneRequest, OneAtATime
      <4>3. Cardinality(OpenMeetings(c)) = 1
        BY <4>2, FS_Singleton
      <4>4. QED
        BY <4>3
    <3>3. QED
      BY <3>1, <3>2
  <2>2. ASSUME NEW i \in MeetingIds \ hit PROVE events[i] <= 1 /\ answers[i] # Verdict
    <3>1. meetings[i] \in OpenStates \cup SettledStates \cup {"absent"}
      BY <1>3, <2>2 DEF MeetingTypeOK, File, States
    <3>2. QED
      BY <1>3, <2>2, <3>1 DEF Outcomes, Deciding, Verdict, SettledStates
  <2>3. QED
    BY <2>1, <2>2 DEF OneMeetingOneOutcome, OneOpenMeetingPerChat, OneOutcomePerMeeting
<1>4. QED
  BY <1>1, <1>2, <1>3, MeetingTypeCorrect, DecisionsInvariant, PTL DEF MeetingSpec
=============================================================================
