------------------------- MODULE MeetingStateMachine -------------------------
(***************************************************************************)
(* The meeting lifecycle (src/meetings/meeting-state.ts), the calendar it  *)
(* writes to (src/calendar.ts, with the google-calendar circuit) and the   *)
(* two callers: the request_meeting tool in a contact's chat and the       *)
(* owner's approve / reject commands (src/whatsapp/owner-commands.ts).     *)
(*                                                                         *)
(* meetings.json is read and rewritten whole.  Between two awaits a        *)
(* handler runs alone, so one action is one stretch between awaits; what   *)
(* can come in between is every other chat's handler, a reply timeout and  *)
(* a restart.  Apple Calendar is driven by execSync: it answers inside the *)
(* stretch that asks it.                                                   *)
(*                                                                         *)
(* A new id is one no record has.  The date and time of an approval are    *)
(* the owner's input: an approval that lacks them changes nothing, and     *)
(* neither does one of a meeting that is unknown or already settled.       *)
(***************************************************************************)
EXTENDS CircuitState, FiniteSets

CONSTANTS
    Requesters,            \* contacts' chats
    MeetingIds,            \* the codes generateMeetingId draws
    NoMeeting,             \* no id
    MaxMeetingRestarts     \* bound: restarts of the process in a behaviour

ASSUME NoMeetingAssumption == NoMeeting \notin MeetingIds
ASSUME MeetingRestartsAssumption == MaxMeetingRestarts \in Nat

VARIABLES
    meetings,        \* meetings.json: the state of every meeting, or "absent"
    chat,            \* meetings.json: the chat each meeting was asked for in
    notifying,       \* createMeetingRequest calls awaiting notifyOwner
    lock,            \* the request a contact's chat lock is held for
    owner,           \* the owner command in progress: its step, id and snapshot
    meetingCircuit,  \* the google-calendar circuit
    events,          \* external: calendar events per meeting (2 stands for more)
    answers,         \* external: the answers each meeting's contact received
    hit,             \* ghost: meetings an outside fault touched
    timedOut,        \* ghost: chats whose reply timed out amid a request
    meetingRestarts  \* restarts so far

meetingVars == <<meetings, chat, notifying, lock, owner, meetingCircuit, events,
                 answers, hit, timedOut, meetingRestarts>>

OpenStates == {"requested", "owner_notified", "approved", "event_created"}
SettledStates == {"completed", "rejected"}
States == OpenStates \cup SettledStates \cup {"absent"}

Verdict == {"approved", "rejected"}
File == [MeetingIds -> States]

OwnerCommand ==
    [step : {"idle", "google", "telling", "declining"},
     id : MeetingIds \cup {NoMeeting},
     snap : File]

Absent == [i \in MeetingIds |-> "absent"]
Idle == [step |-> "idle", id |-> NoMeeting, snap |-> Absent]

MeetingTypeOK ==
    /\ meetings \in File
    /\ chat \in [MeetingIds -> Requesters \cup {NoMeeting}]
    /\ notifying \subseteq MeetingIds
    /\ lock \in [Requesters -> MeetingIds \cup {NoMeeting}]
    /\ owner \in OwnerCommand
    /\ meetingCircuit \in Circuit
    /\ events \in [MeetingIds -> 0 .. 2]
    /\ answers \in [MeetingIds -> SUBSET Verdict]
    /\ hit \subseteq MeetingIds
    /\ timedOut \subseteq Requesters
    /\ meetingRestarts \in 0 .. MaxMeetingRestarts

MeetingInit ==
    /\ meetings = Absent
    /\ chat = [i \in MeetingIds |-> NoMeeting]
    /\ notifying = {}
    /\ lock = [c \in Requesters |-> NoMeeting]
    /\ owner = Idle
    /\ meetingCircuit = FreshCircuit
    /\ events = [i \in MeetingIds |-> 0]
    /\ answers = [i \in MeetingIds |-> {}]
    /\ hit = {}
    /\ timedOut = {}
    /\ meetingRestarts = 0

OpenMeetings(c) == {i \in MeetingIds : chat[i] = c /\ meetings[i] \in OpenStates}

OneMore(n) == IF n < 2 THEN n + 1 ELSE 2

-----------------------------------------------------------------------------
(* Requests. *)

(* Mutants: what a slip in this code would do. *)

RequestUnchecked(c, i) ==     \* createMeetingRequest without its duplicate check
    /\ lock[c] = NoMeeting
    /\ meetings[i] = "absent" /\ i \notin hit /\ i \notin notifying
    /\ meetings' = [meetings EXCEPT ![i] = "requested"]
    /\ chat' = [chat EXCEPT ![i] = c]
    /\ notifying' = notifying \cup {i}
    /\ lock' = [lock EXCEPT ![c] = i]
    /\ UNCHANGED <<owner, meetingCircuit, events, answers, hit, timedOut,
                   meetingRestarts>>

(***************************************************************************)
(* createMeetingRequest up to its await: no open meeting of this chat, a   *)
(* new record in state requested, saved; then the owner's notification is  *)
(* on its way.  With an open meeting the call answers alreadyPending and   *)
(* nothing changes.                                                        *)
(***************************************************************************)
CreateMeetingRequest(c, i) ==
    /\ lock[c] = NoMeeting
    /\ OpenMeetings(c) = {}
    /\ meetings[i] = "absent" /\ i \notin hit /\ i \notin notifying
    /\ meetings' = [meetings EXCEPT ![i] = "requested"]
    /\ chat' = [chat EXCEPT ![i] = c]
    /\ notifying' = notifying \cup {i}
    /\ lock' = [lock EXCEPT ![c] = i]
    /\ UNCHANGED <<owner, meetingCircuit, events, answers, hit, timedOut,
                   meetingRestarts>>

(***************************************************************************)
(* notifyOwner resolved or rejected (its error is swallowed): the file is  *)
(* read again and the record, if it is still there, becomes                *)
(* owner_notified whatever its state is by now.  A settled one is reopened *)
(* by it, which counts as a fault against that meeting.                    *)
(***************************************************************************)
OwnerNotified(i) ==
    /\ i \in notifying
    /\ meetings' = IF meetings[i] = "absent" THEN meetings
                   ELSE [meetings EXCEPT ![i] = "owner_notified"]
    /\ notifying' = notifying \ {i}
    /\ lock' = [c \in Requesters |-> IF lock[c] = i THEN NoMeeting ELSE lock[c]]
    /\ hit' = IF meetings[i] \in SettledStates THEN hit \cup {i} ELSE hit
    /\ UNCHANGED <<chat, owner, meetingCircuit, events, answers, timedOut,
                   meetingRestarts>>

(***************************************************************************)
(* The ten-minute race of send-message.ts answers the contact with an      *)
(* error and frees the chat; the tool call goes on.                        *)
(***************************************************************************)
ReplyTimesOut(c) ==
    /\ lock[c] # NoMeeting
    /\ lock' = [lock EXCEPT ![c] = NoMeeting]
    /\ timedOut' = timedOut \cup {c}
    /\ UNCHANGED <<chat, meetings, notifying, owner, meetingCircuit, events,
                   answers, hit, meetingRestarts>>

-----------------------------------------------------------------------------
(* Approval.  withChatLock(ownerChatId) admits one owner command at a time. *)

Decidable(i) == owner.step = "idle" /\ meetings[i] \in OpenStates

(* The answer that the owner command in progress is sending. *)
Answer == IF owner.step = "telling" THEN {"approved"}
          ELSE IF owner.step = "declining" THEN {"rejected"} ELSE {}

(* Saves the handler's copy of the file with its meeting in state s. *)
Save(copy, i, s) == meetings' = [copy EXCEPT ![i] = s]

Await(step, i, s, copy) ==
    owner' = [step |-> step, id |-> i, snap |-> [copy EXCEPT ![i] = s]]

(* Mutants: what a slip in this code would do. *)

ApproveSettledToo(i) ==        \* approveMeeting without its settled check
    /\ owner.step = "idle" /\ meetings[i] # "absent"
    /\ Save(meetings, i, "event_created")
    /\ Await("telling", i, "event_created", meetings)
    /\ events' = [events EXCEPT ![i] = OneMore(@)]
    /\ UNCHANGED <<chat, notifying, lock, meetingCircuit, answers, hit,
                   timedOut, meetingRestarts>>

RejectUnserialised(i) ==       \* a rejection that does not wait for its turn
    /\ owner.step \in {"google", "telling", "idle"}
    /\ meetings[i] \in OpenStates
    /\ Save(meetings, i, "rejected")
    /\ owner' = IF owner.step = "idle"
                THEN [step |-> "declining", id |-> i, snap |-> Absent]
                ELSE owner
    /\ UNCHANGED <<chat, notifying, lock, meetingCircuit, events, answers, hit,
                   timedOut, meetingRestarts>>

(***************************************************************************)
(* approveMeeting with Apple Calendar at hand: approved, event created,    *)
(* event_created, all in one stretch, up to the message to the contact.    *)
(***************************************************************************)
ApproveWithApple(i) ==
    /\ Decidable(i)
    /\ Save(meetings, i, "event_created")
    /\ Await("telling", i, "event_created", meetings)
    /\ events' = [events EXCEPT ![i] = OneMore(@)]
    /\ UNCHANGED <<chat, notifying, lock, meetingCircuit, answers, hit,
                   timedOut, meetingRestarts>>

(* Apple failed; made: the script had created the event before it failed.  *)
AppleGaveUp(i, made) ==
    /\ events' = IF made THEN [events EXCEPT ![i] = OneMore(@)] ELSE events
    /\ hit' = IF made THEN hit \cup {i} ELSE hit

(***************************************************************************)
(* Apple failed and the circuit lets the Google call through: the approval *)
(* is saved as approved and awaits the network.                            *)
(***************************************************************************)
ApproveTriesGoogle(i, made) ==
    /\ Decidable(i)
    /\ ~FailsFast(meetingCircuit)
    /\ Save(meetings, i, "approved")
    /\ Await("google", i, "approved", meetings)
    /\ AppleGaveUp(i, made)
    /\ UNCHANGED <<chat, notifying, lock, meetingCircuit, answers, timedOut,
                   meetingRestarts>>

(***************************************************************************)
(* Apple failed and the circuit is open: withCircuitBreaker returns the    *)
(* fallback text in place of an event (it is cast `as any`), nothing is    *)
(* thrown, and the approval goes on as if the event existed.               *)
(***************************************************************************)
ApproveWithoutCalendar(i, made) ==
    /\ Decidable(i)
    /\ FailsFast(meetingCircuit)
    /\ Save(meetings, i, "event_created")
    /\ Await("telling", i, "event_created", meetings)
    /\ AppleGaveUp(i, made)
    /\ UNCHANGED <<chat, notifying, lock, meetingCircuit, answers, timedOut,
                   meetingRestarts>>

(* The Google call resolves: the copy taken before the await is saved.     *)
GoogleMakesEvent ==
    /\ owner.step = "google"
    /\ events' = [events EXCEPT ![owner.id] = OneMore(@)]
    /\ meetingCircuit' = AfterSuccess(meetingCircuit)
    /\ Save(owner.snap, owner.id, "event_created")
    /\ Await("telling", owner.id, "event_created", owner.snap)
    /\ UNCHANGED <<chat, notifying, lock, answers, hit, timedOut,
                   meetingRestarts>>

(* The Google call rejects: back to owner_notified, again from the copy;   *)
(* made: the event exists although the answer was lost.                    *)
GoogleRejects(made) ==
    /\ owner.step = "google"
    /\ AppleGaveUp(owner.id, made)
    /\ meetingCircuit' = AfterFailure(meetingCircuit)
    /\ Save(owner.snap, owner.id, "owner_notified")
    /\ owner' = Idle
    /\ UNCHANGED <<chat, notifying, lock, answers, timedOut, meetingRestarts>>

(***************************************************************************)
(* The message to the contact was sent, was dropped because the transport  *)
(* was down, or failed: contact_notified in the first two cases, then      *)
(* completed in all three, in one stretch, from the copy taken at the      *)
(* start; the owner is told it is done.                                    *)
(***************************************************************************)
ApprovalTold(sent) ==
    /\ owner.step = "telling"
    /\ Save(owner.snap, owner.id, "completed")
    /\ answers' = IF sent THEN [answers EXCEPT ![owner.id] = @ \cup Answer]
                  ELSE answers
    /\ owner' = Idle
    /\ UNCHANGED <<chat, notifying, lock, meetingCircuit, events, hit,
                   timedOut, meetingRestarts>>

(* rejectMeeting up to the message to the contact. *)
RejectMeeting(i) ==
    /\ Decidable(i)
    /\ Save(meetings, i, "rejected")
    /\ owner' = [step |-> "declining", id |-> i, snap |-> Absent]
    /\ UNCHANGED <<chat, notifying, lock, meetingCircuit, events, answers, hit,
                   timedOut, meetingRestarts>>

(* That message is out or not; nothing is saved after it. *)
RejectionTold(sent) ==
    /\ owner.step = "declining"
    /\ answers' = IF sent THEN [answers EXCEPT ![owner.id] = @ \cup Answer]
                  ELSE answers
    /\ owner' = Idle
    /\ UNCHANGED <<chat, meetings, notifying, lock, meetingCircuit, events, hit,
                   timedOut, meetingRestarts>>

-----------------------------------------------------------------------------
(* The rest of the process. *)

(* Other calendar calls (list_events, briefings) that end up at Google.    *)
GoogleUsedElsewhere ==
    /\ ~FailsFast(meetingCircuit)
    /\ meetingCircuit' \in {AfterSuccess(meetingCircuit), AfterFailure(meetingCircuit)}
    /\ UNCHANGED <<chat, meetings, notifying, lock, owner, events, answers, hit,
                   timedOut, meetingRestarts>>

GoogleCooldownExpires ==
    /\ meetingCircuit.cooling
    /\ meetingCircuit' = AfterCooldown(meetingCircuit)
    /\ UNCHANGED <<chat, meetings, notifying, lock, owner, events, answers, hit,
                   timedOut, meetingRestarts>>

(***************************************************************************)
(* The process exits and PM2 starts it again: locks, calls in flight and   *)
(* circuits are gone.  torn: it died inside writeFileSync and loadMeetings *)
(* answers {} for the broken file.  A message in flight may have left.     *)
(***************************************************************************)
MeetingsRestart(torn, sent) ==
    /\ meetingRestarts < MaxMeetingRestarts
    /\ meetingRestarts' = meetingRestarts + 1
    /\ meetings' = IF torn THEN Absent ELSE meetings
    /\ answers' = IF sent /\ Answer # {}
                  THEN [answers EXCEPT ![owner.id] = @ \cup Answer] ELSE answers
    /\ hit' = hit \cup {i \in MeetingIds : i = owner.id \/ (torn /\ meetings[i] # "absent")}
    /\ notifying' = {}
    /\ lock' = [c \in Requesters |-> NoMeeting]
    /\ owner' = Idle
    /\ meetingCircuit' = FreshCircuit
    /\ UNCHANGED <<chat, events, timedOut>>

(***************************************************************************)
(* The process dies while the Apple script runs (execSync, up to fifteen   *)
(* seconds): the meeting stays approved; made: the event exists.           *)
(***************************************************************************)
RestartDuringApple(i, made) ==
    /\ Decidable(i)
    /\ meetingRestarts < MaxMeetingRestarts
    /\ meetingRestarts' = meetingRestarts + 1
    /\ Save(meetings, i, "approved")
    /\ events' = IF made THEN [events EXCEPT ![i] = OneMore(@)] ELSE events
    /\ hit' = hit \cup {i}
    /\ notifying' = {}
    /\ lock' = [c \in Requesters |-> NoMeeting]
    /\ meetingCircuit' = FreshCircuit
    /\ UNCHANGED <<chat, owner, answers, timedOut>>

OwnerCommands(i) ==
    \/ ApproveWithApple(i)
    \/ \E made \in BOOLEAN : ApproveTriesGoogle(i, made)
    \/ \E made \in BOOLEAN : ApproveWithoutCalendar(i, made)
    \/ RejectMeeting(i)

OwnerAwaits ==
    \/ GoogleMakesEvent
    \/ \E made \in BOOLEAN : GoogleRejects(made)
    \/ \E sent \in BOOLEAN : ApprovalTold(sent)
    \/ \E sent \in BOOLEAN : RejectionTold(sent)

MeetingNext ==
    \/ \E c \in Requesters, i \in MeetingIds : CreateMeetingRequest(c, i)
    \/ \E i \in MeetingIds : OwnerNotified(i)
    \/ \E c \in Requesters : ReplyTimesOut(c)
    \/ \E i \in MeetingIds : OwnerCommands(i)
    \/ OwnerAwaits
    \/ GoogleUsedElsewhere
    \/ GoogleCooldownExpires
    \/ \E torn, sent \in BOOLEAN : MeetingsRestart(torn, sent)
    \/ \E i \in MeetingIds, made \in BOOLEAN : RestartDuringApple(i, made)

MeetingSpec == MeetingInit /\ [][MeetingNext]_meetingVars

-----------------------------------------------------------------------------
Approving == owner.step \in {"google", "telling"}

(* While an approval is under way its meeting stays open: the owner's chat *)
(* lock keeps a rejection, and a second approval, out until it ends.       *)
ApprovalKeepsItsMeetingOpen ==
    Approving => meetings[owner.id] \in OpenStates

(* A decision is final: a settled meeting is reopened by nothing but the   *)
(* late return of its own notification to the owner, even though every     *)
(* step of an approval saves a copy of the whole file taken earlier.       *)
DecisionsAreFinal ==
    [][\A i \in MeetingIds :
         meetings[i] \in SettledStates /\ meetings'[i] \in OpenStates =>
            i \in notifying]_meetingVars

(* A chat never has two open meetings, unless one of its replies timed out *)
(* while the request was still being passed on to the owner.               *)
OneOpenMeetingPerChat ==
    \A c \in Requesters \ timedOut : Cardinality(OpenMeetings(c)) <= 1

(* One outcome per meeting: without an outside fault no meeting gets two   *)
(* calendar events, and no contact is told both yes and no.                *)
OneOutcomePerMeeting ==
    \A i \in MeetingIds \ hit : events[i] <= 1 /\ answers[i] # Verdict

(* Both of these, short of a timeout or a restart in the middle.           *)
OneMeetingOneOutcome == OneOpenMeetingPerChat /\ OneOutcomePerMeeting

-----------------------------------------------------------------------------
(* What the source says of approveMeeting and does not do.                 *)

(* meeting-state.ts:176, "All steps happen atomically in code": an owner's *)
(* decision leaves every other meeting as it finds it.                     *)
ApprovalIsAtomic ==
    [][\A i \in MeetingIds :
         Approving /\ owner'.step # owner.step /\ i # owner.id
           /\ meetingRestarts' = meetingRestarts => meetings'[i] = meetings[i]]_meetingVars

(* owner-commands.ts:113, "Success -- event created + contact notified     *)
(* (all done by state machine)": a completed approval means there is an    *)
(* event in a calendar.                                                    *)
SuccessMeansEvent ==
    \A i \in MeetingIds : meetings[i] = "completed" => events[i] > 0
=============================================================================
