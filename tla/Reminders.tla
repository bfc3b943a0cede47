------------------------------ MODULE Reminders ------------------------------
(***************************************************************************)
(* Follow-ups and the other proactive messages: from the store through the *)
(* scheduler and its rate limiter to the message.  Three kinds of source   *)
(* ask the limiter, run their generator and send:                          *)
(*   - the follow-up check, every two minutes;                             *)
(*   - the checks of bills and contracts (a notice), once a day;           *)
(*   - the calendar and the morning summary, whose generators await.       *)
(* The limiter lives in memory and is asked before the generator and told  *)
(* after the send, so runs may overlap.  Followed from                     *)
(* proactive/proactive-scheduler.ts, proactive-engine.ts, rate-limiter.ts  *)
(* and followups/followup-store.ts.                                        *)
(***************************************************************************)
EXTENDS Naturals, Sequences, FiniteSets

CONSTANTS Followups,     \* the ids of follow-ups, each drawn once
          Subject,         \* Subject[f]: reason, target and five minutes of f
          ToContact,       \* follow-ups that go to a contact, not to the owner
          Notices,         \* bills and contracts
          Runs,            \* calls of trySendProactive under way
          MaxDaily,        \* MAX_DAILY_MESSAGES
          Kept,            \* how many ids a reminded list keeps
          MaxFaults,       \* restarts and visits of the dashboard, together
          Nothing          \* the item of a calendar message; no snapshot

\* A list keeps at least the id just added (the code keeps 100, 200 of contracts).
ASSUME RemindersAssumption ==
  /\ Followups \cap Notices = {}
  /\ MaxDaily \in Nat /\ Kept \in Nat \ {0} /\ MaxFaults \in Nat
  /\ IsFiniteSet(Runs)

Items == Followups \cup Notices

VARIABLES fups,        \* followups.json
          due,         \* follow-ups whose time has come
          reminded,    \* the persisted lists of reminded ids
          run,         \* where each call of trySendProactive stands
          limiter,     \* the limiter's memory, and whether it is night
          dash,        \* what the dashboard read of followups.json
          faults,      \* how many of MaxFaults there were
          fate,        \* ghost: of each item, and whether its record was lost
          day          \* ghost: what happened since midnight

remindersVars ==
  <<fups, due, reminded, run, limiter, dash, faults, fate, day>>

Idle == [at |-> "idle", item |-> Nothing]

\* The limiter as the module loads, by day.
FreshLimiter == [sent |-> 0, tooSoon |-> FALSE, unanswered |-> FALSE, night |-> FALSE]

RemindersTypeOK ==
  /\ fups \in [Followups -> {"unused", "pending", "completed", "gone"}]
  /\ due \subseteq Followups
  /\ reminded \in [followups : Seq(Followups), notices : Seq(Notices)]
  /\ run \in [Runs -> [at : {"idle", "asking", "sending", "telling"},
                       item : Items \cup {Nothing}]]
  /\ limiter \in [sent : Nat, tooSoon : BOOLEAN, unanswered : BOOLEAN, night : BOOLEAN]
  /\ dash \in [Followups -> {"unused", "pending", "completed", "gone"}] \cup {Nothing}
  /\ faults \in 0 .. MaxFaults
  /\ fate \in [Items -> {"new", "announced", "repeated", "lost"}]
  /\ day \in [sent : Nat, lapped : BOOLEAN, rebooted : BOOLEAN]

RemindersInit ==
  /\ fups = [f \in Followups |-> "unused"]
  /\ due = {}
  /\ reminded = [followups |-> <<>>, notices |-> <<>>]
  /\ run = [r \in Runs |-> Idle]
  /\ limiter = FreshLimiter
  /\ dash = Nothing
  /\ faults = 0
  /\ fate = [i \in Items |-> "new"]
  /\ day = [sent |-> 0, lapped |-> FALSE, rebooted |-> FALSE]

Listed(list) == {list[k] : k \in DOMAIN list}

\* Mutants, here and below: what a slip in this code would do.

SaveFirstReminded(list, id) ==       \* the list keeps its first entries
  LET longer == IF id \in Listed(list) THEN list ELSE Append(list, id)
  IN  IF Len(longer) > Kept THEN list ELSE longer

\* saveRemindedId: a set in order of insertion, cut to its last entries.
SaveReminded(list, id) ==
  LET longer == IF id \in Listed(list) THEN list ELSE Append(list, id)
  IN  IF Len(longer) > Kept THEN Tail(longer) ELSE longer

InFlight == {r \in Runs : run[r].at \in {"asking", "sending"}}

\* i is announced, and the records of lost are gone.
Announce(i, lost) ==
  fate' = [j \in Items |-> IF j \in lost \/ fate[j] = "lost" THEN "lost"
                           ELSE IF j # i THEN fate[j]
                           ELSE IF fate[j] = "new" THEN "announced" ELSE "repeated"]

RecordsLost(lost) == fate' = [j \in Items |-> IF j \in lost THEN "lost" ELSE fate[j]]

---------------------------------------------------------------------------
(* The store of follow-ups *)

\* addFollowup refuses a follow-up like a pending one.
AddFollowup(f) ==
  /\ fups[f] = "unused"
  /\ ~ \E g \in Followups : fups[g] = "pending" /\ Subject[g] = Subject[f]
  /\ fups' = [fups EXCEPT ![f] = "pending"]
  /\ UNCHANGED <<due, reminded, run, limiter, dash, faults, fate, day>>

\* The delete_reminder tool, by id or by a word.
DeleteFollowup(f) ==
  /\ fups[f] = "pending"
  /\ fups' = [fups EXCEPT ![f] = "gone"]
  /\ UNCHANGED <<due, reminded, run, limiter, dash, faults, fate, day>>

\* The nightly clean-up removes old entries that are not pending.
CleanFollowups ==
  /\ limiter.night
  /\ \E old \in SUBSET {f \in Followups : fups[f] = "completed"} :
       fups' = [f \in Followups |-> IF f \in old THEN "gone" ELSE fups[f]]
  /\ UNCHANGED <<due, reminded, run, limiter, dash, faults, fate, day>>

\* The dashboard is another process: it reads the file, then rewrites it.
DashboardReads(f) ==
  /\ dash = Nothing
  /\ faults < MaxFaults
  /\ faults' = faults + 1
  /\ fups[f] \in {"pending", "completed"}
  /\ dash' = [fups EXCEPT ![f] = "completed"]
  /\ UNCHANGED <<fups, due, reminded, run, limiter, fate, day>>

DashboardWrites ==
  /\ dash # Nothing
  /\ fups' = [f \in Followups |-> IF dash[f] = "unused" /\ fups[f] # "unused"
                                  THEN "gone" ELSE dash[f]]
  /\ RecordsLost({f \in Followups : dash[f] = "pending" /\ fups[f] # "pending"})
  /\ dash' = Nothing
  /\ UNCHANGED <<due, reminded, run, limiter, faults, day>>

---------------------------------------------------------------------------
(* The scheduler *)

CanSendOneMore ==                    \* off by one at the daily limit
  /\ ~limiter.night
  /\ limiter.sent <= MaxDaily
  /\ ~limiter.tooSoon
  /\ ~limiter.unanswered

\* canSendProactive
CanSend ==
  /\ ~limiter.night
  /\ limiter.sent < MaxDaily
  /\ ~limiter.tooSoon
  /\ ~limiter.unanswered

\* recordProactiveSent
RecordSent ==
  /\ limiter' = [limiter EXCEPT !.sent = @ + 1, !.tooSoon = TRUE, !.unanswered = TRUE]
  /\ day' = [day EXCEPT !.sent = @ + 1]

\* A call passes the limiter; a second one while the first is out laps it.
PassesLimiter(r) ==
  /\ run[r] = Idle
  /\ CanSend
  /\ day' = [day EXCEPT !.lapped = @ \/ InFlight # {}]

Unreminded(f) == fups[f] = "pending" /\ f \in due /\ f \notin Listed(reminded.followups)

\* checkOverdueFollowups and the call of the send, in one stretch: the id is
\* listed and the entry completed before the message is handed over.
CheckFollowups(r) ==
  /\ PassesLimiter(r)
  /\ \E f \in Followups :
       /\ Unreminded(f)
       /\ reminded' = [reminded EXCEPT !.followups = SaveReminded(@, f)]
       /\ fups' = [fups EXCEPT ![f] = "completed"]
       /\ Announce(f, {})
       /\ run' = [run EXCEPT ![r] = [at |-> "sending", item |-> f]]
  /\ UNCHANGED <<due, limiter, dash, faults>>

\* checkOverdueBills and checkExpiringContracts, when n is near its date.
CheckNotices(r) ==
  /\ PassesLimiter(r)
  /\ \E n \in Notices :
       /\ n \notin Listed(reminded.notices)
       /\ reminded' = [reminded EXCEPT !.notices = SaveReminded(@, n)]
       /\ Announce(n, Listed(reminded.notices) \ Listed(reminded'.notices))
       /\ run' = [run EXCEPT ![r] = [at |-> "sending", item |-> n]]
  /\ UNCHANGED <<fups, due, limiter, dash, faults>>

\* checkUpcomingEvents and generateMorningSummary wait for the calendar.
AskCalendar(r) ==
  /\ PassesLimiter(r)
  /\ run' = [run EXCEPT ![r].at = "asking"]
  /\ UNCHANGED <<fups, due, reminded, limiter, dash, faults, fate>>

CalendarAnswers(r) ==
  /\ run[r].at = "asking"
  /\ run' = [run EXCEPT ![r].at = "sending"]
  /\ UNCHANGED <<fups, due, reminded, limiter, dash, faults, fate, day>>

\* No event, or the calendar failed: the generator returns null.
NothingToSay(r) ==
  /\ run[r].at = "asking"
  /\ run' = [run EXCEPT ![r] = Idle]
  /\ UNCHANGED <<fups, due, reminded, limiter, dash, faults, fate, day>>

\* The awaited send resolves: sent, or dropped in silence while disconnected.
SendResolves(r) ==
  /\ run[r].at = "sending"
  /\ RecordSent
  /\ run' = [run EXCEPT ![r] = IF @.item \in ToContact THEN [@ EXCEPT !.at = "telling"]
                                                       ELSE Idle]
  /\ UNCHANGED <<fups, due, reminded, dash, faults, fate>>

\* The send rejects, or the owner was told of a contact's reminder.
RunEnds(r) ==
  /\ run[r].at \in {"sending", "telling"}
  /\ run' = [run EXCEPT ![r] = Idle]
  /\ UNCHANGED <<fups, due, reminded, limiter, dash, faults, fate, day>>

---------------------------------------------------------------------------
(* Time and the outside world *)

FallsDue(f) ==
  /\ fups[f] = "pending" /\ f \notin due
  /\ due' = due \cup {f}
  /\ UNCHANGED <<fups, reminded, run, limiter, dash, faults, fate, day>>

\* MIN_INTERVAL_MS since the last message.
HoursPass ==
  /\ limiter.tooSoon
  /\ limiter' = [limiter EXCEPT !.tooSoon = FALSE]
  /\ UNCHANGED <<fups, due, reminded, run, dash, faults, fate, day>>

\* QUIET_HOURS_START and midnight, when the day's count starts anew, as one step.
NightFalls ==
  /\ ~limiter.night
  /\ limiter' = [limiter EXCEPT !.night = TRUE, !.sent = 0]
  /\ day' = [sent |-> 0, lapped |-> Cardinality(InFlight) > 1, rebooted |-> FALSE]
  /\ UNCHANGED <<fups, due, reminded, run, dash, faults, fate>>

NightEnds ==
  /\ limiter.night
  /\ limiter' = [limiter EXCEPT !.night = FALSE]
  /\ UNCHANGED <<fups, due, reminded, run, dash, faults, fate, day>>

OwnerWritesUnheard ==                \* the answer is not recorded
  /\ limiter.unanswered
  /\ UNCHANGED remindersVars

\* recordOwnerResponse
OwnerWrites ==
  /\ limiter.unanswered
  /\ limiter' = [limiter EXCEPT !.unanswered = FALSE]
  /\ UNCHANGED <<fups, due, reminded, run, dash, faults, fate, day>>

---------------------------------------------------------------------------
(* Restarts: the limiter's memory and the calls under way are lost. *)

Reboot ==
  /\ faults < MaxFaults
  /\ faults' = faults + 1
  /\ run' = [r \in Runs |-> Idle]
  /\ limiter' = [FreshLimiter EXCEPT !.night = limiter.night]
  /\ day' = [day EXCEPT !.rebooted = TRUE]
  /\ UNCHANGED <<due, dash>>

Restart ==
  /\ Reboot
  /\ UNCHANGED <<fups, reminded, fate>>

\* The process dies after an id was listed and before its entry is completed.
DiesWhileReminding ==
  /\ Reboot
  /\ CanSend
  /\ \E f \in Followups :
       /\ Unreminded(f)
       /\ reminded' = [reminded EXCEPT !.followups = SaveReminded(@, f)]
       /\ RecordsLost({f})
  /\ UNCHANGED fups

\* ... or inside a write: the torn file reads as empty ever after.
RestartTorn ==
  /\ Reboot
  /\ \/ /\ fups' = [f \in Followups |-> IF fups[f] = "unused" THEN "unused" ELSE "gone"]
        /\ UNCHANGED <<reminded, fate>>
     \/ /\ reminded' = [reminded EXCEPT !.followups = <<>>]
        /\ UNCHANGED <<fups, fate>>
     \/ /\ reminded' = [reminded EXCEPT !.notices = <<>>]
        /\ RecordsLost(Notices)
        /\ UNCHANGED fups

RemindersNext ==
  \/ \E f \in Followups :
       AddFollowup(f) \/ DeleteFollowup(f) \/ DashboardReads(f) \/ FallsDue(f)
  \/ \E r \in Runs :
       \/ CheckFollowups(r) \/ CheckNotices(r) \/ AskCalendar(r)
       \/ CalendarAnswers(r) \/ NothingToSay(r) \/ SendResolves(r) \/ RunEnds(r)
  \/ DashboardWrites \/ CleanFollowups
  \/ HoursPass \/ NightFalls \/ NightEnds \/ OwnerWrites
  \/ Restart \/ DiesWhileReminding \/ RestartTorn

RemindersSpec == RemindersInit /\ [][RemindersNext]_remindersVars

---------------------------------------------------------------------------
(* What is expected of it *)

\* An item is announced at most once, however the runs overlap and whatever
\* faults, unless its record was lost: its list was cut, evicted or torn, or
\* the dashboard wrote an older file back ("Each followup is only reminded
\* ONCE", proactive-engine.ts:46).
OnlyLostRecordsRepeat == \A i \in Items : fate[i] # "repeated"

\* The daily limit is exceeded only on a day on which two calls were out at
\* once or the process started anew (rate-limiter.ts:55).
DailyLimitHolds == ~day.lapped /\ ~day.rebooted => day.sent <= MaxDaily

\* A due follow-up does not wait for ever, although every message closes the
\* limiter until the owner writes and other sources take their turns.
DueIsAnnounced == \A f \in Followups : Unreminded(f) ~> ~Unreminded(f)
=============================================================================
