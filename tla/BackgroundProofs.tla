--------------------------- MODULE BackgroundProofs ---------------------------
(***************************************************************************)
(* What holds of the background work - reminders, pollers, agents and      *)
(* scans - for any number of items, runs, messages, overlapping polls and  *)
(* restarts.                                                               *)
(***************************************************************************)
EXTENDS Reminders, EmailPoller, SmsPollers, AlertPoller, Agents, Scans, SequenceLemmas

(* A set that has no two elements, by its cardinality. *)
LEMMA AtMostOne ==
    ASSUME NEW S, IsFiniteSet(S), ~ (Cardinality(S) > 1), NEW x \in S, NEW y \in S
    PROVE  x = y
<1>1. Cardinality(S) \in Nat /\ Cardinality(S) # 0
  BY FS_CardinalityType, FS_EmptySet
<1>2. Cardinality(S) = 1
  BY <1>1
<1>3. \E z : S = {z}
  BY <1>2, FS_Singleton
<1>4. QED
  BY <1>3

-----------------------------------------------------------------------------
(* Reminders *)

(* A list to which an id is added is one again, and holds that id.         *)
LEMMA SavedList ==
    ASSUME NEW S, NEW list \in Seq(S), NEW id \in S, id \notin Listed(list)
    PROVE  SaveReminded(list, id) \in Seq(S) /\ id \in Listed(SaveReminded(list, id))
<1> DEFINE longer == Append(list, id)
<1>1. longer \in Seq(S) /\ Len(longer) = Len(list) + 1 /\ longer[Len(list) + 1] = id
  OBVIOUS
<1>2. SaveReminded(list, id) = IF Len(longer) > Kept THEN Tail(longer) ELSE longer
  BY DEF SaveReminded
<1>3. CASE Len(longer) > Kept
  <2>1. Len(list) \in Nat \ {0}
    BY <1>1, <1>3, RemindersAssumption
  <2>2. Tail(longer) \in Seq(S) /\ Len(Tail(longer)) = Len(list)
        /\ Tail(longer)[Len(list)] = id
    BY <1>1, <2>1
  <2> HIDE DEF longer
  <2>3. QED
    BY <1>2, <1>3, <2>1, <2>2 DEF Listed
<1>4. CASE ~ (Len(longer) > Kept)
  <2> HIDE DEF longer
  <2>1. QED
    BY <1>1, <1>2, <1>4 DEF Listed
<1>5. QED
  BY <1>3, <1>4

(***************************************************************************)
(* What was announced, and whose record is not lost, has left a mark that  *)
(* bars a second announcement: a follow-up is no longer pending, a notice  *)
(* is in its list.                                                         *)
(***************************************************************************)
AnnouncedIsMarked ==
  /\ \A f \in Followups : fate[f] = "announced" => fups[f] \in {"completed", "gone"}
  /\ \A n \in Notices : fate[n] = "announced" => n \in Listed(reminded.notices)

RemindersInv == RemindersTypeOK /\ AnnouncedIsMarked /\ OnlyLostRecordsRepeat

LEMMA RemindersInvInit == RemindersInit => RemindersInv
<1> SUFFICES ASSUME RemindersInit PROVE RemindersInv
  OBVIOUS
<1>1. RemindersTypeOK
  BY RemindersAssumption DEF RemindersInit, RemindersTypeOK, Idle, FreshLimiter
<1>2. AnnouncedIsMarked /\ OnlyLostRecordsRepeat
  BY DEF RemindersInit, AnnouncedIsMarked, OnlyLostRecordsRepeat, Items
<1>3. QED
  BY <1>1, <1>2 DEF RemindersInv

(* A check of the reminders goes on with what it has in hand.              *)
LEMMA CheckGoesOn ==
    ASSUME RemindersTypeOK, NEW r \in Runs, NEW a \in {"asking", "sending"},
           run' = [run EXCEPT ![r].at = a]
    PROVE  run' \in [Runs -> [at : {"idle", "asking", "sending", "telling"},
                             item : Items \cup {Nothing}]]
<1> DEFINE RunType == [at : {"idle", "asking", "sending", "telling"}, item : Items \cup {Nothing}]
<1>1. run \in [Runs -> RunType]
  BY DEF RemindersTypeOK
<1>2. [run[r] EXCEPT !.at = a] \in RunType
  BY <1>1
<1> HIDE DEF RunType
<1>3. run' \in [Runs -> RunType]
  BY <1>1, <1>2
<1>4. QED
  BY <1>3 DEF RunType

LEMMA RemindersInvStep == RemindersInv /\ [RemindersNext]_remindersVars => RemindersInv'
<1> SUFFICES ASSUME RemindersInv, [RemindersNext]_remindersVars PROVE RemindersInv'
  OBVIOUS
<1> USE DEF RemindersInv, RemindersTypeOK, AnnouncedIsMarked, OnlyLostRecordsRepeat, Items
<1>1. ASSUME NEW f \in Followups,
             AddFollowup(f) \/ DeleteFollowup(f) \/ DashboardReads(f) \/ FallsDue(f)
      PROVE  RemindersInv'
  <2>1. CASE AddFollowup(f)
    BY <2>1 DEF AddFollowup
  <2>2. CASE DeleteFollowup(f)
    BY <2>2 DEF DeleteFollowup
  <2>3. CASE DashboardReads(f)
    BY <2>3, RemindersAssumption DEF DashboardReads
  <2>4. CASE FallsDue(f)
    BY <2>4 DEF FallsDue
  <2>5. QED
    BY <1>1, <2>1, <2>2, <2>3, <2>4
<1>2. ASSUME NEW r \in Runs, PassesLimiter(r)
      PROVE  day' \in [sent : Nat, lapped : BOOLEAN, rebooted : BOOLEAN]
  BY <1>2 DEF PassesLimiter
<1>3. ASSUME NEW i \in Items, NEW lost \in SUBSET Items, Announce(i, lost)
      PROVE  /\ fate' \in [Items -> {"new", "announced", "repeated", "lost"}]
             /\ \A j \in Items : /\ fate'[j] = "announced" =>
                                       j \notin lost /\ (j = i \/ fate[j] = "announced")
                                 /\ fate'[j] = "repeated" => j = i /\ fate[i] # "new" /\ fate[i] # "lost"
                                                             /\ i \notin lost
  BY <1>3 DEF Announce
<1>4. ASSUME NEW lost, RecordsLost(lost)
      PROVE  /\ fate' \in [Items -> {"new", "announced", "repeated", "lost"}]
             /\ \A j \in Items : /\ fate'[j] = "announced" => j \notin lost /\ fate[j] = "announced"
                                 /\ fate'[j] # "repeated"
  BY <1>4 DEF RecordsLost
<1>5. ASSUME NEW r \in Runs, CheckFollowups(r) PROVE RemindersInv'
  <2>1. PICK f \in Followups :
          /\ Unreminded(f)
          /\ reminded' = [reminded EXCEPT !.followups = SaveReminded(@, f)]
          /\ fups' = [fups EXCEPT ![f] = "completed"]
          /\ Announce(f, {})
          /\ run' = [run EXCEPT ![r] = [at |-> "sending", item |-> f]]
    BY <1>5 DEF CheckFollowups
  <2>2. reminded'.notices = reminded.notices /\ reminded'.followups \in Seq(Followups)
        /\ reminded' \in [followups : Seq(Followups), notices : Seq(Notices)]
    BY <2>1, SavedList DEF Unreminded
  <2>3. fups[f] = "pending" /\ fate[f] # "announced" /\ fate[f] # "repeated"
    BY <2>1 DEF Unreminded
  <2>4. UNCHANGED <<due, limiter, dash, faults>> /\ PassesLimiter(r)
    BY <1>5 DEF CheckFollowups
  <2>5. RemindersTypeOK'
    BY <2>1, <2>2, <2>4, <1>2, <1>3
  <2>6. OnlyLostRecordsRepeat'
    BY <2>1, <2>3, <1>3
  <2>7. AnnouncedIsMarked'
    <3>1. \A g \in Items : fate'[g] = "announced" => g = f \/ fate[g] = "announced"
      BY <2>1, <1>3
    <3>2. fups'[f] = "completed" /\ \A g \in Followups \ {f} : fups'[g] = fups[g]
      BY <2>1
    <3>3. f \notin Notices
      BY RemindersAssumption
    <3>4. QED
      BY <3>1, <3>2, <3>3, <2>2
  <2>8. QED
    BY <2>5, <2>6, <2>7
<1>6. ASSUME NEW r \in Runs, CheckNotices(r) PROVE RemindersInv'
  <2> DEFINE lost == Listed(reminded.notices) \ Listed(reminded'.notices)
  <2>1. PICK n \in Notices :
          /\ n \notin Listed(reminded.notices)
          /\ reminded' = [reminded EXCEPT !.notices = SaveReminded(@, n)]
          /\ Announce(n, lost)
          /\ run' = [run EXCEPT ![r] = [at |-> "sending", item |-> n]]
    BY <1>6 DEF CheckNotices
  <2>2. reminded'.notices \in Seq(Notices) /\ n \in Listed(reminded'.notices)
        /\ reminded' \in [followups : Seq(Followups), notices : Seq(Notices)]
    BY <2>1, SavedList
  <2>3. lost \in SUBSET Items
    BY DEF Listed
  <2>4. UNCHANGED <<fups, due, limiter, dash, faults>> /\ PassesLimiter(r)
    BY <1>6 DEF CheckNotices
  <2>5. RemindersTypeOK'
    BY <2>1, <2>2, <2>3, <2>4, <1>2, <1>3
  <2>6. fate[n] # "announced" /\ fate[n] # "repeated"
    BY <2>1
  <2>7. OnlyLostRecordsRepeat'
    BY <2>1, <2>3, <2>6, <1>3
  <2>8. AnnouncedIsMarked'
    <3>1. fups' = fups /\ \A g \in Followups : g # n
      BY <2>4, RemindersAssumption
    <3>2. \A g \in Items : fate'[g] = "announced" => g = n \/ (g \notin lost /\ fate[g] = "announced")
      <4>1. n \in Items /\ Announce(n, lost)
        BY <2>1 DEF Items
      <4> HIDE DEF lost, Items
      <4>2. QED
        BY <2>3, <1>3, <4>1
    <3> HIDE DEF lost
    <3>3. \A g \in Listed(reminded.notices) : g \in lost \/ g \in Listed(reminded'.notices)
      BY DEF lost
    <3>4. QED
      BY <2>2, <3>1, <3>2, <3>3
  <2>9. QED
    BY <2>5, <2>7, <2>8
<1>7. ASSUME NEW r \in Runs,
             AskCalendar(r) \/ CalendarAnswers(r) \/ NothingToSay(r) \/ SendResolves(r) \/ RunEnds(r)
      PROVE  RemindersInv'
  <2>1. CASE AskCalendar(r)
    <3>1. run' = [run EXCEPT ![r].at = "asking"] /\ UNCHANGED <<fups, due, reminded, limiter, dash, faults, fate>>
      BY <2>1 DEF AskCalendar
    <3>2. run' \in [Runs -> [at : {"idle", "asking", "sending", "telling"}, item : Items \cup {Nothing}]]
      BY <3>1, CheckGoesOn
    <3>3. day' \in [sent : Nat, lapped : BOOLEAN, rebooted : BOOLEAN]
      BY <2>1, <1>2 DEF AskCalendar
    <3>4. QED
      BY <3>1, <3>2, <3>3
  <2>2. CASE CalendarAnswers(r)
    <3>1. run' = [run EXCEPT ![r].at = "sending"] /\ UNCHANGED <<fups, due, reminded, limiter, dash, faults, fate>>
      BY <2>2 DEF CalendarAnswers
    <3>2. run' \in [Runs -> [at : {"idle", "asking", "sending", "telling"}, item : Items \cup {Nothing}]]
      BY <3>1, CheckGoesOn
    <3>3. day' \in [sent : Nat, lapped : BOOLEAN, rebooted : BOOLEAN]
      BY <2>2 DEF CalendarAnswers
    <3>4. QED
      BY <3>1, <3>2, <3>3
  <2>3. CASE NothingToSay(r)
    BY <2>3 DEF NothingToSay, Idle
  <2>4. CASE SendResolves(r)
    <3>1. /\ limiter' \in [sent : Nat, tooSoon : BOOLEAN, unanswered : BOOLEAN, night : BOOLEAN]
          /\ day' \in [sent : Nat, lapped : BOOLEAN, rebooted : BOOLEAN]
      <4>1. /\ limiter' = [limiter EXCEPT !.sent = @ + 1, !.tooSoon = TRUE, !.unanswered = TRUE]
            /\ day' = [day EXCEPT !.sent = @ + 1]
        BY <2>4 DEF SendResolves, RecordSent
      <4>2. limiter.sent + 1 \in Nat /\ day.sent + 1 \in Nat
        OBVIOUS
      <4>3. limiter' \in [sent : Nat, tooSoon : BOOLEAN, unanswered : BOOLEAN, night : BOOLEAN]
        BY <4>1, <4>2
      <4>4. day' \in [sent : Nat, lapped : BOOLEAN, rebooted : BOOLEAN]
        BY <4>1, <4>2
      <4>5. QED
        BY <4>3, <4>4
    <3>2. run' \in [Runs -> [at : {"idle", "asking", "sending", "telling"},
                             item : Items \cup {Nothing}]]
      BY <2>4 DEF SendResolves, Idle
    <3>3. QED
      BY <2>4, <3>1, <3>2 DEF SendResolves
  <2>5. CASE RunEnds(r)
    BY <2>5 DEF RunEnds, Idle
  <2>6. QED
    BY <1>7, <2>1, <2>2, <2>3, <2>4, <2>5
<1>8. CASE DashboardWrites
  <2>1. dash # Nothing /\ dash \in [Followups -> {"unused", "pending", "completed", "gone"}]
    BY <1>8 DEF DashboardWrites
  <2>2. \A f \in Followups : fate'[f] = "announced" =>
             fate[f] = "announced" /\ dash[f] # "pending"
    BY <1>8, <1>4 DEF DashboardWrites
  <2>3. QED
    BY <1>8, <1>4, <2>1, <2>2 DEF DashboardWrites
<1>9. CASE CleanFollowups
  BY <1>9 DEF CleanFollowups
<1>10. CASE HoursPass \/ NightFalls \/ NightEnds \/ OwnerWrites
  <2>1. limiter' \in [sent : Nat, tooSoon : BOOLEAN, unanswered : BOOLEAN, night : BOOLEAN]
    <3>1. CASE HoursPass
      BY <3>1 DEF HoursPass
    <3>2. CASE NightFalls
      BY <3>2 DEF NightFalls
    <3>3. CASE NightEnds
      BY <3>3 DEF NightEnds
    <3>4. CASE OwnerWrites
      BY <3>4 DEF OwnerWrites
    <3>5. QED
      BY <1>10, <3>1, <3>2, <3>3, <3>4
  <2>2. day' \in [sent : Nat, lapped : BOOLEAN, rebooted : BOOLEAN]
    <3>1. CASE NightFalls
      <4>1. CASE Cardinality(InFlight) > 1
        BY <3>1, <4>1 DEF NightFalls
      <4>2. CASE ~ (Cardinality(InFlight) > 1)
        BY <3>1, <4>2 DEF NightFalls
      <4>3. QED
        BY <4>1, <4>2
    <3>2. CASE UNCHANGED day
      BY <3>2
    <3>3. QED
      BY <1>10, <3>1, <3>2 DEF HoursPass, NightEnds, OwnerWrites
  <2>3. UNCHANGED <<fups, due, reminded, run, dash, faults, fate>>
    BY <1>10 DEF HoursPass, NightFalls, NightEnds, OwnerWrites
  <2>4. QED
    BY <2>1, <2>2, <2>3
<1>11. ASSUME Reboot
       PROVE  /\ run' \in [Runs -> [at : {"idle", "asking", "sending", "telling"},
                                    item : Items \cup {Nothing}]]
              /\ limiter' \in [sent : Nat, tooSoon : BOOLEAN, unanswered : BOOLEAN, night : BOOLEAN]
              /\ faults' \in 0 .. MaxFaults
              /\ day' \in [sent : Nat, lapped : BOOLEAN, rebooted : BOOLEAN]
              /\ UNCHANGED <<due, dash>>
  <2>1. limiter' = [sent |-> 0, tooSoon |-> FALSE, unanswered |-> FALSE, night |-> limiter.night]
    BY <1>11 DEF Reboot, FreshLimiter
  <2>2. limiter.night \in BOOLEAN
    OBVIOUS
  <2>3. limiter' \in [sent : Nat, tooSoon : BOOLEAN, unanswered : BOOLEAN, night : BOOLEAN]
    BY <2>1, <2>2
  <2>4. faults' \in 0 .. MaxFaults
    BY <1>11, RemindersAssumption DEF Reboot
  <2>5. day' \in [sent : Nat, lapped : BOOLEAN, rebooted : BOOLEAN]
    BY <1>11 DEF Reboot
  <2>6. QED
    BY <1>11, <2>3, <2>4, <2>5 DEF Reboot, Idle
<1>12. CASE Restart
  BY <1>12, <1>11 DEF Restart
<1>13. CASE DiesWhileReminding
  <2>1. PICK f \in Followups :
          /\ Unreminded(f)
          /\ reminded' = [reminded EXCEPT !.followups = SaveReminded(@, f)]
          /\ RecordsLost({f})
    BY <1>13 DEF DiesWhileReminding
  <2>2. reminded'.notices = reminded.notices
        /\ reminded' \in [followups : Seq(Followups), notices : Seq(Notices)]
    BY <2>1, SavedList DEF Unreminded
  <2>3. QED
    BY <1>13, <2>1, <2>2, <1>4, <1>11 DEF DiesWhileReminding
<1>14. CASE RestartTorn
  <2>1. CASE /\ fups' = [f \in Followups |-> IF fups[f] = "unused" THEN "unused" ELSE "gone"]
             /\ UNCHANGED <<reminded, fate>>
    BY <1>14, <2>1, <1>11 DEF RestartTorn
  <2>2. CASE /\ reminded' = [reminded EXCEPT !.followups = <<>>]
             /\ UNCHANGED <<fups, fate>>
    <3>1. /\ reminded'.notices = reminded.notices
          /\ reminded' \in [followups : Seq(Followups), notices : Seq(Notices)]
      <4>1. << >> \in Seq(Followups)
        OBVIOUS
      <4> DEFINE empty == << >>
      <4> HIDE DEF empty
      <4>2. reminded' = [reminded EXCEPT !.followups = empty] /\ empty \in Seq(Followups)
        BY <2>2, <4>1 DEF empty
      <4>3. QED
        BY <4>2
    <3>2. QED
      BY <1>14, <2>2, <3>1, <1>11 DEF RestartTorn
  <2>3. CASE /\ reminded' = [reminded EXCEPT !.notices = <<>>]
             /\ RecordsLost(Notices)
             /\ UNCHANGED fups
    <3>1. reminded' \in [followups : Seq(Followups), notices : Seq(Notices)]
      <4>1. << >> \in Seq(Notices)
        OBVIOUS
      <4> DEFINE empty == << >>
      <4> HIDE DEF empty
      <4>2. reminded' = [reminded EXCEPT !.notices = empty] /\ empty \in Seq(Notices)
        BY <2>3, <4>1 DEF empty
      <4>3. QED
        BY <4>2
    <3>2. \A n \in Notices : fate'[n] # "announced"
      BY <2>3, <1>4
    <3>3. QED
      BY <1>14, <2>3, <3>1, <3>2, <1>4, <1>11 DEF RestartTorn
  <2>4. QED
    BY <1>14, <2>1, <2>2, <2>3 DEF RestartTorn
<1>15. CASE UNCHANGED remindersVars
  BY <1>15 DEF remindersVars
<1>16. QED
  BY <1>1, <1>5, <1>6, <1>7, <1>8, <1>9, <1>10, <1>12, <1>13, <1>14, <1>15
  DEF RemindersNext

(* Type correctness of the store, the lists, the limiter and the ghosts.   *)
THEOREM RemindersTypeCorrect == RemindersSpec => []RemindersTypeOK
<1>1. RemindersInv => RemindersTypeOK
  BY DEF RemindersInv
<1>2. QED
  BY <1>1, RemindersInvInit, RemindersInvStep, PTL DEF RemindersSpec

(* No item is announced twice, however runs overlap, processes die and the *)
(* dashboard writes old files back, unless its record was lost             *)
(* (proactive-engine.ts:46-66).                                            *)
THEOREM RemindedOnce == RemindersSpec => []OnlyLostRecordsRepeat
<1>1. RemindersInv => OnlyLostRecordsRepeat
  BY DEF RemindersInv
<1>2. QED
  BY <1>1, RemindersInvInit, RemindersInvStep, PTL DEF RemindersSpec

(***************************************************************************)
(* The limiter knows of every message of a day on which the process did    *)
(* not start anew, and while no call lapped another, the only one out      *)
(* passed the limiter below its limit.                                     *)
(***************************************************************************)
LimitInv ==
  /\ ~day.rebooted => limiter.sent = day.sent
  /\ ~day.lapped => \A r, q \in InFlight : r = q
  /\ InFlight # {} => 0 < MaxDaily
  /\ ~day.lapped /\ ~day.rebooted /\ InFlight # {} => day.sent < MaxDaily
  /\ DailyLimitHolds

LEMMA LimitInvInit == RemindersInit => LimitInv
  BY RemindersAssumption DEF RemindersInit, LimitInv, InFlight, DailyLimitHolds, FreshLimiter, Idle

LEMMA LimitInvStep ==
    ASSUME RemindersTypeOK, LimitInv, [RemindersNext]_remindersVars
    PROVE  LimitInv'
<1> USE RemindersAssumption DEF LimitInv, DailyLimitHolds
<1>a. /\ limiter.sent \in Nat /\ day \in [sent : Nat, lapped : BOOLEAN, rebooted : BOOLEAN]
      /\ limiter \in [sent : Nat, tooSoon : BOOLEAN, unanswered : BOOLEAN, night : BOOLEAN]
      /\ run \in [Runs -> [at : {"idle", "asking", "sending", "telling"},
                           item : Items \cup {Nothing}]]
  BY DEF RemindersTypeOK
<1>1. ASSUME NEW r \in Runs, PassesLimiter(r), InFlight' = InFlight \cup {r}, UNCHANGED limiter
      PROVE  LimitInv'
  <2>1. day' = [day EXCEPT !.lapped = @ \/ InFlight # {}] /\ limiter.sent < MaxDaily
    BY <1>1 DEF PassesLimiter, CanSend
  <2>2. /\ day'.sent = day.sent /\ day'.rebooted = day.rebooted
        /\ day'.lapped <=> (day.lapped \/ InFlight # {})
    BY <2>1, <1>a
  <2>3. QED
    BY <1>1, <2>1, <2>2, <1>a
<1>2. ASSUME NEW r \in Runs, CheckFollowups(r) \/ CheckNotices(r) \/ AskCalendar(r) PROVE LimitInv'
  <2>1. PassesLimiter(r) /\ UNCHANGED limiter
    BY <1>2 DEF CheckFollowups, CheckNotices, AskCalendar
  <2>2. run'[r].at \in {"asking", "sending"} /\ \A q \in Runs \ {r} : run'[q] = run[q]
    BY <1>2, <1>a DEF CheckFollowups, CheckNotices, AskCalendar
  <2>3. InFlight' = InFlight \cup {r}
    BY <2>2 DEF InFlight
  <2>4. QED
    BY <2>1, <2>3, <1>1
<1>3. ASSUME InFlight' \subseteq InFlight, UNCHANGED day, limiter'.sent = limiter.sent
      PROVE  LimitInv'
  BY <1>3
<1>4. ASSUME NEW r \in Runs, CalendarAnswers(r) \/ NothingToSay(r) \/ RunEnds(r) PROVE LimitInv'
  <2>1. InFlight' \subseteq InFlight
    BY <1>4, <1>a DEF InFlight, CalendarAnswers, NothingToSay, RunEnds, Idle
  <2>2. QED
    BY <1>4, <2>1, <1>3 DEF CalendarAnswers, NothingToSay, RunEnds
<1>5. ASSUME NEW r \in Runs, SendResolves(r) PROVE LimitInv'
  <2>1. /\ limiter'.sent = limiter.sent + 1 /\ day'.sent = day.sent + 1
        /\ day'.lapped = day.lapped /\ day'.rebooted = day.rebooted
    BY <1>5, <1>a DEF SendResolves, RecordSent
  <2>2. r \in InFlight /\ InFlight' = InFlight \ {r}
    BY <1>5, <1>a DEF InFlight, SendResolves, Idle
  <2>3. QED
    BY <2>1, <2>2, <1>a
<1>6. CASE NightFalls
  <2>1. /\ day' = [sent |-> 0, lapped |-> Cardinality(InFlight) > 1, rebooted |-> FALSE]
        /\ limiter'.sent = 0 /\ InFlight' = InFlight
    BY <1>6, <1>a DEF NightFalls, InFlight
  <2>a. day'.sent = 0 /\ (day'.lapped <=> Cardinality(InFlight) > 1) /\ ~ day'.rebooted
    BY <2>1
  <2>2. IsFiniteSet(InFlight)
    BY FS_Subset DEF InFlight
  <2>3. ASSUME ~ (Cardinality(InFlight) > 1) PROVE \A r, q \in InFlight : r = q
    BY <2>2, <2>3, AtMostOne
  <2>4. QED
    BY <2>1, <2>a, <2>3
<1>7. ASSUME Reboot PROVE LimitInv'
  BY <1>7, <1>a DEF Reboot, InFlight, Idle
<1>8. CASE HoursPass \/ NightEnds \/ OwnerWrites
  BY <1>8, <1>a, <1>3 DEF HoursPass, NightEnds, OwnerWrites, InFlight
<1>9. CASE UNCHANGED <<run, limiter, day>>
  BY <1>9, <1>3 DEF InFlight
<1>10. QED
  BY <1>2, <1>4, <1>5, <1>6, <1>7, <1>8, <1>9
  DEF RemindersNext, remindersVars, AddFollowup, DeleteFollowup, DashboardReads, FallsDue,
      DashboardWrites, CleanFollowups, Restart, DiesWhileReminding, RestartTorn

(* The daily limit holds on every day without overlapping calls and        *)
(* restarts, although the limiter is asked before the message is written   *)
(* and told after it is sent (rate-limiter.ts:42-75).                      *)
THEOREM LimitIsKept == RemindersSpec => []DailyLimitHolds
<1>1. LimitInv => DailyLimitHolds
  BY DEF LimitInv
<1>2. QED
  BY <1>1, LimitInvInit, LimitInvStep, RemindersTypeCorrect, PTL DEF RemindersSpec

-----------------------------------------------------------------------------
(* Autonomous agents *)

RunRecords == [at : {"idle", "thinking", "notifying", "excusing"},
               agent : AutoAgents \cup {NoAgent}, rounds : Nat]

(***************************************************************************)
(* An agent whose runs did not overlap has one run at most, and none of    *)
(* its runs is about to alert while its cooldown runs; an alert is counted *)
(* only within a cooldown.                                                 *)
(***************************************************************************)
AlertsInv ==
  /\ agentRun \in [AgentRuns -> RunRecords]
  /\ spate \in [AutoAgents -> Nat]
  /\ \A r \in AgentRuns : agentRun[r].at # "idle" => agentRun[r].agent \in AutoAgents
  /\ \A a \in AutoAgents : spate[a] > 0 => a \in cooling
  /\ \A a \in AutoAgents \ overlapped :
       /\ \A r, q \in RunsOf(a) : r = q
       /\ a \in cooling => \A r \in RunsOf(a) : agentRun[r].at # "notifying"
       /\ spate[a] <= 1

LEMMA AlertsInvInit == AgentsInit => AlertsInv
  BY AgentsAssumption DEF AgentsInit, AlertsInv, RunsOf, NoRun, RunRecords

(* What the run's record is after it moves on.                             *)
LEMMA RunMovesOn ==
    ASSUME NEW x \in RunRecords,
           NEW step \in {"idle", "thinking", "notifying", "excusing"}
    PROVE  /\ [x EXCEPT !.at = step, !.rounds = 0] \in RunRecords
           /\ [x EXCEPT !.at = step, !.rounds = 0].at = step
           /\ [x EXCEPT !.at = step, !.rounds = 0].agent = x.agent
<1> USE DEF RunRecords
<1>1. 0 \in Nat
  OBVIOUS
<1>2. [x EXCEPT !.at = step, !.rounds = 0] \in RunRecords
  BY <1>1
<1>3. [x EXCEPT !.at = step, !.rounds = 0].at = step
  OBVIOUS
<1>4. [x EXCEPT !.at = step, !.rounds = 0].agent = x.agent
  OBVIOUS
<1>5. QED
  BY <1>2, <1>3, <1>4

LEMMA AlertsInvStep == AlertsInv /\ [AgentsNext]_agentVars => AlertsInv'
<1> SUFFICES ASSUME AlertsInv, [AgentsNext]_agentVars PROVE AlertsInv'
  OBVIOUS
<1> USE AgentsAssumption DEF AlertsInv, RunsOf, RunRecords
<1>0. NoRun.at = "idle" /\ NoRun.agent = NoAgent /\ NoRun.rounds = 0
      /\ NoRun \in RunRecords
  BY DEF NoRun
<1>1. ASSUME NEW r \in AgentRuns, NEW a \in AutoAgents, NEW trigger \in {"cron", "event"},
             TriggerRun(r, a, trigger)
      PROVE  AlertsInv'
  <2>1. /\ agentRun[r] = NoRun
        /\ overlapped' = IF RunsOf(a) = {} THEN overlapped ELSE overlapped \cup {a}
        /\ agentRun' = [agentRun EXCEPT ![r] = [at |-> "thinking", agent |-> a, rounds |-> 0]]
        /\ UNCHANGED <<cooling, spate>>
    BY <1>1 DEF TriggerRun
  <2>2. /\ agentRun'[r].at = "thinking" /\ agentRun'[r].agent = a
        /\ \A q \in AgentRuns \ {r} : agentRun'[q] = agentRun[q]
        /\ agentRun' \in [AgentRuns -> RunRecords]
    BY <2>1
  <2>3. QED
    BY <2>1, <2>2
<1>2. ASSUME NEW r \in AgentRuns, CallTools(r) PROVE AlertsInv'
  <2>1. /\ agentRun'[r].at = agentRun[r].at /\ agentRun'[r].agent = agentRun[r].agent
        /\ \A q \in AgentRuns \ {r} : agentRun'[q] = agentRun[q]
        /\ agentRun' \in [AgentRuns -> RunRecords]
        /\ UNCHANGED <<cooling, spate, overlapped>>
    BY <1>2 DEF CallTools
  <2>2. QED
    BY <2>1
<1>3. ASSUME NEW r \in AgentRuns, RunAnswers(r) PROVE AlertsInv'
  <2>1. PICK empty \in BOOLEAN :
          agentRun' = [agentRun EXCEPT ![r] =
            IF empty \/ agentRun[r].agent \in cooling THEN NoRun
            ELSE [agentRun[r] EXCEPT !.at = "notifying", !.rounds = 0]]
    BY <1>3 DEF RunAnswers
  <2>2. /\ agentRun'[r] = NoRun
           \/ /\ agentRun[r].agent \notin cooling
              /\ agentRun'[r].agent = agentRun[r].agent /\ agentRun'[r].at = "notifying"
        /\ \A q \in AgentRuns \ {r} : agentRun'[q] = agentRun[q]
        /\ agentRun' \in [AgentRuns -> RunRecords]
    <3>1. CASE empty \/ agentRun[r].agent \in cooling
      BY <2>1, <3>1, <1>0
    <3>2. CASE ~ (empty \/ agentRun[r].agent \in cooling)
      <4> DEFINE after == [agentRun[r] EXCEPT !.at = "notifying", !.rounds = 0]
      <4>1. /\ after \in RunRecords
            /\ after.at = "notifying" /\ after.agent = agentRun[r].agent
        <5>1. agentRun[r] \in RunRecords
          OBVIOUS
        <5>2. QED
          BY <5>1, RunMovesOn
      <4>2. agentRun' = [agentRun EXCEPT ![r] = after]
        BY <2>1, <3>2
      <4> HIDE DEF after
      <4>3. QED
        BY <3>2, <4>1, <4>2
    <3>3. QED
      BY <3>1, <3>2
  <2>3. agentRun[r].at = "thinking" /\ UNCHANGED <<cooling, spate, overlapped>>
    BY <1>3 DEF RunAnswers
  <2>4. QED
    BY <2>2, <2>3, <1>0
<1>4. ASSUME NEW r \in AgentRuns, RunNotified(r) PROVE AlertsInv'
  <2> DEFINE a == agentRun[r].agent
  <2>1. /\ agentRun[r].at = "notifying" /\ a \in AutoAgents
        /\ cooling' = cooling \cup ({a} \ Reporting)
        /\ spate' = [spate EXCEPT ![a] = IF a \in Reporting THEN @ ELSE @ + 1]
        /\ overlapped' = overlapped
    BY <1>4 DEF RunNotified
  <2>2. /\ agentRun'[r] = NoRun
        /\ \A q \in AgentRuns \ {r} : agentRun'[q] = agentRun[q]
        /\ agentRun' \in [AgentRuns -> RunRecords]
    BY <1>4, <1>0 DEF RunNotified
  <2>3. /\ spate' \in [AutoAgents -> Nat]
        /\ \A b \in AutoAgents \ {a} : spate'[b] = spate[b]
        /\ spate'[a] = IF a \in Reporting THEN spate[a] ELSE spate[a] + 1
    BY <2>1
  <2> HIDE DEF a
  <2>4. r \in RunsOf(a) /\ \A b \in AutoAgents \ {a} : r \notin RunsOf(b)
    BY DEF a
  <2>5. a \notin overlapped => \A q \in AgentRuns \ {r} : agentRun[q].agent # a
    BY <2>1, <2>4
  <2>6. a \notin overlapped => a \notin cooling /\ spate[a] = 0
    BY <2>1, <2>4
  <2>7. ASSUME NEW b \in AutoAgents \ overlapped'
        PROVE  /\ \A p, q \in RunsOf(b)' : p = q
               /\ b \in cooling' => \A q \in RunsOf(b)' : agentRun'[q].at # "notifying"
               /\ spate'[b] <= 1
    <3>1. CASE b = a
      BY <3>1, <2>1, <2>2, <2>3, <2>5, <2>6, <1>0
    <3>2. CASE b # a
      BY <3>2, <2>1, <2>2, <2>3, <1>0
    <3>3. QED
      BY <3>1, <3>2
  <2>8. \A b \in AutoAgents : spate'[b] > 0 => b \in cooling'
    BY <2>1, <2>3
  <2>9. \A q \in AgentRuns : agentRun'[q].at # "idle" => agentRun'[q].agent \in AutoAgents
    BY <2>2, <1>0
  <2>10. QED
    BY <2>2, <2>3, <2>7, <2>8, <2>9
<1>5. ASSUME NEW r \in AgentRuns, RunFails(r) PROVE AlertsInv'
  <2>1. /\ agentRun[r].at # "idle"
        /\ agentRun'[r].at = "excusing" /\ agentRun'[r].agent = agentRun[r].agent
        /\ \A q \in AgentRuns \ {r} : agentRun'[q] = agentRun[q]
        /\ agentRun' \in [AgentRuns -> RunRecords]
        /\ UNCHANGED <<cooling, spate, overlapped>>
    <3> DEFINE after == [agentRun[r] EXCEPT !.at = "excusing", !.rounds = 0]
    <3>1. /\ after \in RunRecords
          /\ after.at = "excusing" /\ after.agent = agentRun[r].agent
      <4>1. agentRun[r] \in RunRecords
        OBVIOUS
      <4>2. QED
        BY <4>1, RunMovesOn
    <3>2. agentRun' = [agentRun EXCEPT ![r] = after] /\ agentRun[r].at # "idle"
      BY <1>5 DEF RunFails
    <3> HIDE DEF after
    <3>3. UNCHANGED <<cooling, spate, overlapped>>
      BY <1>5 DEF RunFails
    <3>4. QED
      BY <3>1, <3>2, <3>3
  <2>2. QED
    BY <2>1
<1>6. ASSUME NEW r \in AgentRuns, FailureTold(r) PROVE AlertsInv'
  <2>1. /\ agentRun'[r] = NoRun
        /\ \A q \in AgentRuns \ {r} : agentRun'[q] = agentRun[q]
        /\ agentRun' \in [AgentRuns -> RunRecords]
        /\ UNCHANGED <<cooling, spate, overlapped>>
    BY <1>6, <1>0 DEF FailureTold
  <2>2. QED
    BY <2>1, <1>0
<1>7. ASSUME NEW a \in AutoAgents, AlertCooldownPasses(a) PROVE AlertsInv'
  <2>1. /\ cooling' = cooling \ {a} /\ UNCHANGED agentRun
        /\ spate' = [spate EXCEPT ![a] = 0]
        /\ overlapped' = IF Cardinality(RunsOf(a)) > 1 THEN overlapped ELSE overlapped \ {a}
    BY <1>7 DEF AlertCooldownPasses
  <2>2. ASSUME ~ (Cardinality(RunsOf(a)) > 1) PROVE \A r, q \in RunsOf(a) : r = q
    <3>1. IsFiniteSet(RunsOf(a))
      BY FS_Subset
    <3>2. QED
      BY <2>2, <3>1, AtMostOne
  <2>3. \A b \in AutoAgents : b \notin overlapped' =>
           \/ b \notin overlapped
           \/ b = a /\ \A r, q \in RunsOf(a) : r = q
    BY <2>1, <2>2
  <2>4. /\ spate' \in [AutoAgents -> Nat] /\ spate'[a] = 0
        /\ \A b \in AutoAgents \ {a} : spate'[b] = spate[b]
    BY <2>1
  <2>5. \A b \in AutoAgents : RunsOf(b)' = RunsOf(b)
    BY <2>1
  <2>6. \A b \in AutoAgents \ {a} : b \in cooling' <=> b \in cooling
    BY <2>1
  <2>7. a \notin cooling'
    BY <2>1
  <2>8. ASSUME NEW b \in AutoAgents \ overlapped'
        PROVE  /\ \A r, q \in RunsOf(b)' : r = q
               /\ b \in cooling' => \A r \in RunsOf(b)' : agentRun'[r].at # "notifying"
               /\ spate'[b] <= 1
    <3>1. CASE b = a
      BY <3>1, <2>3, <2>4, <2>5, <2>7
    <3>2. CASE b # a
      BY <3>2, <2>1, <2>3, <2>4, <2>5, <2>6
    <3>3. QED
      BY <3>1, <3>2
  <2>9. QED
    BY <2>1, <2>4, <2>6, <2>8
<1>8. CASE AgentsRestart
  BY <1>8, <1>0 DEF AgentsRestart
<1>9. CASE UNCHANGED <<agentRun, cooling, spate, overlapped>>
  BY <1>9
<1>10. QED
  BY <1>1, <1>2, <1>3, <1>4, <1>5, <1>6, <1>7, <1>8, <1>9
  DEF AgentsNext, IntervalPasses, AgentHourPasses, agentVars

(* A silent agent alerts a second time within its cooldown only if its     *)
(* runs overlapped (agent-lifecycle.ts).                                   *)
THEOREM AlertsKeepTheirDistance == AgentsSpec => []AlertsSpaced
<1>1. AlertsInv => AlertsSpaced
  BY DEF AlertsInv, AlertsSpaced
<1>2. QED
  BY <1>1, AlertsInvInit, AlertsInvStep, PTL DEF AgentsSpec

-----------------------------------------------------------------------------
(* The alert poller *)

CheckRecords == [at : {"idle", "fetching", "forwarding"}, since : 0 .. LastPost,
                 todo : Seq(Posts)]

(* Two places of the lists in hand that hold one post are one place. *)
EachInHandOnce ==
  \A c, d \in Checks : \A j \in DOMAIN check[c].todo, k \in DOMAIN check[d].todo :
    check[c].todo[j] = check[d].todo[k] => c = d /\ j = k

(***************************************************************************)
(* Everything in hand lies up to the mark and was not forwarded yet; what  *)
(* was forwarded lies up to the mark too, or, when a restart took the mark *)
(* away, up to what every fetch under way will see at least.               *)
(***************************************************************************)
AlertsInBounds ==
  /\ newestPost \in 0 .. LastPost /\ lastSeenId \in 0 .. newestPost
  /\ check \in [Checks -> CheckRecords]
  /\ alerted \in [Posts -> 0 .. 2]

ChecksInOrder ==
  \A c \in Checks : /\ check[c].since <= newestPost
                    /\ check[c].at = "forwarding" <=> check[c].todo # <<>>

ForwardedIsPast ==
  \A m \in Posts : /\ alerted[m] # 2
                   /\ alerted[m] = 1 => m <= newestPost
                   /\ alerted[m] = 1 /\ lastSeenId # 0 => m <= lastSeenId
                   /\ alerted[m] = 1 /\ lastSeenId = 0 =>
                        \A c \in Checks : check[c].at = "fetching" => m <= check[c].since

InHandIsToCome ==
  \A c \in Checks : \A k \in DOMAIN check[c].todo :
    check[c].todo[k] <= lastSeenId /\ alerted[check[c].todo[k]] = 0

AlertParts == /\ AlertsInBounds /\ ChecksInOrder /\ ForwardedIsPast
              /\ InHandIsToCome /\ EachInHandOnce
AlertInv == AlertParts /\ AlertsForwardedOnce

LEMMA AlertInvInit == AlertInit => AlertInv
<1> SUFFICES ASSUME AlertInit PROVE AlertInv
  OBVIOUS
<1>1. NoCheck \in CheckRecords /\ NoCheck.since = 0 /\ NoCheck.todo = <<>> /\ NoCheck.at = "idle"
  BY AlertAssumption DEF NoCheck, CheckRecords
<1>2. \A c \in Checks : check[c] = NoCheck
  BY DEF AlertInit
<1>3. EachInHandOnce
  BY <1>1, <1>2 DEF EachInHandOnce
<1>4. AlertsForwardedOnce
  BY AlertAssumption DEF AlertInit, AlertsForwardedOnce, Posts
<1>5. QED
  BY <1>1, <1>2, <1>3, <1>4, AlertAssumption
  DEF AlertInit, AlertInv, AlertParts, AlertsInBounds, ChecksInOrder, ForwardedIsPast, InHandIsToCome, Posts

(* Putting away a list that is empty anyway disturbs nothing.              *)
LEMMA CheckMovesOn ==
    ASSUME AlertInv, NEW c \in Checks, NEW x \in CheckRecords, check[c].todo = <<>>,
           check' = [check EXCEPT ![c] = x], x.todo = <<>>, x.at # "forwarding",
           x.since <= newestPost, x.at = "fetching" => x.since = newestPost,
           UNCHANGED <<newestPost, lastSeenId, alerted, excused>>
    PROVE  AlertInv'
<1> USE DEF AlertInv, AlertParts, AlertsInBounds, ChecksInOrder, ForwardedIsPast, InHandIsToCome
<1>1. check' \in [Checks -> CheckRecords] /\ check'[c] = x
      /\ \A d \in Checks \ {c} : check'[d] = check[d]
  OBVIOUS
<1>2. \A d \in Checks : check'[d].todo = check[d].todo
  BY <1>1
<1>3. EachInHandOnce'
  BY <1>2 DEF EachInHandOnce
<1>4. AlertsForwardedOnce'
  BY <1>2 DEF AlertsForwardedOnce, InHand
<1>5. \A d \in Checks : \A k \in DOMAIN check'[d].todo :
         check'[d].todo[k] <= lastSeenId' /\ alerted'[check'[d].todo[k]] = 0
  BY <1>2
<1>6. \A m \in Posts : \A d \in Checks :
        alerted[m] = 1 /\ lastSeenId = 0 /\ check'[d].at = "fetching" => m <= check'[d].since
  BY <1>1
<1>7. QED
  BY <1>1, <1>3, <1>4, <1>5, <1>6

(* What a page shows beyond the mark reaches up to its newest post.        *)
LEMMA NewOnPage ==
    ASSUME NEW newest \in 0 .. LastPost, NEW mark \in Nat
    PROVE  LET new == {m \in Page(newest) : m > mark}
           IN  IF newest > mark THEN LatestOf(new) = newest /\ newest \in new ELSE new = {}
<1> DEFINE new == {m \in Page(newest) : m > mark}
<1>1. CASE newest > mark
  <2>1. newest \in new /\ \A n \in new : n \in Int /\ n <= newest
    BY <1>1, AlertAssumption DEF Page, Posts
  <2>2. LatestOf(new) = CHOOSE m \in new : \A n \in new : n <= m
    BY DEF LatestOf
  <2> HIDE DEF new
  <2>3. \A m \in new : (\A n \in new : n <= m) => m = newest
    BY <2>1
  <2>4. QED
    BY <1>1, <2>1, <2>2, <2>3 DEF new
<1>2. CASE ~ (newest > mark)
  BY <1>2, AlertAssumption DEF Page, Posts
<1>3. QED
  BY <1>1, <1>2

LEMMA AlertInvStep == AlertInv /\ [AlertNext]_alertVars => AlertInv'
<1> SUFFICES ASSUME AlertInv, [AlertNext]_alertVars PROVE AlertInv'
  OBVIOUS
<1> USE AlertAssumption DEF AlertInv, AlertParts,
          AlertsInBounds, ChecksInOrder, ForwardedIsPast, InHandIsToCome
<1>0. NoCheck \in CheckRecords /\ NoCheck.since = 0 /\ NoCheck.todo = <<>> /\ NoCheck.at = "idle"
  BY DEF NoCheck, CheckRecords
<1>1. ASSUME NEW c \in Checks, CheckStarts(c) PROVE AlertInv'
  <2> DEFINE x == [at |-> "fetching", since |-> newestPost, todo |-> << >>]
  <2>1. check' = [check EXCEPT ![c] = x] /\ check[c] = NoCheck
        /\ UNCHANGED <<newestPost, lastSeenId, alerted, excused>>
    BY <1>1 DEF CheckStarts
  <2>2. x \in CheckRecords /\ x.todo = <<>> /\ x.at = "fetching" /\ x.since = newestPost
    BY DEF CheckRecords
  <2>3. newestPost <= newestPost
    OBVIOUS
  <2> HIDE DEF x, AlertInv
  <2>4. QED
    BY <1>0, <2>1, <2>2, <2>3, CheckMovesOn
<1>2. ASSUME NEW c \in Checks, BadStatus(c) \/ FetchFails(c) PROVE AlertInv'
  <2>1. check' = [check EXCEPT ![c] = NoCheck] /\ check[c].at = "fetching"
        /\ UNCHANGED <<newestPost, lastSeenId, alerted, excused>>
    BY <1>2 DEF BadStatus, FetchFails
  <2>2. check[c].todo = <<>> /\ 0 <= newestPost
    BY <2>1
  <2> HIDE DEF AlertInv
  <2>3. QED
    BY <1>0, <2>1, <2>2, CheckMovesOn
<1>3. ASSUME NEW c \in Checks, NEW todo \in Seq(Posts), Forward(c, todo)
      PROVE  /\ check' \in [Checks -> CheckRecords] /\ check'[c].todo = todo
             /\ check'[c].since = 0 /\ check'[c].at # "fetching"
             /\ check'[c].at = "forwarding" <=> todo # <<>>
             /\ \A d \in Checks \ {c} : check'[d] = check[d]
  <2> DEFINE x == [at |-> "forwarding", since |-> 0, todo |-> todo]
  <2>1. check' = [check EXCEPT ![c] = IF todo = <<>> THEN NoCheck ELSE x]
    BY <1>3 DEF Forward
  <2>2. x \in CheckRecords /\ x.todo = todo /\ x.at = "forwarding" /\ x.since = 0
    BY DEF CheckRecords
  <2> HIDE DEF x
  <2>3. QED
    BY <1>0, <2>1, <2>2
<1>4. ASSUME NEW c \in Checks, PostForwarded(c) PROVE AlertInv'
  <2> DEFINE s == check[c].todo
             m == s[1]
  <2>1. s \in Seq(Posts) /\ s # <<>>
    BY <1>4 DEF PostForwarded, CheckRecords
  <2>2. /\ Tail(s) \in Seq(Posts) /\ m \in Posts /\ 1 \in DOMAIN s
        /\ \A k \in DOMAIN Tail(s) : k + 1 \in DOMAIN s /\ Tail(s)[k] = s[k + 1]
        /\ \A j, k \in DOMAIN Tail(s) : j + 1 = k + 1 => j = k
        /\ Range(s) = {m} \cup Range(Tail(s))
        /\ \A k \in DOMAIN Tail(s) : k \in Nat \ {0}
    <3>1. \A k \in DOMAIN Tail(s) : k \in Nat \ {0}
      BY <2>1
    <3> HIDE DEF s
    <3>2. QED
      BY <2>1, <3>1, TailOf
  <2>3. /\ alerted' = [alerted EXCEPT ![m] = IF @ < 2 THEN @ + 1 ELSE @]
        /\ Forward(c, Tail(s))
        /\ UNCHANGED <<newestPost, lastSeenId, excused>>
    BY <1>4 DEF PostForwarded
  <2>4. alerted[m] = 0 /\ m <= lastSeenId
    BY <2>2
  <2>5. /\ alerted'[m] = 1 /\ alerted' \in [Posts -> 0 .. 2]
        /\ \A n \in Posts \ {m} : alerted'[n] = alerted[n]
    BY <2>2, <2>3, <2>4
  <2>6. /\ check' \in [Checks -> CheckRecords] /\ check'[c].todo = Tail(s)
        /\ check'[c].since = 0 /\ check'[c].at # "fetching"
        /\ check'[c].at = "forwarding" <=> Tail(s) # <<>>
        /\ \A d \in Checks \ {c} : check'[d] = check[d]
    BY <2>2, <2>3, <1>3
  <2>7. \A k \in DOMAIN Tail(s) : Tail(s)[k] # m
    <3>1. \A j, k \in DOMAIN s : s[j] = s[k] => j = k
      BY DEF EachInHandOnce
    <3> HIDE DEF s, AlertInv
    <3>2. SUFFICES ASSUME NEW k \in DOMAIN Tail(s), Tail(s)[k] = m PROVE FALSE
      OBVIOUS
    <3>3. k + 1 \in DOMAIN s /\ s[k + 1] = s[1] /\ k \in Nat \ {0}
      BY <2>2, <3>2
    <3>4. k + 1 = 1
      BY <2>2, <3>1, <3>3
    <3>5. QED
      BY <3>3, <3>4
  <2>8. \A d \in Checks \ {c} : \A k \in DOMAIN check[d].todo : check[d].todo[k] # m
    BY <2>2 DEF EachInHandOnce
  <2> HIDE DEF s, m
  <2>9. EachInHandOnce'
    <3>1. ASSUME NEW d \in Checks, NEW e \in Checks,
                 NEW j \in DOMAIN check'[d].todo, NEW k \in DOMAIN check'[e].todo,
                 check'[d].todo[j] = check'[e].todo[k]
          PROVE  d = e /\ j = k
      <4>1. CASE d = c /\ e = c
        BY <3>1, <4>1, <2>2, <2>6 DEF EachInHandOnce, s
      <4>2. CASE d = c /\ e # c
        BY <3>1, <4>2, <2>2, <2>6 DEF EachInHandOnce, s
      <4>3. CASE d # c /\ e = c
        BY <3>1, <4>3, <2>2, <2>6 DEF EachInHandOnce, s
      <4>4. CASE d # c /\ e # c
        BY <3>1, <4>4, <2>6 DEF EachInHandOnce
      <4>5. QED
        BY <4>1, <4>2, <4>3, <4>4
    <3>2. QED
      BY <3>1 DEF EachInHandOnce
  <2>10. \A d \in Checks : \A k \in DOMAIN check'[d].todo :
           check'[d].todo[k] <= lastSeenId' /\ alerted'[check'[d].todo[k]] = 0
    <3>1. ASSUME NEW d \in Checks, NEW k \in DOMAIN check'[d].todo
          PROVE  check'[d].todo[k] <= lastSeenId' /\ alerted'[check'[d].todo[k]] = 0
      <4>1. CASE d = c
        <5>1. k + 1 \in DOMAIN s /\ check'[d].todo[k] = s[k + 1] /\ s[k + 1] \in Posts
              /\ s[k + 1] # m
          BY <4>1, <2>1, <2>2, <2>6, <2>7
        <5>2. QED
          BY <5>1, <2>3, <2>5 DEF s
      <4>2. CASE d # c
        <5>1. check'[d].todo = check[d].todo /\ check[d].todo[k] \in Posts
              /\ check[d].todo[k] # m
          BY <4>2, <2>6, <2>8 DEF CheckRecords
        <5>2. QED
          BY <5>1, <2>3, <2>5
      <4>3. QED
        BY <4>1, <4>2
    <3>2. QED
      BY <3>1
  <2>11. AlertsForwardedOnce'
    <3>1. \A n \in Posts : InHand(n) => n = m \/ InHand(n)'
      <4>1. ASSUME NEW n \in Posts, NEW d \in Checks, n \in Range(check[d].todo), n # m
            PROVE  n \in Range(check'[d].todo)
        <5>1. CASE d = c
          BY <4>1, <5>1, <2>2, <2>6 DEF s
        <5>2. CASE d # c
          BY <4>1, <5>2, <2>6
        <5>3. QED
          BY <5>1, <5>2
      <4>2. QED
        BY <4>1 DEF InHand
    <3>2. ASSUME NEW n \in WantedPosts \ excused, n <= lastSeenId, n \in Posts
          PROVE  alerted'[n] = 1 \/ InHand(n)'
      BY <3>1, <3>2, <2>5 DEF AlertsForwardedOnce
    <3>3. QED
      BY <3>2, <2>3, <2>5 DEF AlertsForwardedOnce
  <2>12. \A d \in Checks :
           /\ check'[d].since <= newestPost'
           /\ check'[d].at = "forwarding" <=> check'[d].todo # <<>>
           /\ check'[d].at = "fetching" => check'[d] = check[d]
    <3>1. check'[c].since <= newestPost' /\ (check'[c].at = "forwarding" <=> check'[c].todo # <<>>)
      BY <2>3, <2>6
    <3>2. ASSUME NEW d \in Checks \ {c}
          PROVE  /\ check'[d].since <= newestPost' /\ check'[d] = check[d]
                 /\ check'[d].at = "forwarding" <=> check'[d].todo # <<>>
      BY <2>3, <2>6
    <3> HIDE DEF AlertInv
    <3>3. ASSUME NEW d \in Checks
          PROVE  /\ check'[d].since <= newestPost'
                 /\ check'[d].at = "forwarding" <=> check'[d].todo # <<>>
                 /\ check'[d].at = "fetching" => check'[d] = check[d]
      <4>1. CASE d = c
        BY <2>6, <3>1, <4>1
      <4>2. CASE d # c
        BY <3>2, <4>2
      <4>3. QED
        BY <4>1, <4>2
    <3>4. QED
      BY <3>3
  <2>13. \A n \in Posts :
           /\ alerted'[n] # 2
           /\ alerted'[n] = 1 => n <= newestPost'
           /\ alerted'[n] = 1 /\ lastSeenId' # 0 => n <= lastSeenId'
           /\ alerted'[n] = 1 /\ lastSeenId' = 0 =>
                \A d \in Checks : check'[d].at = "fetching" => n <= check'[d].since
    <3>1. m \in Posts /\ lastSeenId # 0 /\ m <= newestPost
      BY <2>2, <2>4 DEF Posts
    <3>2. \A n \in Posts : /\ alerted[n] # 2
                           /\ alerted[n] = 1 => n <= newestPost /\ n <= lastSeenId
      BY <3>1
    <3> HIDE DEF AlertInv
    <3>3. ASSUME NEW n \in Posts
          PROVE  /\ alerted'[n] # 2
                 /\ alerted'[n] = 1 => n <= newestPost' /\ n <= lastSeenId'
      <4>1. CASE n = m
        BY <2>3, <2>4, <2>5, <3>1, <4>1
      <4>2. CASE n # m
        BY <2>3, <2>5, <3>2, <4>2
      <4>3. QED
        BY <4>1, <4>2
    <3>4. QED
      BY <2>3, <3>1, <3>3
  <2>14. AlertsInBounds'
    <3>1. newestPost' \in 0 .. LastPost /\ lastSeenId' \in 0 .. newestPost'
      BY <2>3
    <3>2. check' \in [Checks -> CheckRecords] /\ alerted' \in [Posts -> 0 .. 2]
      BY <2>5, <2>6
    <3> HIDE DEF AlertInv, AlertParts
    <3>3. QED
      BY <3>1, <3>2
  <2>15. ChecksInOrder' /\ ForwardedIsPast' /\ InHandIsToCome'
    <3> HIDE DEF AlertInv
    <3>1. QED
      BY <2>10, <2>12, <2>13
  <2> HIDE DEF AlertsInBounds, ChecksInOrder, ForwardedIsPast, InHandIsToCome
  <2>16. QED
    BY <2>9, <2>11, <2>14, <2>15
<1>5. ASSUME NEW c \in Checks, PageArrives(c) PROVE AlertInv'
  <2>1. PICK newest \in check[c].since .. newestPost :
          LET new == {m \in Page(newest) : m > lastSeenId}
              todo == IF lastSeenId = 0 THEN {} ELSE new \cap WantedPosts
              passed == {m \in Posts : lastSeenId < m /\ m <= newest}
          IN  /\ lastSeenId' = IF new = {} THEN lastSeenId ELSE LatestOf(new)
              /\ excused' = excused \cup IF lastSeenId = 0 THEN passed ELSE passed \ new
              /\ Forward(c, Ascending(todo))
    BY <1>5 DEF PageArrives
  <2> DEFINE new == {m \in Page(newest) : m > lastSeenId}
             todo == IF lastSeenId = 0 THEN {} ELSE new \cap WantedPosts
             passed == {m \in Posts : lastSeenId < m /\ m <= newest}
             s == Ascending(todo)
  <2>2. /\ newest \in 0 .. LastPost /\ newest <= newestPost /\ check[c].since <= newest
        /\ lastSeenId \in Nat /\ check[c].at = "fetching"
        /\ UNCHANGED <<newestPost, alerted>>
    BY <1>5, <2>1 DEF PageArrives, CheckRecords
  <2>3. /\ IF newest > lastSeenId THEN lastSeenId' = newest ELSE lastSeenId' = lastSeenId
        /\ lastSeenId' >= lastSeenId /\ lastSeenId' \in 0 .. newestPost
    <3>1. IF newest > lastSeenId THEN LatestOf(new) = newest /\ newest \in new ELSE new = {}
      BY <2>2, NewOnPage
    <3>2. lastSeenId' = IF new = {} THEN lastSeenId ELSE LatestOf(new)
      BY <2>1
    <3> HIDE DEF new
    <3>3. QED
      BY <2>2, <3>1, <3>2
  <2>4. /\ todo \in SUBSET Posts /\ IsFiniteSet(todo) /\ todo \in SUBSET Int
        /\ \A m \in todo : lastSeenId # 0 /\ m > lastSeenId /\ m <= newest
    <3>1. todo \in SUBSET Posts /\ \A m \in todo : lastSeenId # 0 /\ m > lastSeenId /\ m <= newest
      BY <2>2 DEF Page, Posts
    <3> HIDE DEF todo
    <3>2. IsFiniteSet(1 .. LastPost)
      BY FS_Interval
    <3>3. Posts = 1 .. LastPost /\ Posts \in SUBSET Int
      BY DEF Posts
    <3>4. QED
      BY <3>1, <3>2, <3>3, FS_Subset
  <2>5. /\ s \in Seq(todo) /\ s \in Seq(Posts) /\ DOMAIN s = 1 .. Cardinality(todo)
        /\ \A j, k \in DOMAIN s : s[j] = s[k] => j = k
        /\ \A k \in DOMAIN s : s[k] \in todo
        /\ \A m \in todo : m \in Range(s)
    <3> HIDE DEF todo
    <3>1. /\ s \in Seq(todo) /\ Len(s) = Cardinality(todo) /\ Cardinality(todo) \in Nat
          /\ \A i, j \in 1 .. Cardinality(todo) : i < j => s[i] < s[j]
          /\ \A m \in todo : \E i \in 1 .. Cardinality(todo) : s[i] = m
      BY <2>4, AscendingSequence
    <3> HIDE DEF s
    <3>2. /\ DOMAIN s = 1 .. Cardinality(todo)
          /\ \A k \in DOMAIN s : s[k] \in todo /\ s[k] \in Int /\ s[k] \in Posts
      <4>1. DOMAIN s = 1 .. Cardinality(todo)
        BY <3>1
      <4>2. \A k \in DOMAIN s : s[k] \in todo
        BY <3>1
      <4>3. \A m \in todo : m \in Int /\ m \in Posts
        BY <2>4
      <4>4. QED
        BY <4>1, <4>2, <4>3
    <3>3. s \in Seq(Posts)
      BY <3>1, <3>2
    <3>4. \A j, k \in DOMAIN s : s[j] = s[k] => j = k
      <4>1. ASSUME NEW j \in 1 .. Cardinality(todo), NEW k \in 1 .. Cardinality(todo), j # k
            PROVE  s[j] # s[k]
        <5>1. j < k \/ k < j
          BY <4>1
        <5>2. s[j] \in Int /\ s[k] \in Int
          BY <3>2
        <5>3. QED
          BY <3>1, <5>1, <5>2
      <4>2. QED
        BY <3>2, <4>1
    <3>5. \A m \in todo : m \in Range(s)
      BY <3>1, <3>2 DEF Range
    <3>6. QED
      BY <3>1, <3>2, <3>3, <3>4, <3>5
  <2>6. /\ check' \in [Checks -> CheckRecords] /\ check'[c].todo = s
        /\ check'[c].since = 0 /\ check'[c].at # "fetching"
        /\ check'[c].at = "forwarding" <=> s # <<>>
        /\ \A d \in Checks \ {c} : check'[d] = check[d]
    <3> HIDE DEF s
    <3>1. Forward(c, s)
      BY <2>1 DEF s
    <3>2. QED
      BY <2>5, <3>1, <1>3
  <2>7. \A m \in todo : m \in Posts /\ alerted[m] = 0 /\ m <= lastSeenId'
    <3>1. ASSUME NEW m \in todo PROVE m \in Posts /\ alerted[m] = 0 /\ m <= lastSeenId'
      <4>1. m \in Posts /\ lastSeenId # 0 /\ m > lastSeenId /\ m <= newest /\ m \in Nat
        BY <2>4 DEF Posts
      <4> HIDE DEF todo
      <4>2. alerted[m] \in 0 .. 2 /\ alerted[m] # 2 /\ alerted[m] # 1
        BY <2>2, <4>1
      <4>3. QED
        BY <2>2, <2>3, <4>1, <4>2
    <3> HIDE DEF todo
    <3>2. QED
      BY <3>1
  <2>8. check[c].todo = <<>>
    BY <2>2
  <2>9. \A d \in Checks : \A k \in DOMAIN check[d].todo :
          /\ check[d].todo[k] \in Posts /\ check[d].todo[k] <= lastSeenId
          /\ check[d].todo[k] \notin todo /\ alerted[check[d].todo[k]] = 0
    BY <2>2, <2>4 DEF CheckRecords, Posts
  <2> HIDE DEF todo, new, s
  <2>10. EachInHandOnce'
    <3>1. ASSUME NEW d \in Checks, NEW e \in Checks,
                 NEW j \in DOMAIN check'[d].todo, NEW k \in DOMAIN check'[e].todo,
                 check'[d].todo[j] = check'[e].todo[k]
          PROVE  d = e /\ j = k
      <4>1. CASE d = c /\ e = c
        BY <3>1, <4>1, <2>5, <2>6
      <4>2. CASE d = c /\ e # c
        BY <3>1, <4>2, <2>5, <2>6, <2>9
      <4>3. CASE d # c /\ e = c
        BY <3>1, <4>3, <2>5, <2>6, <2>9
      <4>4. CASE d # c /\ e # c
        BY <3>1, <4>4, <2>6 DEF EachInHandOnce
      <4>5. QED
        BY <4>1, <4>2, <4>3, <4>4
    <3>2. QED
      BY <3>1 DEF EachInHandOnce
  <2>11. InHandIsToCome'
    <3>1. ASSUME NEW d \in Checks, NEW k \in DOMAIN check'[d].todo
          PROVE  check'[d].todo[k] <= lastSeenId' /\ alerted'[check'[d].todo[k]] = 0
      <4>1. CASE d = c
        BY <4>1, <2>2, <2>5, <2>6, <2>7
      <4>2. CASE d # c
        <5>1. check'[d].todo = check[d].todo /\ check[d].todo[k] \in Posts
              /\ check[d].todo[k] <= lastSeenId /\ alerted[check[d].todo[k]] = 0
          BY <4>2, <2>6, <2>9
        <5>2. QED
          BY <5>1, <2>2, <2>3 DEF Posts
      <4>3. QED
        BY <4>1, <4>2
    <3>2. QED
      BY <3>1
  <2>12. AlertsForwardedOnce'
    <3>1. \A n \in Posts : InHand(n) => InHand(n)'
      <4>1. ASSUME NEW d \in Checks PROVE Range(check[d].todo) \in SUBSET Range(check'[d].todo)
        <5>1. CASE d = c
          BY <5>1, <2>8 DEF Range
        <5>2. CASE d # c
          BY <5>2, <2>6
        <5>3. QED
          BY <5>1, <5>2
      <4>2. QED
        BY <4>1 DEF InHand
    <3>2. ASSUME NEW n \in WantedPosts \ excused', n <= lastSeenId', n \in Posts
          PROVE  alerted'[n] = 1 \/ InHand(n)'
      <4>1. CASE n <= lastSeenId
        <5>1. n \notin excused
          BY <3>2, <2>1
        <5>2. QED
          BY <3>1, <3>2, <4>1, <5>1, <2>2 DEF AlertsForwardedOnce
      <4>2. CASE ~ (n <= lastSeenId)
        <5>1. n \in passed
          BY <3>2, <4>2, <2>2, <2>3 DEF Posts
        <5>2. lastSeenId # 0 /\ n \in new
          BY <3>2, <5>1, <2>1 DEF new
        <5>3. n \in Range(check'[c].todo)
          BY <3>2, <5>2, <2>5, <2>6 DEF todo
        <5>4. QED
          BY <5>3 DEF InHand
      <4>3. QED
        BY <4>1, <4>2
    <3>3. \A n \in Posts : alerted'[n] < 2
      BY <2>2 DEF AlertsForwardedOnce
    <3>4. QED
      BY <3>2, <3>3 DEF AlertsForwardedOnce
  <2>13. ChecksInOrder'
    <3>1. ASSUME NEW d \in Checks
          PROVE  /\ check'[d].since <= newestPost'
                 /\ check'[d].at = "forwarding" <=> check'[d].todo # <<>>
      <4>1. CASE d = c
        BY <4>1, <2>2, <2>6
      <4>2. CASE d # c
        BY <4>2, <2>2, <2>6
      <4>3. QED
        BY <4>1, <4>2
    <3>2. QED
      BY <3>1
  <2>14. ForwardedIsPast'
    <3>1. ASSUME NEW m \in Posts
          PROVE  /\ alerted[m] # 2 /\ (alerted[m] = 1 => m <= newestPost)
                 /\ alerted[m] = 1 /\ lastSeenId' # 0 => m <= lastSeenId'
                 /\ alerted[m] = 1 /\ lastSeenId' = 0 => newest = 0 /\ m <= newest
      <4>1. alerted[m] = 1 /\ lastSeenId = 0 => m <= newest
        BY <2>2 DEF CheckRecords, Posts
      <4>2. QED
        BY <2>2, <2>3, <4>1 DEF Posts
    <3>2. \A m \in Posts : alerted[m] = 1 /\ lastSeenId' = 0 => FALSE
      BY <3>1 DEF Posts
    <3> HIDE DEF AlertInv
    <3>3. QED
      BY <2>2, <3>1, <3>2
  <2>15. AlertsInBounds'
    BY <2>2, <2>3, <2>6
  <2> HIDE DEF AlertsInBounds, ChecksInOrder, ForwardedIsPast, InHandIsToCome
  <2>16. QED
    BY <2>10, <2>11, <2>12, <2>13, <2>14, <2>15
<1>6. ASSUME UNCHANGED <<newestPost, lastSeenId, check, alerted, excused>> PROVE AlertInv'
  <2>1. AlertsInBounds' /\ ChecksInOrder' /\ ForwardedIsPast' /\ InHandIsToCome'
    BY <1>6
  <2>2. EachInHandOnce'
    BY <1>6 DEF EachInHandOnce
  <2>3. AlertsForwardedOnce'
    BY <1>6 DEF AlertsForwardedOnce, InHand
  <2> HIDE DEF AlertsInBounds, ChecksInOrder, ForwardedIsPast, InHandIsToCome
  <2>4. QED
    BY <2>1, <2>2, <2>3
<1>7. CASE NewPost
  <2>1. /\ newestPost < LastPost /\ newestPost' = newestPost + 1
        /\ UNCHANGED <<lastSeenId, check, alerted, excused>>
    BY <1>7 DEF NewPost
  <2>2. AlertsInBounds' /\ InHandIsToCome'
    BY <2>1
  <2>3. ChecksInOrder'
    BY <2>1 DEF CheckRecords
  <2>4. ForwardedIsPast'
    BY <2>1 DEF Posts
  <2>5. EachInHandOnce'
    BY <2>1 DEF EachInHandOnce
  <2>6. AlertsForwardedOnce'
    BY <2>1 DEF AlertsForwardedOnce, InHand
  <2> HIDE DEF AlertsInBounds, ChecksInOrder, ForwardedIsPast, InHandIsToCome
  <2>7. QED
    BY <2>2, <2>3, <2>4, <2>5, <2>6
<1>8. CASE AlertRestart
  <2>1. /\ lastSeenId' = 0 /\ check' = [d \in Checks |-> NoCheck]
        /\ UNCHANGED <<newestPost, alerted>>
    BY <1>8 DEF AlertRestart
  <2>2. \A d \in Checks : check'[d] = NoCheck
    BY <2>1
  <2>3. AlertsInBounds'
    BY <1>0, <2>1
  <2>4. ChecksInOrder'
    BY <1>0, <2>1, <2>2
  <2>5. ForwardedIsPast'
    BY <1>0, <2>1, <2>2
  <2>6. InHandIsToCome'
    BY <1>0, <2>2
  <2>7. EachInHandOnce'
    BY <1>0, <2>2 DEF EachInHandOnce
  <2>8. AlertsForwardedOnce'
    BY <2>1 DEF AlertsForwardedOnce, Posts
  <2> HIDE DEF AlertsInBounds, ChecksInOrder, ForwardedIsPast, InHandIsToCome
  <2>9. QED
    BY <2>3, <2>4, <2>5, <2>6, <2>7, <2>8
<1>9. QED
  <2>1. CASE PauseEnds \/ UNCHANGED alertVars
    <3>1. UNCHANGED <<newestPost, lastSeenId, check, alerted, excused>>
      BY <2>1 DEF PauseEnds, alertVars
    <3>2. QED
      BY <1>6, <3>1
  <2>2. QED
    BY <1>1, <1>2, <1>4, <1>5, <1>7, <1>8, <2>1 DEF AlertNext

(***************************************************************************)
(* telegram/alert-poller.ts forwards a post at most once, however checks   *)
(* overlap and whichever page comes first; up to the mark every wanted     *)
(* post is forwarded or in hand, but those before a first page, those      *)
(* pushed off the page, and those a restart lost.                          *)
(***************************************************************************)
THEOREM PostsForwardedOnce == AlertSpec => []AlertsForwardedOnce
<1>1. AlertInit => AlertInv
  BY AlertInvInit
<1>2. AlertInv /\ [AlertNext]_alertVars => AlertInv'
  BY AlertInvStep
<1>3. AlertInv => AlertsForwardedOnce
  BY DEF AlertInv
<1>4. QED
  BY <1>1, <1>2, <1>3, PTL DEF AlertSpec

-----------------------------------------------------------------------------
(* The SMS pollers *)

SmsPollRecords == [reader : Readers, todo : Seq(Sms)]
Of(p, r) == smsPoll[p].reader = r /\ smsPoll[p].todo # <<>>

SmsInBounds ==
  /\ newestSms \in 0 .. LastSms /\ watchCursor \in -1 .. LastSms /\ watchFile \in -1 .. LastSms
  /\ smsPoll \in [SmsPolls -> SmsPollRecords]
  /\ told \in [Readers -> [Sms -> 0 .. 2]]

(***************************************************************************)
(* A message told is recorded, the one being sent is recorded and not told *)
(* yet, and no two recorded messages are about one delivery.               *)
(***************************************************************************)
DeliveriesApart ==
  "delivery" \notin filesLost =>
    /\ \A m, n \in deliveries : DeliveryOf[m] = DeliveryOf[n] => m = n
    /\ \A m \in Sms : told["delivery"][m] # 2 /\ (told["delivery"][m] = 1 => m \in deliveries)
    /\ \A p \in SmsPolls : Of(p, "delivery") =>
         smsPoll[p].todo[1] \in deliveries /\ told["delivery"][smsPoll[p].todo[1]] = 0
    /\ \A p, q \in SmsPolls :
         Of(p, "delivery") /\ Of(q, "delivery") /\ smsPoll[p].todo[1] = smsPoll[q].todo[1] => p = q

(***************************************************************************)
(* The watcher's file is its cursor; what was told or is in hand lies up   *)
(* to it, in hand once and not told yet.                                   *)
(***************************************************************************)
WatchedApart ==
  "watcher" \notin filesLost =>
    /\ watchCursor >= 0 => watchFile = watchCursor
    /\ \A p \in SmsPolls : Of(p, "watcher") => watchCursor >= 0
    /\ \A m \in Sms : told["watcher"][m] # 2 /\ (told["watcher"][m] = 1 => m <= watchFile)
    /\ \A p \in SmsPolls : Of(p, "watcher") => \A k \in DOMAIN smsPoll[p].todo :
         smsPoll[p].todo[k] <= watchFile /\ told["watcher"][smsPoll[p].todo[k]] = 0
    /\ \A p, q \in SmsPolls : Of(p, "watcher") /\ Of(q, "watcher") =>
         \A j \in DOMAIN smsPoll[p].todo, k \in DOMAIN smsPoll[q].todo :
           smsPoll[p].todo[j] = smsPoll[q].todo[k] => p = q /\ j = k
    /\ \A m \in WatchedSms \ unlooked :
         m <= watchFile => told["watcher"][m] = 1 \/ SmsInHand("watcher", m)

SmsInv == SmsInBounds /\ DeliveriesApart /\ WatchedApart


LEMMA BatchIsBeyond ==
    ASSUME newestSms \in 0 .. LastSms, NEW cursor \in Int
    PROVE  /\ Batch(cursor) \in SUBSET Sms /\ \A m \in Batch(cursor) : cursor < m
           /\ IF Beyond(cursor) = {}
              THEN Onward(cursor) = cursor /\ Batch(cursor) = {}
              ELSE /\ Onward(cursor) \in Batch(cursor)
                   /\ \A m \in Batch(cursor) : m <= Onward(cursor)
<1> DEFINE rows == Beyond(cursor)
           batch == Batch(cursor)
<1>1. /\ rows \in SUBSET Sms /\ batch \in SUBSET rows /\ \A m \in batch : cursor < m
      /\ rows \in SUBSET Int
  BY SmsAssumption DEF Beyond, Batch, Sms
<1>2. IsFiniteSet(rows) /\ IsFiniteSet(batch)
  <2>1. IsFiniteSet(1 .. LastSms)
    BY SmsAssumption, FS_Interval
  <2> HIDE DEF rows, batch
  <2>2. QED
    BY <1>1, <2>1, FS_Subset DEF Sms
<1>3. CASE rows # {}
  <2>1. \A m \in rows : SentAt[m] \in Int
    BY <1>1, SmsAssumption
  <2>2. \E m \in rows : \A n \in rows : ~ (SentAt[n] < SentAt[m])
    <3> HIDE DEF rows
    <3>1. QED
      BY <1>1, <1>2, <1>3, <2>1, SmallestKey
  <2>3. PICK m \in rows : \A n \in rows : ~ (SentAt[n] < SentAt[m])
    BY <2>2
  <2>4. {n \in rows : SentAt[n] < SentAt[m]} = {} /\ Cardinality({}) = 0
    BY <2>3, FS_EmptySet
  <2>5. m \in batch
    <3>1. Cardinality({n \in rows : SentAt[n] < SentAt[m]}) < BatchLimit
      BY <2>4, SmsAssumption
    <3>2. QED
      BY <2>3, <3>1 DEF Batch
  <2>6. \E n \in batch : \A k \in batch : k <= n
    <3> HIDE DEF rows, batch
    <3>1. QED
      BY <1>1, <1>2, <2>5, GreatestOf
  <2>7. Onward(cursor) = CHOOSE n \in batch : \A k \in batch : k <= n
    BY <1>3 DEF Onward, LastOf
  <2> HIDE DEF rows, batch
  <2>8. Onward(cursor) \in batch /\ \A k \in batch : k <= Onward(cursor)
    BY <2>6, <2>7
  <2>9. QED
    BY <1>1, <1>3, <2>8 DEF rows, batch
<1>4. CASE rows = {}
  BY <1>1, <1>4 DEF Onward, Batch
<1>5. QED
  BY <1>3, <1>4

LEMMA ByDateOnce ==
    ASSUME NEW batch \in SUBSET Sms
    PROVE  /\ ByDate(batch) \in Seq(Sms) /\ Range(ByDate(batch)) = batch
           /\ \A k \in DOMAIN ByDate(batch) : ByDate(batch)[k] \in batch
           /\ \A j, k \in DOMAIN ByDate(batch) : ByDate(batch)[j] = ByDate(batch)[k] => j = k
           /\ batch = {} <=> ByDate(batch) = << >>
<1>1. IsFiniteSet(1 .. LastSms) /\ Sms = 1 .. LastSms
  BY SmsAssumption, FS_Interval DEF Sms
<1>2. IsFiniteSet(batch) /\ batch \in SUBSET Int /\ \A m \in batch : SentAt[m] \in Int
  <2>1. IsFiniteSet(batch)
    BY <1>1, FS_Subset
  <2>2. QED
    BY <1>1, <2>1, SmsAssumption
<1> DEFINE s == Sorted(batch, SentAt)
<1>3. /\ s \in Seq(batch) /\ \A k \in DOMAIN s : s[k] \in batch
      /\ \A j, k \in DOMAIN s : s[j] = s[k] => j = k
      /\ Range(s) = batch /\ (batch = {} => s = << >>)
  BY <1>2, SortedOnce
<1> HIDE DEF s
<1>4. s \in Seq(Sms)
  BY <1>3
<1>5. s = << >> => Range(s) = {}
  BY DEF Range
<1>6. s = ByDate(batch)
  BY DEF s, ByDate
<1>7. QED
  BY <1>3, <1>4, <1>5, <1>6

(* What the other reader does leaves a reader's part alone.                *)
LEMMA DeliveriesKept ==
    ASSUME SmsInBounds, DeliveriesApart, "delivery" \in filesLost => "delivery" \in filesLost',
           deliveries' = deliveries, told'["delivery"] = told["delivery"],
           \A p \in SmsPolls : Of(p, "delivery")' =>
             Of(p, "delivery") /\ smsPoll'[p].todo = smsPoll[p].todo
    PROVE  DeliveriesApart'
<1>1. SUFFICES ASSUME "delivery" \notin filesLost'
      PROVE /\ \A m, n \in deliveries : DeliveryOf[m] = DeliveryOf[n] => m = n
            /\ \A m \in Sms : told["delivery"][m] # 2 /\ (told["delivery"][m] = 1 => m \in deliveries)
            /\ \A p \in SmsPolls : Of(p, "delivery")' =>
                 smsPoll'[p].todo[1] \in deliveries /\ told["delivery"][smsPoll'[p].todo[1]] = 0
            /\ \A p, q \in SmsPolls :
                 Of(p, "delivery")' /\ Of(q, "delivery")' /\ smsPoll'[p].todo[1] = smsPoll'[q].todo[1]
                   => p = q
  BY DEF DeliveriesApart
<1>2. "delivery" \notin filesLost
  BY <1>1
<1>3. QED
  BY <1>2 DEF DeliveriesApart

LEMMA WatchedKept ==
    ASSUME SmsInBounds, WatchedApart, "watcher" \in filesLost => "watcher" \in filesLost',
           "watcher" \notin filesLost' => watchCursor' = watchCursor /\ watchFile' = watchFile,
           unlooked \in SUBSET unlooked', told'["watcher"] = told["watcher"],
           \A p \in SmsPolls : Of(p, "watcher")' <=> Of(p, "watcher"),
           \A p \in SmsPolls : Of(p, "watcher") => smsPoll'[p] = smsPoll[p]
    PROVE  WatchedApart'
<1> SUFFICES ASSUME "watcher" \notin filesLost' PROVE WatchedApart'
  BY DEF WatchedApart
<1>1. "watcher" \notin filesLost /\ watchCursor' = watchCursor /\ watchFile' = watchFile
  OBVIOUS
<1>2. \A m : SmsInHand("watcher", m) => SmsInHand("watcher", m)'
  <2>1. ASSUME NEW m, NEW p \in SmsPolls, smsPoll[p].reader = "watcher", m \in Range(smsPoll[p].todo)
        PROVE  SmsInHand("watcher", m)'
    <3>1. Of(p, "watcher")
      BY <2>1 DEF Of, Range
    <3>2. QED
      BY <2>1, <3>1 DEF SmsInHand
  <2>2. QED
    BY <2>1 DEF SmsInHand
<1>3. \A m \in WatchedSms \ unlooked' :
        m <= watchFile' => told'["watcher"][m] = 1 \/ SmsInHand("watcher", m)'
  BY <1>1, <1>2 DEF WatchedApart
<1>4. \A p \in SmsPolls : Of(p, "watcher")' => \A k \in DOMAIN smsPoll'[p].todo :
         smsPoll'[p].todo[k] <= watchFile' /\ told'["watcher"][smsPoll'[p].todo[k]] = 0
  BY <1>1 DEF WatchedApart
<1>5. \A p, q \in SmsPolls : Of(p, "watcher")' /\ Of(q, "watcher")' =>
         \A j \in DOMAIN smsPoll'[p].todo, k \in DOMAIN smsPoll'[q].todo :
           smsPoll'[p].todo[j] = smsPoll'[q].todo[k] => p = q /\ j = k
  BY <1>1 DEF WatchedApart
<1>6. /\ watchCursor' >= 0 => watchFile' = watchCursor'
      /\ \A p \in SmsPolls : Of(p, "watcher")' => watchCursor' >= 0
      /\ \A m \in Sms : told'["watcher"][m] # 2 /\ (told'["watcher"][m] = 1 => m <= watchFile')
  BY <1>1 DEF WatchedApart
<1>7. QED
  BY <1>3, <1>4, <1>5, <1>6 DEF WatchedApart

(* The loop over the alerts stops at a message it has just recorded.       *)
LEMMA StopsAtNewOne ==
    ASSUME SmsInBounds, NEW p \in SmsPolls, NEW todo \in Seq(Sms), NextDelivery(p, todo),
           smsPoll[p].reader = "delivery"
    PROVE  /\ smsPoll' \in [SmsPolls -> SmsPollRecords] /\ smsPoll'[p].reader = "delivery"
           /\ \A q \in SmsPolls \ {p} : smsPoll'[q] = smsPoll[q]
           /\ \/ smsPoll'[p].todo = << >> /\ deliveries' = deliveries
              \/ /\ smsPoll'[p].todo # << >> /\ NewDelivery(smsPoll'[p].todo[1])
                 /\ deliveries' = deliveries \cup {smsPoll'[p].todo[1]}
<1>1. PICK pass \in SUBSET Range(todo) :
        LET new == Keep(todo, {m \in pass : NewDelivery(m)})
        IN  IF new = <<>>
            THEN /\ smsPoll' = [smsPoll EXCEPT ![p] = NoSmsPoll]
                 /\ UNCHANGED deliveries
            ELSE /\ deliveries' = deliveries \cup {new[1]}
                 /\ smsPoll' = [smsPoll EXCEPT ![p].todo =
                      SubSeq(todo, CHOOSE k \in DOMAIN todo : todo[k] = new[1], Len(todo))]
  BY DEF NextDelivery
<1> DEFINE fresh == {m \in pass : NewDelivery(m)}
           new == Keep(todo, fresh)
           at == CHOOSE k \in DOMAIN todo : todo[k] = new[1]
           rest == SubSeq(todo, at, Len(todo))
<1>2. /\ new \in Seq(Sms) /\ \A k \in DOMAIN new : new[k] \in fresh
      /\ Range(new) = Range(todo) \cap fresh
  <2> HIDE DEF fresh
  <2>1. QED
    BY KeptOnce
<1>3. smsPoll[p] \in SmsPollRecords
  BY DEF SmsInBounds
<1>4. CASE new = << >>
  <2>1. smsPoll' = [smsPoll EXCEPT ![p] = NoSmsPoll] /\ deliveries' = deliveries
    BY <1>1, <1>4
  <2>2. NoSmsPoll \in SmsPollRecords /\ NoSmsPoll.reader = "delivery" /\ NoSmsPoll.todo = << >>
    BY DEF NoSmsPoll, SmsPollRecords, Readers
  <2>3. QED
    BY <2>1, <2>2 DEF SmsInBounds
<1>5. CASE new # << >>
  <2>1. deliveries' = deliveries \cup {new[1]} /\ smsPoll' = [smsPoll EXCEPT ![p].todo = rest]
    BY <1>1, <1>5
  <2> HIDE DEF new
  <2>2. 1 \in DOMAIN new
    BY <1>2, <1>5
  <2>3. new[1] \in Range(todo) /\ new[1] \in fresh
    BY <1>2, <2>2 DEF Range
  <2>4. \E k \in DOMAIN todo : todo[k] = new[1]
    BY <2>3 DEF Range
  <2>5. at \in DOMAIN todo /\ todo[at] = new[1]
    BY <2>4
  <2> HIDE DEF at
  <2>6. rest \in Seq(Sms) /\ rest # << >> /\ rest[1] = new[1]
    BY <2>5, RestFrom
  <2> HIDE DEF rest
  <2>7. NewDelivery(new[1])
    BY <2>3 DEF fresh
  <2>8. /\ smsPoll' \in [SmsPolls -> SmsPollRecords] /\ smsPoll'[p].reader = "delivery"
        /\ smsPoll'[p].todo = rest
        /\ \A q \in SmsPolls \ {p} : smsPoll'[q] = smsPoll[q]
    BY <1>3, <2>1, <2>6 DEF SmsInBounds, SmsPollRecords
  <2>9. QED
    BY <2>1, <2>6, <2>7, <2>8
<1>6. QED
  BY <1>4, <1>5

(* So recorded deliveries stay apart, if what was told meanwhile was one   *)
(* of them and is in no other poll's hands.                                *)
LEMMA RecordingKeepsApart ==
    ASSUME SmsInBounds, DeliveriesApart, NEW p \in SmsPolls, NEW todo \in Seq(Sms),
           NextDelivery(p, todo), smsPoll[p].reader = "delivery", filesLost' = filesLost,
           told' \in [Readers -> [Sms -> 0 .. 2]],
           "delivery" \notin filesLost =>
             /\ \A m \in Sms : /\ told'["delivery"][m] # 2
                               /\ told'["delivery"][m] = 1 => m \in deliveries
             /\ \A q \in SmsPolls \ {p} : Of(q, "delivery") =>
                  told'["delivery"][smsPoll[q].todo[1]] = 0
    PROVE  DeliveriesApart'
<1> SUFFICES ASSUME "delivery" \notin filesLost PROVE DeliveriesApart'
  BY DEF DeliveriesApart
<1> DEFINE head == smsPoll'[p].todo[1]
<1>1. /\ smsPoll' \in [SmsPolls -> SmsPollRecords] /\ smsPoll'[p].reader = "delivery"
      /\ \A q \in SmsPolls \ {p} : smsPoll'[q] = smsPoll[q]
      /\ \/ smsPoll'[p].todo = << >> /\ deliveries' = deliveries
         \/ /\ smsPoll'[p].todo # << >> /\ NewDelivery(head)
            /\ deliveries' = deliveries \cup {head}
  BY StopsAtNewOne
<1>2. \A q \in SmsPolls \ {p} : Of(q, "delivery")' <=> Of(q, "delivery")
  BY <1>1 DEF Of
<1>3. \A m, n \in deliveries : DeliveryOf[m] = DeliveryOf[n] => m = n
  BY DEF DeliveriesApart
<1>4. \A q \in SmsPolls : Of(q, "delivery") => smsPoll[q].todo[1] \in deliveries
  BY DEF DeliveriesApart
<1>5. \A q, r \in SmsPolls :
         Of(q, "delivery") /\ Of(r, "delivery") /\ smsPoll[q].todo[1] = smsPoll[r].todo[1] => q = r
  BY DEF DeliveriesApart
<1>6. CASE smsPoll'[p].todo = << >> /\ deliveries' = deliveries
  <2>1. ~ Of(p, "delivery")'
    BY <1>6 DEF Of
  <2>2. \A m \in Sms : told'["delivery"][m] # 2 /\ (told'["delivery"][m] = 1 => m \in deliveries')
    BY <1>6
  <2>3. \A q \in SmsPolls : Of(q, "delivery")' =>
          smsPoll'[q].todo[1] \in deliveries' /\ told'["delivery"][smsPoll'[q].todo[1]] = 0
    BY <1>1, <1>2, <1>4, <1>6, <2>1
  <2>4. \A q, r \in SmsPolls : Of(q, "delivery")' /\ Of(r, "delivery")' /\
          smsPoll'[q].todo[1] = smsPoll'[r].todo[1] => q = r
    BY <1>1, <1>2, <1>5, <2>1
  <2>5. QED
    BY <1>3, <1>6, <2>2, <2>3, <2>4 DEF DeliveriesApart
<1>7. CASE /\ smsPoll'[p].todo # << >> /\ NewDelivery(head)
           /\ deliveries' = deliveries \cup {head}
  <2>1. head \notin deliveries /\ \A n \in deliveries : DeliveryOf[n] # DeliveryOf[head]
    BY <1>7 DEF NewDelivery
  <2>2. head \in Sms
    BY <1>1, <1>7 DEF SmsPollRecords
  <2> HIDE DEF head
  <2>3. told'["delivery"][head] = 0
    BY <2>1, <2>2 DEF Readers
  <2>4. \A m, n \in deliveries' : DeliveryOf[m] = DeliveryOf[n] => m = n
    BY <1>3, <1>7, <2>1
  <2>5. \A m \in Sms : told'["delivery"][m] # 2 /\ (told'["delivery"][m] = 1 => m \in deliveries')
    BY <1>7
  <2>6. ASSUME NEW q \in SmsPolls, Of(q, "delivery")'
        PROVE  /\ smsPoll'[q].todo[1] \in deliveries' /\ told'["delivery"][smsPoll'[q].todo[1]] = 0
               /\ IF q = p THEN smsPoll'[q].todo[1] = head
                  ELSE Of(q, "delivery") /\ smsPoll'[q].todo[1] = smsPoll[q].todo[1]
                       /\ smsPoll'[q].todo[1] \in deliveries
    <3>1. CASE q = p
      BY <1>7, <2>3, <3>1 DEF head
    <3>2. CASE q # p
      BY <1>1, <1>2, <1>4, <1>7, <2>6, <3>2
    <3>3. QED
      BY <3>1, <3>2
  <2>7. \A q, r \in SmsPolls : Of(q, "delivery")' /\ Of(r, "delivery")' /\
          smsPoll'[q].todo[1] = smsPoll'[r].todo[1] => q = r
    BY <1>5, <2>1, <2>6
  <2>8. QED
    BY <2>4, <2>5, <2>6, <2>7 DEF DeliveriesApart
<1>8. QED
  BY <1>1, <1>6, <1>7

(* A poll of the watcher takes up only what lies beyond its file, and      *)
(* leaves nothing up to its new cursor but what counts as unlooked.        *)
LEMMA PollGoesOn ==
    ASSUME SmsInv, NEW p \in SmsPolls, smsPoll[p].todo = << >>,
           NEW cursor \in 0 .. LastSms, NEW known, PollFrom(p, cursor, known),
           SaveCursor(watchCursor'), UNCHANGED <<newestSms, deliveries, told>>,
           "watcher" \notin filesLost => known = watchFile /\ watchFile <= cursor
    PROVE  SmsInv'
<1>1. PICK pass \in SUBSET (Batch(cursor) \cap WatchedSms) :
        /\ watchCursor' = Onward(cursor)
        /\ smsPoll' = [smsPoll EXCEPT ![p] =
             [reader |-> IF pass = {} THEN "delivery" ELSE "watcher", todo |-> ByDate(pass)]]
        /\ unlooked' = unlooked \cup (1 .. watchCursor' \ (pass \cup 1 .. known))
  BY DEF PollFrom
<1> DEFINE new == [reader |-> IF pass = {} THEN "delivery" ELSE "watcher", todo |-> ByDate(pass)]
           s == ByDate(pass)
<1>2. /\ Batch(cursor) \in SUBSET Sms /\ \A m \in Batch(cursor) : cursor < m
      /\ IF Beyond(cursor) = {} THEN Onward(cursor) = cursor /\ Batch(cursor) = {}
         ELSE Onward(cursor) \in Batch(cursor) /\ \A m \in Batch(cursor) : m <= Onward(cursor)
  BY BatchIsBeyond DEF SmsInv, SmsInBounds
<1>3. /\ watchCursor' \in 0 .. LastSms /\ cursor <= watchCursor'
      /\ \A m \in pass : m \in Sms /\ cursor < m /\ m <= watchCursor'
  BY <1>1, <1>2, SmsAssumption DEF Sms
<1>4. /\ s \in Seq(Sms) /\ Range(s) = pass /\ \A k \in DOMAIN s : s[k] \in pass
      /\ \A j, k \in DOMAIN s : s[j] = s[k] => j = k
      /\ pass = {} <=> s = << >>
  BY <1>3, ByDateOnce
<1>5. new \in SmsPollRecords /\ new.todo = s /\ (new.reader = "watcher" <=> pass # {})
      /\ (new.reader = "delivery" <=> pass = {})
  BY <1>4 DEF SmsPollRecords, Readers
<1>6. smsPoll' = [smsPoll EXCEPT ![p] = new]
  BY <1>1
<1> HIDE DEF new, s
<1>7. /\ smsPoll' \in [SmsPolls -> SmsPollRecords] /\ smsPoll'[p] = new
      /\ \A q \in SmsPolls \ {p} : smsPoll'[q] = smsPoll[q]
  BY <1>5, <1>6 DEF SmsInv, SmsInBounds
<1>8. SmsInBounds'
  BY <1>3, <1>7, SmsAssumption DEF SmsInv, SmsInBounds, SaveCursor
<1>9. DeliveriesApart'
  <2>1. \A q \in SmsPolls : Of(q, "delivery")' =>
          Of(q, "delivery") /\ smsPoll'[q].todo = smsPoll[q].todo
    BY <1>4, <1>5, <1>7 DEF Of
  <2>2. "delivery" \in filesLost => "delivery" \in filesLost'
    BY DEF SaveCursor
  <2>3. QED
    BY <2>1, <2>2, DeliveriesKept DEF SmsInv
<1>10. WatchedApart'
  <2>1. SUFFICES ASSUME "watcher" \notin filesLost' PROVE WatchedApart'
    BY DEF WatchedApart
  <2>2. /\ "watcher" \notin filesLost /\ watchFile' = watchCursor'
        /\ known = watchFile /\ watchFile <= cursor /\ watchFile \in -1 .. LastSms
    BY <2>1 DEF SaveCursor, SmsInv, SmsInBounds
  <2>3. \A m \in Sms : /\ told["watcher"][m] # 2 /\ told["watcher"][m] \in 0 .. 2
                       /\ told["watcher"][m] = 1 => m <= watchFile
    BY <2>2 DEF WatchedApart, SmsInv, SmsInBounds, Readers
  <2>4. \A m \in pass : told["watcher"][m] = 0 /\ m <= watchFile' /\ ~ (m <= watchFile)
    BY <1>3, <2>2, <2>3 DEF Sms
  <2>5. ASSUME NEW q \in SmsPolls, Of(q, "watcher")', NEW k \in DOMAIN smsPoll'[q].todo
        PROVE  /\ smsPoll'[q].todo[k] <= watchFile' /\ told["watcher"][smsPoll'[q].todo[k]] = 0
               /\ q # p => /\ smsPoll'[q] = smsPoll[q] /\ Of(q, "watcher")
                           /\ smsPoll'[q].todo[k] <= watchFile
               /\ q = p => /\ smsPoll'[q].todo = s /\ s[k] \in pass
                           /\ ~ (smsPoll'[q].todo[k] <= watchFile)
    <3>1. CASE q = p
      BY <1>4, <1>5, <1>7, <2>4, <2>5, <3>1
    <3>2. CASE q # p
      <4>1. smsPoll'[q] = smsPoll[q] /\ Of(q, "watcher") /\ smsPoll[q] \in SmsPollRecords
        BY <1>7, <2>5, <3>2 DEF Of, SmsInv, SmsInBounds
      <4>2. /\ smsPoll[q].todo[k] <= watchFile /\ told["watcher"][smsPoll[q].todo[k]] = 0
            /\ smsPoll[q].todo[k] \in Sms
        BY <2>2, <2>5, <4>1 DEF WatchedApart, SmsInv, SmsPollRecords
      <4>3. smsPoll[q].todo[k] <= watchFile'
        BY <1>3, <2>2, <4>2 DEF Sms
      <4>4. QED
        BY <3>2, <4>1, <4>2, <4>3
    <3>3. QED
      BY <3>1, <3>2
  <2>6. ASSUME NEW q \in SmsPolls, NEW r \in SmsPolls, Of(q, "watcher")', Of(r, "watcher")',
               NEW j \in DOMAIN smsPoll'[q].todo, NEW k \in DOMAIN smsPoll'[r].todo,
               smsPoll'[q].todo[j] = smsPoll'[r].todo[k]
        PROVE  q = r /\ j = k
    <3>1. CASE q = p /\ r = p
      <4>1. smsPoll'[q].todo = s /\ smsPoll'[r].todo = s
        BY <2>5, <2>6, <3>1
      <4>2. QED
        BY <1>4, <2>6, <3>1, <4>1
    <3>2. CASE (q = p /\ r # p) \/ (q # p /\ r = p)
      BY <2>5, <2>6, <3>2
    <3>3. CASE q # p /\ r # p
      <4>1. smsPoll'[q] = smsPoll[q] /\ smsPoll'[r] = smsPoll[r]
            /\ Of(q, "watcher") /\ Of(r, "watcher")
        BY <2>5, <2>6, <3>3
      <4>2. QED
        BY <2>2, <2>6, <4>1 DEF WatchedApart, SmsInv
    <3>4. QED
      BY <3>1, <3>2, <3>3
  <2>7. ASSUME NEW m \in WatchedSms \ unlooked', m <= watchFile'
        PROVE  told["watcher"][m] = 1 \/ SmsInHand("watcher", m)'
    <3>1. m \in 1 .. watchCursor' /\ m \in WatchedSms \ unlooked
      BY <1>1, <1>3, <2>2, <2>7, SmsAssumption DEF Sms
    <3>2. m \in pass \/ m <= watchFile
      BY <1>1, <2>2, <2>7, <3>1
    <3>3. CASE m \in pass
      <4>1. smsPoll'[p].reader = "watcher" /\ m \in Range(smsPoll'[p].todo)
        BY <1>4, <1>5, <1>7, <3>3
      <4>2. QED
        BY <4>1 DEF SmsInHand
    <3>4. CASE m <= watchFile
      <4>1. told["watcher"][m] = 1 \/ SmsInHand("watcher", m)
        BY <2>2, <3>1, <3>4 DEF WatchedApart, SmsInv
      <4>2. ASSUME NEW q \in SmsPolls, smsPoll[q].reader = "watcher", m \in Range(smsPoll[q].todo)
            PROVE  SmsInHand("watcher", m)'
        <5>1. q # p
          BY <4>2 DEF Range
        <5>2. QED
          BY <1>7, <4>2, <5>1 DEF SmsInHand
      <4>3. QED
        BY <4>1, <4>2 DEF SmsInHand
    <3>5. QED
      BY <3>2, <3>3, <3>4
  <2>8. /\ watchCursor' >= 0 /\ watchFile' = watchCursor'
        /\ \A m \in Sms : told["watcher"][m] # 2 /\ (told["watcher"][m] = 1 => m <= watchFile')
    BY <1>3, <2>2, <2>3 DEF Sms
  <2>9. told' = told
    OBVIOUS
  <2>10. \A q, r \in SmsPolls : Of(q, "watcher")' /\ Of(r, "watcher")' =>
           \A j \in DOMAIN smsPoll'[q].todo, k \in DOMAIN smsPoll'[r].todo :
             smsPoll'[q].todo[j] = smsPoll'[r].todo[k] => q = r /\ j = k
    BY <2>6
  <2>11. \A q \in SmsPolls : Of(q, "watcher")' => \A k \in DOMAIN smsPoll'[q].todo :
           smsPoll'[q].todo[k] <= watchFile' /\ told'["watcher"][smsPoll'[q].todo[k]] = 0
    BY <2>5, <2>9
  <2>12. QED
    BY <2>7, <2>8, <2>9, <2>10, <2>11 DEF WatchedApart
<1>11. QED
  BY <1>8, <1>9, <1>10 DEF SmsInv

LEMMA SmsInvInit == SmsInit => SmsInv
<1> SUFFICES ASSUME SmsInit PROVE SmsInv
  OBVIOUS
<1>1. NoSmsPoll \in SmsPollRecords /\ NoSmsPoll.todo = << >>
  BY DEF NoSmsPoll, SmsPollRecords, Readers
<1>2. \A p \in SmsPolls : smsPoll[p] = NoSmsPoll
  BY DEF SmsInit
<1>3. \A p \in SmsPolls, r \in Readers : ~ Of(p, r)
  BY <1>1, <1>2 DEF Of
<1>4. SmsInBounds
  BY <1>1, SmsAssumption DEF SmsInit, SmsInBounds
<1>5. \A r \in Readers, m \in Sms : told[r][m] = 0
  BY DEF SmsInit
<1>6. DeliveriesApart
  BY <1>3, <1>5 DEF SmsInit, DeliveriesApart, Readers
<1>7. WatchedApart
  <2>1. watchFile = 0 /\ watchCursor = -1 /\ \A m \in WatchedSms : ~ (m <= watchFile)
    BY SmsAssumption DEF SmsInit, Sms
  <2>2. \A p \in SmsPolls : ~ Of(p, "watcher")
    BY <1>3 DEF Readers
  <2>3. \A m \in Sms : told["watcher"][m] = 0
    BY <1>5 DEF Readers
  <2>4. ~ (watchCursor >= 0)
    BY <2>1
  <2>5. QED
    BY <2>1, <2>2, <2>3, <2>4 DEF WatchedApart
<1>8. QED
  BY <1>4, <1>6, <1>7 DEF SmsInv

LEMMA SmsInvStep == SmsInv /\ [SmsNext]_smsVars => SmsInv'
<1> SUFFICES ASSUME SmsInv, [SmsNext]_smsVars PROVE SmsInv'
  OBVIOUS
<1>0. SmsInBounds /\ DeliveriesApart /\ WatchedApart
  BY DEF SmsInv
<1>1. ASSUME NEW p \in SmsPolls, CheckForDeliveries(p) PROVE SmsInv'
  <2> DEFINE todo == ByDate(Batch(deliveryCursor))
  <2>1. /\ smsPoll[p] = NoSmsPoll /\ NextDelivery(p, todo)
        /\ UNCHANGED <<newestSms, watchCursor, watchFile, told, filesLost, unlooked>>
    BY <1>1 DEF CheckForDeliveries
  <2>2. Batch(deliveryCursor) \in SUBSET Sms
    BY DEF Batch, Beyond
  <2>3. todo \in Seq(Sms)
    BY <2>2, ByDateOnce
  <2> HIDE DEF todo
  <2>4. smsPoll[p].reader = "delivery" /\ smsPoll[p].todo = << >>
    BY <2>1 DEF NoSmsPoll
  <2>5. /\ smsPoll' \in [SmsPolls -> SmsPollRecords] /\ smsPoll'[p].reader = "delivery"
        /\ \A q \in SmsPolls \ {p} : smsPoll'[q] = smsPoll[q]
    BY <1>0, <2>1, <2>3, <2>4, StopsAtNewOne
  <2>6. "delivery" \notin filesLost =>
          /\ \A m \in Sms : told'["delivery"][m] # 2 /\ (told'["delivery"][m] = 1 => m \in deliveries)
          /\ \A q \in SmsPolls \ {p} : Of(q, "delivery") => told'["delivery"][smsPoll[q].todo[1]] = 0
    BY <1>0, <2>1 DEF DeliveriesApart
  <2>7. told' \in [Readers -> [Sms -> 0 .. 2]]
    BY <1>0, <2>1 DEF SmsInBounds
  <2>8. DeliveriesApart'
    BY <1>0, <2>1, <2>3, <2>4, <2>6, <2>7, RecordingKeepsApart
  <2>9. WatchedApart'
    <3>1. \A q \in SmsPolls : Of(q, "watcher")' <=> Of(q, "watcher")
      BY <2>4, <2>5 DEF Of
    <3>2. \A q \in SmsPolls : Of(q, "watcher") => smsPoll'[q] = smsPoll[q]
      BY <2>4, <2>5 DEF Of
    <3>3. QED
      BY <1>0, <2>1, <3>1, <3>2, WatchedKept
  <2>10. SmsInBounds'
    BY <1>0, <2>1, <2>5 DEF SmsInBounds
  <2>11. QED
    BY <2>8, <2>9, <2>10 DEF SmsInv
<1>2. ASSUME NEW p \in SmsPolls, DeliveryTold(p) PROVE SmsInv'
  <2> DEFINE m == smsPoll[p].todo[1]
             todo == Tail(smsPoll[p].todo)
  <2>1. /\ smsPoll[p].reader = "delivery" /\ smsPoll[p].todo # << >>
        /\ told' = [told EXCEPT !["delivery"][m] = IF @ < 2 THEN @ + 1 ELSE @]
        /\ NextDelivery(p, todo)
        /\ UNCHANGED <<newestSms, watchCursor, watchFile, filesLost, unlooked>>
    BY <1>2 DEF DeliveryTold, Tell
  <2>2. smsPoll[p].todo \in Seq(Sms)
    BY <1>0 DEF SmsInBounds, SmsPollRecords
  <2>3. todo \in Seq(Sms) /\ m \in Sms
    BY <2>1, <2>2, TailOf
  <2> HIDE DEF todo, m
  <2>4. /\ told' \in [Readers -> [Sms -> 0 .. 2]] /\ told'["watcher"] = told["watcher"]
        /\ \A n \in Sms \ {m} : told'["delivery"][n] = told["delivery"][n]
        /\ told["delivery"][m] = 0 => told'["delivery"][m] = 1
    BY <1>0, <2>1, <2>3 DEF SmsInBounds, Readers
  <2>5. /\ smsPoll' \in [SmsPolls -> SmsPollRecords] /\ smsPoll'[p].reader = "delivery"
        /\ \A q \in SmsPolls \ {p} : smsPoll'[q] = smsPoll[q]
    BY <1>0, <2>1, <2>3, StopsAtNewOne
  <2>6. ASSUME "delivery" \notin filesLost
        PROVE  /\ \A n \in Sms : told'["delivery"][n] # 2 /\ (told'["delivery"][n] = 1 => n \in deliveries)
               /\ \A q \in SmsPolls \ {p} : Of(q, "delivery") => told'["delivery"][smsPoll[q].todo[1]] = 0
    <3>1. Of(p, "delivery")
      BY <2>1 DEF Of
    <3>2. m \in deliveries /\ told["delivery"][m] = 0
      BY <1>0, <2>6, <3>1 DEF DeliveriesApart, m
    <3>3. ASSUME NEW n \in Sms
          PROVE  told'["delivery"][n] # 2 /\ (told'["delivery"][n] = 1 => n \in deliveries)
      <4>1. CASE n = m
        BY <2>4, <3>2, <4>1
      <4>2. CASE n # m
        BY <1>0, <2>4, <2>6, <4>2 DEF DeliveriesApart
      <4>3. QED
        BY <4>1, <4>2
    <3>4. ASSUME NEW q \in SmsPolls \ {p}, Of(q, "delivery")
          PROVE  told'["delivery"][smsPoll[q].todo[1]] = 0
      <4>1. smsPoll[q].todo[1] \in Sms
        BY <1>0, <3>4 DEF Of, SmsInBounds, SmsPollRecords
      <4>2. smsPoll[q].todo[1] # m
        BY <1>0, <2>6, <3>1, <3>4 DEF DeliveriesApart, m
      <4>3. told["delivery"][smsPoll[q].todo[1]] = 0
        BY <1>0, <2>6, <3>4 DEF DeliveriesApart
      <4>4. QED
        BY <2>4, <4>1, <4>2, <4>3
    <3>5. QED
      BY <3>3, <3>4
  <2>7. DeliveriesApart'
    BY <1>0, <2>1, <2>3, <2>4, <2>6, RecordingKeepsApart
  <2>8. WatchedApart'
    <3>1. \A q \in SmsPolls : Of(q, "watcher")' <=> Of(q, "watcher")
      BY <2>1, <2>5 DEF Of
    <3>2. \A q \in SmsPolls : Of(q, "watcher") => smsPoll'[q] = smsPoll[q]
      BY <2>1, <2>5 DEF Of
    <3>3. QED
      BY <1>0, <2>1, <2>4, <3>1, <3>2, WatchedKept
  <2>9. SmsInBounds'
    BY <1>0, <2>1, <2>4, <2>5 DEF SmsInBounds
  <2>10. QED
    BY <2>7, <2>8, <2>9 DEF SmsInv
<1>3. ASSUME NEW p \in SmsPolls, WatcherPolls(p) PROVE SmsInv'
  <2>1. /\ smsPoll[p].todo = << >> /\ watchCursor \in 0 .. LastSms
        /\ PollFrom(p, watchCursor, watchCursor) /\ SaveCursor(watchCursor')
        /\ UNCHANGED <<newestSms, deliveries, told>>
    BY <1>0, <1>3, SmsAssumption DEF WatcherPolls, SmsInBounds
  <2>2. "watcher" \notin filesLost => watchCursor = watchFile /\ watchFile <= watchCursor
    BY <1>0, <2>1 DEF WatchedApart
  <2>3. QED
    BY <2>1, <2>2, PollGoesOn
<1>4. ASSUME NEW p \in SmsPolls, ConnectionOpens(p) PROVE SmsInv'
  <2>1. CASE watchCursor >= 0
    <3>1. UNCHANGED <<newestSms, deliveries, told, watchCursor, watchFile, smsPoll, filesLost, unlooked>>
      BY <1>4, <2>1 DEF ConnectionOpens
    <3>2. SmsInBounds'
      BY <1>0, <3>1 DEF SmsInBounds
    <3>3. \A q \in SmsPolls : smsPoll'[q] = smsPoll[q] /\ (Of(q, "watcher")' <=> Of(q, "watcher"))
                             /\ (Of(q, "delivery")' <=> Of(q, "delivery"))
      BY <3>1 DEF Of
    <3>4. DeliveriesApart'
      BY <1>0, <3>1, <3>3, DeliveriesKept
    <3>5. WatchedApart'
      BY <1>0, <3>1, <3>3, WatchedKept
    <3>6. QED
      BY <3>2, <3>4, <3>5 DEF SmsInv
  <2>2. CASE ~ (watchCursor >= 0)
    <3>1. PICK start \in IF watchFile > 0 THEN {watchFile} ELSE {0, newestSms} :
            PollFrom(p, start, watchFile) /\ SaveCursor(watchCursor')
      BY <1>4, <2>2 DEF ConnectionOpens
    <3>2. start \in 0 .. LastSms /\ watchFile <= start
      BY <1>0, <3>1, SmsAssumption DEF SmsInBounds
    <3>3. smsPoll[p].todo = << >> /\ UNCHANGED <<newestSms, deliveries, told>>
      BY <1>4 DEF ConnectionOpens
    <3>4. QED
      BY <3>1, <3>2, <3>3, PollGoesOn
  <2>3. QED
    BY <2>1, <2>2
<1>5. ASSUME NEW p \in SmsPolls, WatchedTold(p) PROVE SmsInv'
  <2> DEFINE s == smsPoll[p].todo
             m == s[1]
             x == [reader |-> IF Len(s) = 1 THEN "delivery" ELSE "watcher", todo |-> Tail(s)]
  <2>1. /\ smsPoll[p].reader = "watcher" /\ s # << >>
        /\ told' = [told EXCEPT !["watcher"][m] = IF @ < 2 THEN @ + 1 ELSE @]
        /\ smsPoll' = [smsPoll EXCEPT ![p] = x]
        /\ SaveCursor(watchCursor) \/ UNCHANGED <<watchFile, filesLost>>
        /\ UNCHANGED <<newestSms, deliveryCursor, deliveries, watchCursor, smsFaults, unlooked>>
    BY <1>5 DEF WatchedTold, Tell
  <2>2. smsPoll[p] \in SmsPollRecords /\ s \in Seq(Sms)
    BY <1>0 DEF SmsInBounds, SmsPollRecords
  <2>3. /\ smsPoll' \in [SmsPolls -> SmsPollRecords] /\ smsPoll'[p].todo = Tail(s)
        /\ Tail(s) # << >> => smsPoll'[p].reader = "watcher"
        /\ Tail(s) = << >> => smsPoll'[p].reader = "delivery"
        /\ \A q \in SmsPolls \ {p} : smsPoll'[q] = smsPoll[q]
    <3>1. x \in SmsPollRecords
      BY <2>1, <2>2 DEF SmsPollRecords, Readers
    <3>2. smsPoll' = [smsPoll EXCEPT ![p] = x]
      BY <2>1
    <3>3. /\ x.todo = Tail(s) /\ (Len(s) = 1 => x.reader = "delivery")
          /\ (Len(s) # 1 => x.reader = "watcher")
      OBVIOUS
    <3> HIDE DEF s, x
    <3>4. Tail(s) = << >> <=> Len(s) = 1
      <4>1. s \in Seq(Sms) /\ s # << >>
        BY <2>1, <2>2
      <4>2. Len(s) \in Nat \ {0} /\ Tail(s) \in Seq(Sms) /\ Len(Tail(s)) = Len(s) - 1
        BY <4>1
      <4>3. Tail(s) = << >> <=> Len(Tail(s)) = 0
        BY <4>2
      <4>4. QED
        BY <4>2, <4>3
    <3>5. QED
      BY <1>0, <3>1, <3>2, <3>3, <3>4 DEF SmsInBounds
  <2>4. /\ Tail(s) \in Seq(Sms) /\ m \in Sms /\ 1 \in DOMAIN s
        /\ \A k \in DOMAIN Tail(s) : k + 1 \in DOMAIN s /\ Tail(s)[k] = s[k + 1]
        /\ \A j, k \in DOMAIN Tail(s) : j + 1 = k + 1 => j = k
        /\ Range(s) = {m} \cup Range(Tail(s))
        /\ \A k \in DOMAIN Tail(s) : k \in Nat \ {0} /\ k + 1 # 1
    <3>1. \A k \in DOMAIN Tail(s) : k \in Nat \ {0} /\ k + 1 # 1
      BY <2>1, <2>2
    <3> HIDE DEF s
    <3>2. QED
      BY <2>1, <2>2, <3>1, TailOf
  <2>5. Of(p, "watcher")
    BY <2>1 DEF Of
  <2> HIDE DEF m, x
  <2>6. /\ told' \in [Readers -> [Sms -> 0 .. 2]] /\ told'["delivery"] = told["delivery"]
        /\ \A n \in Sms \ {m} : told'["watcher"][n] = told["watcher"][n]
        /\ told["watcher"][m] = 0 => told'["watcher"][m] = 1
    BY <1>0, <2>1, <2>4 DEF SmsInBounds, Readers
  <2>7. SmsInBounds'
    BY <1>0, <2>1, <2>3, <2>6, SmsAssumption DEF SmsInBounds, SaveCursor
  <2>8. DeliveriesApart'
    <3>1. \A q \in SmsPolls : Of(q, "delivery")' =>
            Of(q, "delivery") /\ smsPoll'[q].todo = smsPoll[q].todo
      BY <2>3 DEF Of
    <3>2. "delivery" \in filesLost => "delivery" \in filesLost'
      BY <2>1 DEF SaveCursor
    <3>3. deliveries' = deliveries
      BY <2>1
    <3>4. QED
      BY <1>0, <2>6, <3>1, <3>2, <3>3, DeliveriesKept
  <2>9. WatchedApart'
    <3>1. SUFFICES ASSUME "watcher" \notin filesLost' PROVE WatchedApart'
      BY DEF WatchedApart
    <3>2. /\ "watcher" \notin filesLost /\ unlooked' = unlooked /\ watchCursor' = watchCursor
          /\ watchCursor >= 0 /\ watchFile = watchCursor
      BY <1>0, <2>1, <2>5, <3>1 DEF SaveCursor, WatchedApart
    <3>3. watchFile' = watchFile \/ watchFile' = watchCursor
      BY <2>1, <3>1 DEF SaveCursor
    <3>4. watchFile' = watchFile
      BY <3>2, <3>3
    <3>5. told["watcher"][m] = 0 /\ m <= watchFile
      BY <1>0, <2>4, <2>5, <3>2 DEF WatchedApart, m
    <3>6. \A n \in Sms : told'["watcher"][n] # 2 /\ (told'["watcher"][n] = 1 => n <= watchFile)
      <4>1. ASSUME NEW n \in Sms
            PROVE  told'["watcher"][n] # 2 /\ (told'["watcher"][n] = 1 => n <= watchFile)
        <5>1. CASE n = m
          BY <2>6, <3>5, <5>1
        <5>2. CASE n # m
          BY <1>0, <2>6, <3>2, <5>2 DEF WatchedApart
        <5>3. QED
          BY <5>1, <5>2
      <4>2. QED
        BY <4>1
    <3>7. ASSUME NEW q \in SmsPolls, Of(q, "watcher")', NEW k \in DOMAIN smsPoll'[q].todo
          PROVE  /\ smsPoll'[q].todo[k] <= watchFile /\ told'["watcher"][smsPoll'[q].todo[k]] = 0
                 /\ q # p => smsPoll'[q] = smsPoll[q] /\ Of(q, "watcher")
                 /\ q = p => k + 1 \in DOMAIN s /\ smsPoll'[q].todo[k] = s[k + 1]
      <4>1. CASE q = p
        <5>1. k + 1 \in DOMAIN s /\ smsPoll'[q].todo[k] = s[k + 1] /\ k + 1 # 1
          BY <2>3, <2>4, <3>7, <4>1
        <5>2. s[k + 1] <= watchFile /\ told["watcher"][s[k + 1]] = 0 /\ s[k + 1] # m
          BY <1>0, <2>4, <2>5, <3>2, <5>1 DEF WatchedApart, m
        <5>3. s[k + 1] \in Sms
          BY <2>2, <5>1
        <5>4. QED
          BY <2>6, <4>1, <5>1, <5>2, <5>3
      <4>2. CASE q # p
        <5>1. smsPoll'[q] = smsPoll[q] /\ Of(q, "watcher") /\ smsPoll[q].todo[k] \in Sms
          BY <2>3, <2>7, <3>7, <4>2 DEF Of, SmsInBounds, SmsPollRecords
        <5>2. /\ smsPoll[q].todo[k] <= watchFile /\ told["watcher"][smsPoll[q].todo[k]] = 0
              /\ smsPoll[q].todo[k] # m
          BY <1>0, <2>4, <2>5, <3>2, <3>7, <4>2, <5>1 DEF WatchedApart, m
        <5>3. QED
          BY <2>6, <4>2, <5>1, <5>2
      <4>3. QED
        BY <4>1, <4>2
    <3>8. ASSUME NEW q \in SmsPolls, NEW r \in SmsPolls, Of(q, "watcher")', Of(r, "watcher")',
                 NEW j \in DOMAIN smsPoll'[q].todo, NEW k \in DOMAIN smsPoll'[r].todo,
                 smsPoll'[q].todo[j] = smsPoll'[r].todo[k]
          PROVE  q = r /\ j = k
      <4>1. CASE q = p /\ r = p
        <5>1. j + 1 \in DOMAIN s /\ k + 1 \in DOMAIN s /\ s[j + 1] = s[k + 1]
          BY <3>7, <3>8, <4>1
        <5>2. j + 1 = k + 1
          BY <1>0, <2>5, <3>2, <5>1 DEF WatchedApart
        <5>3. QED
          BY <2>3, <2>4, <4>1, <5>2
      <4>2. CASE q = p /\ r # p
        <5>1. j + 1 \in DOMAIN s /\ smsPoll[r].todo[k] = s[j + 1] /\ k \in DOMAIN smsPoll[r].todo
              /\ Of(r, "watcher")
          BY <3>7, <3>8, <4>2
        <5>2. QED
          BY <1>0, <2>5, <3>2, <4>2, <5>1 DEF WatchedApart
      <4>3. CASE q # p /\ r = p
        <5>1. k + 1 \in DOMAIN s /\ smsPoll[q].todo[j] = s[k + 1] /\ j \in DOMAIN smsPoll[q].todo
              /\ Of(q, "watcher")
          BY <3>7, <3>8, <4>3
        <5>2. QED
          BY <1>0, <2>5, <3>2, <4>3, <5>1 DEF WatchedApart
      <4>4. CASE q # p /\ r # p
        <5>1. smsPoll'[q] = smsPoll[q] /\ smsPoll'[r] = smsPoll[r]
              /\ Of(q, "watcher") /\ Of(r, "watcher")
          BY <3>7, <3>8, <4>4
        <5>2. QED
          BY <1>0, <3>2, <3>8, <5>1 DEF WatchedApart
      <4>5. QED
        BY <4>1, <4>2, <4>3, <4>4
    <3>9. ASSUME NEW n \in WatchedSms \ unlooked, n <= watchFile
          PROVE  told'["watcher"][n] = 1 \/ SmsInHand("watcher", n)'
      <4>1. n \in Sms /\ (told["watcher"][n] = 1 \/ SmsInHand("watcher", n))
        BY <1>0, <3>2, <3>9, SmsAssumption DEF WatchedApart
      <4>2. CASE n = m
        BY <2>6, <3>5, <4>2
      <4>3. CASE n # m
        <5>1. ASSUME NEW q \in SmsPolls, smsPoll[q].reader = "watcher", n \in Range(smsPoll[q].todo)
              PROVE  SmsInHand("watcher", n)'
          <6>1. CASE q = p
            <7>1. n \in Range(Tail(s))
              BY <2>4, <4>3, <5>1, <6>1
            <7>2. Tail(s) # << >>
              BY <7>1 DEF Range
            <7>3. QED
              BY <2>3, <7>1, <7>2 DEF SmsInHand
          <6>2. CASE q # p
            BY <2>3, <5>1, <6>2 DEF SmsInHand
          <6>3. QED
            BY <6>1, <6>2
        <5>2. QED
          BY <2>6, <4>1, <4>3, <5>1 DEF SmsInHand
      <4>4. QED
        BY <4>2, <4>3
    <3>10. /\ watchCursor' >= 0 /\ watchFile' = watchCursor'
           /\ \A n \in Sms : told'["watcher"][n] # 2 /\ (told'["watcher"][n] = 1 => n <= watchFile')
      BY <3>2, <3>4, <3>6
    <3>11. \A q \in SmsPolls : Of(q, "watcher")' => \A k \in DOMAIN smsPoll'[q].todo :
             smsPoll'[q].todo[k] <= watchFile' /\ told'["watcher"][smsPoll'[q].todo[k]] = 0
      BY <3>4, <3>7
    <3>12. \A q, r \in SmsPolls : Of(q, "watcher")' /\ Of(r, "watcher")' =>
             \A j \in DOMAIN smsPoll'[q].todo, k \in DOMAIN smsPoll'[r].todo :
               smsPoll'[q].todo[j] = smsPoll'[r].todo[k] => q = r /\ j = k
      BY <3>8
    <3>13. \A n \in WatchedSms \ unlooked' :
             n <= watchFile' => told'["watcher"][n] = 1 \/ SmsInHand("watcher", n)'
      BY <3>2, <3>4, <3>9
    <3>14. QED
      BY <3>10, <3>11, <3>12, <3>13 DEF WatchedApart
  <2>10. QED
    BY <2>7, <2>8, <2>9 DEF SmsInv
<1>6. CASE SmsRestart
  <2>1. /\ watchCursor' = -1 /\ smsPoll' = [p \in SmsPolls |-> NoSmsPoll]
        /\ unlooked' = unlooked \cup UNION {Range(smsPoll[p].todo) : p \in SmsPolls}
        /\ \/ UNCHANGED <<watchFile, deliveries, filesLost>>
           \/ /\ watchFile' = 0 /\ filesLost' = filesLost \cup {"watcher"}
              /\ UNCHANGED deliveries
           \/ /\ deliveries' = {} /\ filesLost' = filesLost \cup {"delivery"}
              /\ UNCHANGED watchFile
        /\ UNCHANGED <<newestSms, told>>
    BY <1>6 DEF SmsRestart
  <2>2. NoSmsPoll \in SmsPollRecords /\ NoSmsPoll.todo = << >>
    BY DEF NoSmsPoll, SmsPollRecords, Readers
  <2>3. \A p \in SmsPolls : ~ Of(p, "delivery")' /\ ~ Of(p, "watcher")'
    BY <2>1, <2>2 DEF Of
  <2>4. SmsInBounds'
    BY <1>0, <2>1, <2>2, SmsAssumption DEF SmsInBounds
  <2>5. DeliveriesApart'
    <3>1. CASE "delivery" \in filesLost'
      BY <3>1 DEF DeliveriesApart
    <3>2. CASE "delivery" \notin filesLost'
      <4>1. "delivery" \notin filesLost /\ deliveries' = deliveries /\ told' = told
        BY <2>1, <3>2
      <4>2. QED
        BY <1>0, <2>3, <4>1 DEF DeliveriesApart
    <3>3. QED
      BY <3>1, <3>2
  <2>6. WatchedApart'
    <3>1. CASE "watcher" \in filesLost'
      BY <3>1 DEF WatchedApart
    <3>2. CASE "watcher" \notin filesLost'
      <4>1. "watcher" \notin filesLost /\ watchFile' = watchFile /\ told' = told
        BY <2>1, <3>2
      <4>2. \A n \in WatchedSms \ unlooked' : n <= watchFile => told["watcher"][n] = 1
        BY <1>0, <2>1, <4>1 DEF WatchedApart, SmsInHand
      <4>3. \A m \in Sms : told["watcher"][m] # 2 /\ (told["watcher"][m] = 1 => m <= watchFile)
        BY <1>0, <4>1 DEF WatchedApart
      <4>4. ~ (watchCursor' >= 0)
        BY <2>1
      <4>5. QED
        BY <2>3, <4>1, <4>2, <4>3, <4>4 DEF WatchedApart
    <3>3. QED
      BY <3>1, <3>2
  <2>7. QED
    BY <2>4, <2>5, <2>6 DEF SmsInv
<1>7. CASE SmsArrives \/ UNCHANGED smsVars
  <2>1. /\ UNCHANGED <<deliveries, told, watchCursor, watchFile, smsPoll, filesLost, unlooked>>
        /\ newestSms' \in 0 .. LastSms
    BY <1>0, <1>7, SmsAssumption DEF SmsArrives, smsVars, SmsInBounds
  <2>2. SmsInBounds'
    BY <1>0, <2>1 DEF SmsInBounds
  <2>3. \A q \in SmsPolls : smsPoll'[q] = smsPoll[q] /\ (Of(q, "watcher")' <=> Of(q, "watcher"))
                           /\ (Of(q, "delivery")' <=> Of(q, "delivery"))
    BY <2>1 DEF Of
  <2>4. DeliveriesApart'
    BY <1>0, <2>1, <2>3, DeliveriesKept
  <2>5. WatchedApart'
    BY <1>0, <2>1, <2>3, WatchedKept
  <2>6. QED
    BY <2>2, <2>4, <2>5 DEF SmsInv
<1>8. QED
  BY <1>1, <1>2, <1>3, <1>4, <1>5, <1>6, <1>7 DEF SmsNext

(***************************************************************************)
(* sms/delivery-poller.ts and sms-watcher.ts tell of a delivery once and   *)
(* of a watched message once, and pass none over, however their polls      *)
(* overlap and however often the connection opens, unless the file that    *)
(* remembers it was torn or not written.                                   *)
(***************************************************************************)
THEOREM MessagesToldOnce == SmsSpec => []SmsToldOnce
<1>1. SmsInit => SmsInv
  BY SmsInvInit
<1>2. SmsInv /\ [SmsNext]_smsVars => SmsInv'
  BY SmsInvStep
<1>3. SmsInv => SmsToldOnce
  <2> SUFFICES ASSUME SmsInv PROVE SmsToldOnce
    OBVIOUS
  <2>1. \A r \in Readers, m \in Sms : told[r][m] \in 0 .. 2
    BY DEF SmsInv, SmsInBounds
  <2>2. DeliveriesToldOnce
    <3>1. ASSUME "delivery" \notin filesLost, NEW m \in Sms, told["delivery"][m] > 0
          PROVE  told["delivery"][m] = 1 /\ m \in deliveries
      BY <2>1, <3>1 DEF SmsInv, DeliveriesApart, Readers
    <3>2. QED
      BY <3>1 DEF SmsInv, DeliveriesApart, DeliveriesToldOnce
  <2>3. WatchedToldOnce
    <3>1. SUFFICES ASSUME "watcher" \notin filesLost, NEW m \in WatchedSms
          PROVE  /\ told["watcher"][m] < 2
                 /\ m <= watchCursor /\ m \notin unlooked =>
                      told["watcher"][m] = 1 \/ SmsInHand("watcher", m)
      BY DEF WatchedToldOnce
    <3>2. m \in Sms /\ told["watcher"][m] < 2
      BY <2>1, <3>1, SmsAssumption DEF SmsInv, WatchedApart, Readers
    <3>3. m <= watchCursor => watchCursor >= 0
      BY <3>2, SmsAssumption DEF SmsInv, SmsInBounds, Sms
    <3>4. QED
      BY <3>1, <3>2, <3>3 DEF SmsInv, WatchedApart
  <2>4. QED
    BY <2>2, <2>3 DEF SmsToldOnce
<1>4. QED
  BY <1>1, <1>2, <1>3, PTL DEF SmsSpec

-----------------------------------------------------------------------------
(* The email poller *)

PollRecords ==
  [at : {"idle", "baseline", "fetching", "sending", "contracts", "flushing"},
   base : Nat, since : 0 .. LastEmail, todo : Seq(Emails), own : Seq(Orders), live : BOOLEAN]

Recorded(o) == \E e \in emailOrders : OrderOf[e] = o
SentFromQueue(k) == \E p \in EmailPolls : poll[p].at = "flushing" /\ k <= poll[p].base

EmailInBounds ==
  /\ mailbox \in 0 .. LastEmail /\ emailCursor \in Nat /\ emailOrders \subseteq Emails
  /\ quietQueue \in Seq(Orders)
  /\ poll \in [EmailPolls -> PollRecords]
  /\ heard \in [Orders -> 0 .. 2]

NoRepeats ==
  \A p \in EmailPolls : \A j, k \in DOMAIN poll[p].todo :
    poll[p].todo[j] = poll[p].todo[k] => j = k

PollsInOrder ==
  \A p \in EmailPolls :
    /\ poll[p].live <=> poll[p].at = "flushing"
    /\ IF poll[p].at = "sending" THEN Len(poll[p].own) = 1 ELSE poll[p].own = <<>>

OneFlush ==
  \A p \in EmailPolls : poll[p].at = "flushing" =>
    /\ poll[p].base < Len(quietQueue)
    /\ \A q \in EmailPolls : poll[q].at = "flushing" => q = p

QueueToCome ==
  /\ \A k \in DOMAIN quietQueue : quietQueue[k] \notin emailLost =>
       /\ Recorded(quietQueue[k])
       /\ heard[quietQueue[k]] = IF SentFromQueue(k) THEN 1 ELSE 0
  /\ \A j, k \in DOMAIN quietQueue :
       quietQueue[j] = quietQueue[k] /\ quietQueue[j] \notin emailLost => j = k

SendsToCome ==
  \A p \in EmailPolls : poll[p].at = "sending" /\ poll[p].own[1] \notin emailLost =>
    /\ Recorded(poll[p].own[1]) /\ heard[poll[p].own[1]] = 0
    /\ poll[p].own[1] \notin Range(quietQueue)
    /\ \A q \in EmailPolls : poll[q].at = "sending" /\ poll[q].own[1] = poll[p].own[1] => q = p

HeardAreRecorded ==
  \A o \in Orders \ emailLost :
    /\ heard[o] # 2 /\ (heard[o] = 1 => Recorded(o))
    /\ Recorded(o) => heard[o] = 1 \/ OnItsWay(o)

EmailInv ==
  /\ EmailInBounds /\ NoRepeats
  /\ flushesMet \/ (PollsInOrder /\ OneFlush /\ QueueToCome /\ SendsToCome /\ HeardAreRecorded)


(* A poll is always NoPoll with some of its fields set.                    *)
LEMMA PollWith ==
    ASSUME NEW a \in {"idle", "baseline", "fetching", "sending", "contracts", "flushing"}
    PROVE  /\ NoPoll \in PollRecords /\ NoPoll.at = "idle" /\ NoPoll.todo = << >>
           /\ NoPoll.own = << >> /\ ~ NoPoll.live
           /\ \A b \in Nat, m \in 0 .. LastEmail :
                LET x == [NoPoll EXCEPT !.at = a, !.base = b, !.since = m]
                IN  x \in PollRecords /\ x.at = a /\ x.todo = << >> /\ x.own = << >> /\ ~ x.live
           /\ LET x == [NoPoll EXCEPT !.at = a]
              IN  x \in PollRecords /\ x.at = a /\ x.todo = << >> /\ x.own = << >> /\ ~ x.live
           /\ LET x == [NoPoll EXCEPT !.at = a, !.live = TRUE]
              IN  /\ x \in PollRecords /\ x.at = a /\ x.todo = << >> /\ x.own = << >> /\ x.live
                  /\ x.base = 0
           /\ \A t \in Seq(Emails), o \in Seq(Orders) :
                LET x == [NoPoll EXCEPT !.at = a, !.todo = t, !.own = o]
                IN  x \in PollRecords /\ x.at = a /\ x.todo = t /\ x.own = o /\ ~ x.live
<1>1. /\ NoPoll \in PollRecords /\ NoPoll.at = "idle" /\ NoPoll.todo = << >>
      /\ NoPoll.own = << >> /\ ~ NoPoll.live /\ NoPoll.base = 0
  BY EmailAssumption DEF NoPoll, PollRecords
<1> HIDE DEF NoPoll
<1>2. ASSUME NEW b \in Nat, NEW m \in 0 .. LastEmail
      PROVE  LET x == [NoPoll EXCEPT !.at = a, !.base = b, !.since = m]
             IN  x \in PollRecords /\ x.at = a /\ x.todo = NoPoll.todo /\ x.own = NoPoll.own
                 /\ x.live = NoPoll.live
  BY <1>1 DEF PollRecords
<1>3. LET x == [NoPoll EXCEPT !.at = a]
      IN  x \in PollRecords /\ x.at = a /\ x.todo = NoPoll.todo /\ x.own = NoPoll.own
          /\ x.live = NoPoll.live
  BY <1>1 DEF PollRecords
<1>4. LET x == [NoPoll EXCEPT !.at = a, !.live = TRUE]
      IN  x \in PollRecords /\ x.at = a /\ x.todo = NoPoll.todo /\ x.own = NoPoll.own
          /\ x.live = TRUE /\ x.base = NoPoll.base
  BY <1>1 DEF PollRecords
<1>5. ASSUME NEW t \in Seq(Emails), NEW o \in Seq(Orders)
      PROVE  LET x == [NoPoll EXCEPT !.at = a, !.todo = t, !.own = o]
             IN  x \in PollRecords /\ x.at = a /\ x.todo = t /\ x.own = o /\ x.live = NoPoll.live
  BY <1>1 DEF PollRecords
<1>6. QED
  BY <1>1, <1>2, <1>3, <1>4, <1>5

(***************************************************************************)
(* What the loop over the emails does before its next await: by day it     *)
(* records one new order and stops at its send; or it queues new orders,   *)
(* no two the same, and goes on to the contracts.                          *)
(***************************************************************************)
Announces(p, e) ==
  /\ e \in Emails /\ Recordable(e) /\ emailOrders' = emailOrders \cup {e}
  /\ quietQueue' = quietQueue
  /\ poll'[p].at = "sending" /\ poll'[p].own = << OrderOf[e] >>

Queues(p, added) ==
  /\ added \in Seq(Emails) /\ \A k \in DOMAIN added : Recordable(added[k])
  /\ \A j, k \in DOMAIN added : OrderOf[added[j]] = OrderOf[added[k]] => j = k
  /\ emailOrders' = emailOrders \cup Range(added)
  /\ quietQueue' = quietQueue \o [k \in DOMAIN added |-> OrderOf[added[k]]]
  /\ poll'[p].at = "contracts" /\ poll'[p].own = << >>

LEMMA OrderIsOrder == \A e \in Emails : OrderOf[e] # NoOrder => OrderOf[e] \in Orders
  BY DEF Orders

LEMMA RecordingsDo ==
    ASSUME EmailInBounds, NEW p \in EmailPolls, NEW todo \in Seq(Emails), RecordOrders(p, todo),
           \A j, k \in DOMAIN todo : todo[j] = todo[k] => j = k
    PROVE  /\ poll' \in [EmailPolls -> PollRecords] /\ ~ poll'[p].live
           /\ \A j, k \in DOMAIN poll'[p].todo : poll'[p].todo[j] = poll'[p].todo[k] => j = k
           /\ \A q \in EmailPolls \ {p} : poll'[q] = poll[q]
           /\ (\E e : Announces(p, e)) \/ (\E added : Queues(p, added))
<1>1. PICK pass \in SUBSET Range(todo) :
        LET new == Keep(todo, {e \in pass : Recordable(e)})
            first == Keep(new, {e \in pass : \A g \in Range(new) : OrderOf[g] = OrderOf[e] => e <= g})
        IN  IF new # <<>> /\ ~emailNight
            THEN /\ emailOrders' = emailOrders \cup {new[1]}
                 /\ GoesOn(p, Keep(todo, {e \in Emails : e > new[1]}), OrderOf[new[1]])
                 /\ UNCHANGED quietQueue
            ELSE /\ emailOrders' = emailOrders \cup Range(first)
                 /\ quietQueue' = quietQueue \o [k \in DOMAIN first |-> OrderOf[first[k]]]
                 /\ GoesOn(p, <<>>, NoOrder)
  BY DEF RecordOrders
<1> DEFINE good == {e \in pass : Recordable(e)}
           new == Keep(todo, good)
           firsts == {e \in pass : \A g \in Range(new) : OrderOf[g] = OrderOf[e] => e <= g}
           first == Keep(new, firsts)
           after == {e \in Emails : e > new[1]}
           rest == Keep(todo, after)
<1>2. /\ new \in Seq(Emails) /\ \A k \in DOMAIN new : new[k] \in good
      /\ \A j, k \in DOMAIN new : new[j] = new[k] => j = k
  <2> HIDE DEF good
  <2>1. QED
    BY KeptOnce
<1>3. CASE new # <<>> /\ ~emailNight
  <2>1. /\ emailOrders' = emailOrders \cup {new[1]} /\ GoesOn(p, rest, OrderOf[new[1]])
        /\ quietQueue' = quietQueue
    BY <1>1, <1>3
  <2> HIDE DEF new
  <2>2. new[1] \in Emails /\ new[1] \in good
    <3>1. 1 \in DOMAIN new
      BY <1>2, <1>3
    <3>2. QED
      BY <1>2, <3>1
  <2>3. Recordable(new[1]) /\ OrderOf[new[1]] # NoOrder /\ OrderOf[new[1]] \in Orders
    BY <2>2, OrderIsOrder DEF good, Recordable
  <2>4. rest \in Seq(Emails) /\ \A j, k \in DOMAIN rest : rest[j] = rest[k] => j = k
    <3> HIDE DEF after
    <3>1. QED
      BY KeptOnce
  <2> DEFINE own == << OrderOf[new[1]] >>
             x == [NoPoll EXCEPT !.at = "sending", !.todo = rest, !.own = own]
  <2>5. poll' = [poll EXCEPT ![p] = x]
    BY <2>1, <2>3 DEF GoesOn
  <2>6. own \in Seq(Orders)
    BY <2>3
  <2> HIDE DEF rest, own
  <2>7. x \in PollRecords /\ x.at = "sending" /\ x.todo = rest /\ x.own = own /\ ~ x.live
    BY <2>4, <2>6, PollWith
  <2> HIDE DEF x
  <2>8. /\ poll' \in [EmailPolls -> PollRecords] /\ poll'[p] = x
        /\ \A q \in EmailPolls \ {p} : poll'[q] = poll[q]
    BY <2>5, <2>7 DEF EmailInBounds
  <2>9. Announces(p, new[1])
    BY <2>1, <2>2, <2>3, <2>7, <2>8 DEF Announces, own
  <2>10. QED
    BY <2>4, <2>7, <2>8, <2>9
<1>4. CASE ~ (new # <<>> /\ ~emailNight)
  <2>1. /\ emailOrders' = emailOrders \cup Range(first)
        /\ quietQueue' = quietQueue \o [k \in DOMAIN first |-> OrderOf[first[k]]]
        /\ GoesOn(p, <<>>, NoOrder)
    BY <1>1, <1>4
  <2> HIDE DEF good, new
  <2>2. /\ first \in Seq(Emails) /\ \A k \in DOMAIN first : first[k] \in firsts
        /\ Range(first) = Range(new) \cap firsts
        /\ \A j, k \in DOMAIN first : first[j] = first[k] => j = k
    <3> HIDE DEF firsts
    <3>1. QED
      BY <1>2, KeptOnce
  <2> HIDE DEF first
  <2>3. \A k \in DOMAIN first : first[k] \in Range(new) /\ first[k] \in Emails
    BY <2>2 DEF Range
  <2>4. \A k \in DOMAIN first : Recordable(first[k])
    <3>1. Range(new) \in SUBSET good
      BY <1>2 DEF Range
    <3>2. QED
      BY <2>3, <3>1 DEF good
  <2>5. ASSUME NEW j \in DOMAIN first, NEW k \in DOMAIN first,
               OrderOf[first[j]] = OrderOf[first[k]]
        PROVE  j = k
    <3>1. first[j] <= first[k] /\ first[k] <= first[j]
      BY <2>2, <2>3, <2>5 DEF firsts
    <3>2. first[j] = first[k]
      BY <2>3, <3>1 DEF Emails
    <3>3. QED
      BY <2>2, <3>2
  <2> DEFINE x == [NoPoll EXCEPT !.at = "contracts"]
  <2>6. poll' = [poll EXCEPT ![p] = x]
    BY <2>1 DEF GoesOn
  <2>7. x \in PollRecords /\ x.at = "contracts" /\ x.todo = << >> /\ x.own = << >> /\ ~ x.live
    BY PollWith
  <2> HIDE DEF x
  <2>8. /\ poll' \in [EmailPolls -> PollRecords] /\ poll'[p] = x
        /\ \A q \in EmailPolls \ {p} : poll'[q] = poll[q]
    BY <2>6, <2>7 DEF EmailInBounds
  <2>9. Queues(p, first)
    BY <2>1, <2>2, <2>4, <2>5, <2>7, <2>8 DEF Queues
  <2>10. QED
    BY <2>7, <2>8, <2>9
<1>5. QED
  BY <1>3, <1>4

(* Everything but what poll p has in hand, when h is what was heard.       *)
ApartFrom(p, h) ==
  /\ \A k \in DOMAIN quietQueue : quietQueue[k] \notin emailLost =>
       /\ Recorded(quietQueue[k])
       /\ h[quietQueue[k]] = IF SentFromQueue(k) THEN 1 ELSE 0
  /\ \A j, k \in DOMAIN quietQueue :
       quietQueue[j] = quietQueue[k] /\ quietQueue[j] \notin emailLost => j = k
  /\ \A q \in EmailPolls \ {p} : poll[q].at = "sending" /\ poll[q].own[1] \notin emailLost =>
       /\ Recorded(poll[q].own[1]) /\ h[poll[q].own[1]] = 0
       /\ poll[q].own[1] \notin Range(quietQueue)
       /\ \A r \in EmailPolls \ {p} :
            poll[r].at = "sending" /\ poll[r].own[1] = poll[q].own[1] => r = q
  /\ \A o \in Orders \ emailLost :
       /\ h[o] # 2 /\ (h[o] = 1 => Recorded(o))
       /\ Recorded(o) => \/ h[o] = 1 \/ o \in Range(quietQueue)
                         \/ \E q \in EmailPolls \ {p} : o \in Range(poll[q].own)

EmailParts == PollsInOrder /\ OneFlush /\ QueueToCome /\ SendsToCome /\ HeardAreRecorded

LEMMA OwnIsOne ==
    ASSUME NEW x, x \in PollRecords, Len(x.own) = 1
    PROVE  x.own[1] \in Orders /\ Range(x.own) = {x.own[1]}
<1>1. x.own \in Seq(Orders) /\ DOMAIN x.own = 1 .. 1
  BY DEF PollRecords
<1>2. QED
  BY <1>1 DEF Range

LEMMA RecordingKeepsOrdersApart ==
    ASSUME EmailInBounds, PollsInOrder, OneFlush, NEW p \in EmailPolls, poll[p].at # "flushing",
           NEW todo \in Seq(Emails), \A j, k \in DOMAIN todo : todo[j] = todo[k] => j = k,
           RecordOrders(p, todo), ApartFrom(p, heard'), heard' \in [Orders -> 0 .. 2],
           emailLost' = emailLost
    PROVE  EmailParts'
<1>1. /\ poll' \in [EmailPolls -> PollRecords] /\ ~ poll'[p].live
      /\ \A j, k \in DOMAIN poll'[p].todo : poll'[p].todo[j] = poll'[p].todo[k] => j = k
      /\ \A q \in EmailPolls \ {p} : poll'[q] = poll[q]
      /\ (\E e : Announces(p, e)) \/ (\E added : Queues(p, added))
  BY RecordingsDo
<1>2. poll'[p].at # "flushing" /\ (poll'[p].at = "sending" => Len(poll'[p].own) = 1)
      /\ (poll'[p].at # "sending" => poll'[p].own = << >>)
  BY <1>1 DEF Announces, Queues
<1>3. PollsInOrder'
  <2>1. ASSUME NEW q \in EmailPolls
        PROVE  /\ poll'[q].live <=> poll'[q].at = "flushing"
               /\ IF poll'[q].at = "sending" THEN Len(poll'[q].own) = 1 ELSE poll'[q].own = <<>>
    <3>1. CASE q = p
      BY <1>1, <1>2, <3>1
    <3>2. CASE q # p
      BY <1>1, <3>2 DEF PollsInOrder
    <3>3. QED
      BY <3>1, <3>2
  <2>2. QED
    BY <2>1 DEF PollsInOrder
<1>4. \A k : SentFromQueue(k)' <=> SentFromQueue(k)
  BY <1>1, <1>2 DEF SentFromQueue
<1>5. \A q \in EmailPolls : poll'[q].at = "flushing" => poll[q].at = "flushing" /\ poll'[q] = poll[q]
  BY <1>1, <1>2
<1>6. \A q \in EmailPolls : poll[q].at = "sending" =>
         poll[q].own[1] \in Orders /\ Range(poll[q].own) = {poll[q].own[1]}
  BY OwnIsOne DEF PollsInOrder, EmailInBounds
<1>7. ASSUME NEW e, Announces(p, e) PROVE EmailParts'
  <2> DEFINE o == OrderOf[e]
  <2>1. /\ o \in Orders /\ ~ Recorded(o) /\ emailOrders' = emailOrders \cup {e}
        /\ quietQueue' = quietQueue
        /\ poll'[p].at = "sending" /\ poll'[p].own = << o >>
    BY <1>7, OrderIsOrder DEF Announces, Recordable, Recorded
  <2>2. \A x : Recorded(x)' <=> Recorded(x) \/ x = o
    BY <2>1 DEF Recorded
  <2>3. poll'[p].own[1] = o /\ Range(poll'[p].own) = {o}
    <3>1. DOMAIN << o >> = {1} /\ << o >>[1] = o
      OBVIOUS
    <3>2. QED
      BY <2>1, <3>1 DEF Range
  <2> HIDE DEF o
  <2>4. o \notin emailLost => heard'[o] = 0
    BY <2>1 DEF ApartFrom
  <2>5. o \notin emailLost => o \notin Range(quietQueue)
    BY <2>1 DEF ApartFrom, Range
  <2>6. OneFlush'
    BY <1>5, <2>1 DEF OneFlush
  <2>7. QueueToCome'
    BY <1>4, <2>1, <2>2 DEF QueueToCome, ApartFrom
  <2>8. SendsToCome'
    <3>1. ASSUME NEW q \in EmailPolls, poll'[q].at = "sending", poll'[q].own[1] \notin emailLost
          PROVE  /\ Recorded(poll[q].own[1])' /\ heard'[poll'[q].own[1]] = 0
                 /\ poll'[q].own[1] \notin Range(quietQueue)
                 /\ \A r \in EmailPolls :
                      poll'[r].at = "sending" /\ poll'[r].own[1] = poll'[q].own[1] => r = q
      <4>1. CASE q = p
        <5>1. ASSUME NEW r \in EmailPolls \ {p}, poll'[r].at = "sending", poll'[r].own[1] = o
              PROVE  FALSE
          <6>1. poll[r].at = "sending" /\ poll[r].own[1] = o /\ o \notin emailLost
            BY <1>1, <2>3, <3>1, <4>1, <5>1
          <6>2. QED
            BY <2>1, <6>1 DEF ApartFrom
        <5>2. QED
          BY <2>2, <2>3, <2>4, <2>5, <3>1, <4>1, <5>1
      <4>2. CASE q # p
        <5>1. poll'[q] = poll[q]
          BY <1>1, <4>2
        <5>2. /\ Recorded(poll[q].own[1]) /\ heard'[poll[q].own[1]] = 0
              /\ poll[q].own[1] \notin Range(quietQueue)
              /\ \A r \in EmailPolls \ {p} :
                   poll[r].at = "sending" /\ poll[r].own[1] = poll[q].own[1] => r = q
          BY <3>1, <4>2, <5>1 DEF ApartFrom
        <5>3. poll[q].own[1] # o
          BY <2>1, <5>2
        <5>4. ASSUME NEW r \in EmailPolls, poll'[r].at = "sending", poll'[r].own[1] = poll[q].own[1]
              PROVE  r = q
          <6>1. r # p
            BY <2>3, <5>3, <5>4
          <6>2. QED
            BY <1>1, <5>2, <5>4, <6>1
        <5>5. QED
          BY <2>2, <5>1, <5>2, <5>4
      <4>3. QED
        BY <4>1, <4>2
    <3>2. QED
      BY <2>1, <3>1 DEF SendsToCome
  <2>9. HeardAreRecorded'
    <3>1. ASSUME NEW x \in Orders \ emailLost
          PROVE  /\ heard'[x] # 2 /\ (heard'[x] = 1 => Recorded(x)')
                 /\ Recorded(x)' => heard'[x] = 1 \/ OnItsWay(x)'
      <4>1. heard'[x] # 2 /\ (heard'[x] = 1 => Recorded(x)')
        BY <2>2 DEF ApartFrom
      <4>2. CASE x = o
        BY <2>3, <4>1, <4>2 DEF OnItsWay
      <4>3. CASE x # o
        <5>1. ASSUME Recorded(x)
              PROVE  \/ heard'[x] = 1 \/ x \in Range(quietQueue)
                     \/ \E q \in EmailPolls \ {p} : x \in Range(poll[q].own)
          BY <5>1 DEF ApartFrom
        <5>2. QED
          BY <1>1, <2>1, <2>2, <4>1, <4>3, <5>1 DEF OnItsWay
      <4>4. QED
        BY <4>2, <4>3
    <3>2. QED
      BY <3>1 DEF HeardAreRecorded
  <2>10. QED
    BY <1>3, <2>6, <2>7, <2>8, <2>9 DEF EmailParts
<1>8. ASSUME NEW added, Queues(p, added) PROVE EmailParts'
  <2> DEFINE add == [k \in DOMAIN added |-> OrderOf[added[k]]]
             n == Len(quietQueue)
  <2>1. /\ added \in Seq(Emails) /\ \A k \in DOMAIN added : Recordable(added[k])
        /\ \A j, k \in DOMAIN added : OrderOf[added[j]] = OrderOf[added[k]] => j = k
        /\ emailOrders' = emailOrders \cup Range(added) /\ quietQueue' = quietQueue \o add
        /\ poll'[p].at = "contracts" /\ poll'[p].own = << >>
    BY <1>8 DEF Queues
  <2>2. /\ add \in Seq(Orders) /\ DOMAIN add = DOMAIN added
        /\ \A k \in DOMAIN add : add[k] = OrderOf[added[k]] /\ ~ Recorded(add[k]) /\ add[k] \in Orders
        /\ \A j, k \in DOMAIN add : add[j] = add[k] => j = k
    <3>1. \A k \in DOMAIN added : OrderOf[added[k]] \in Orders /\ ~ Recorded(OrderOf[added[k]])
      BY <2>1, OrderIsOrder DEF Recordable, Recorded
    <3>2. DOMAIN added = 1 .. Len(added) /\ Len(added) \in Nat
      BY <2>1
    <3>3. add \in [1 .. Len(added) -> Orders]
      BY <3>1, <3>2
    <3>4. QED
      BY <2>1, <3>1, <3>2, <3>3
  <2>3. \A x : Recorded(x)' <=> Recorded(x) \/ \E k \in DOMAIN add : add[k] = x
    BY <2>1, <2>2 DEF Recorded, Range
  <2> HIDE DEF add
  <2>4. quietQueue \in Seq(Orders) /\ n \in Nat
    BY DEF EmailInBounds
  <2>5. /\ quietQueue' \in Seq(Orders) /\ DOMAIN quietQueue \in SUBSET DOMAIN quietQueue'
        /\ n <= Len(quietQueue')
        /\ \A k \in DOMAIN quietQueue : quietQueue'[k] = quietQueue[k] /\ k <= n /\ k \in Nat
        /\ \A k \in DOMAIN quietQueue' :
              \/ k \in DOMAIN quietQueue
              \/ /\ k \in Nat /\ k > n /\ k - n \in DOMAIN add /\ quietQueue'[k] = add[k - n]
        /\ \A j, k \in DOMAIN quietQueue' : j - n = k - n => j = k
        /\ Range(quietQueue') = Range(quietQueue) \cup Range(add)
    BY <2>1, <2>2, <2>4, Appended
  <2> HIDE DEF n
  <2>6. \A k \in Nat : k > n => ~ SentFromQueue(k)
    <3>1. ASSUME NEW k \in Nat, k > n, NEW q \in EmailPolls, poll[q].at = "flushing", k <= poll[q].base
          PROVE  FALSE
      <4>1. poll[q].base < n /\ poll[q].base \in Nat
        BY <3>1 DEF OneFlush, EmailInBounds, PollRecords, n
      <4>2. QED
        BY <2>4, <3>1, <4>1
    <3>2. QED
      BY <3>1 DEF SentFromQueue
  <2>7. \A k \in DOMAIN add : add[k] \notin emailLost => heard'[add[k]] = 0
    BY <2>2 DEF ApartFrom
  <2>8. \A k \in DOMAIN quietQueue : quietQueue[k] \notin emailLost => Recorded(quietQueue[k])
    BY DEF ApartFrom
  <2>9. OneFlush'
    <3>1. ASSUME NEW q \in EmailPolls, poll'[q].at = "flushing"
          PROVE  /\ poll'[q].base < Len(quietQueue')
                 /\ \A r \in EmailPolls : poll'[r].at = "flushing" => r = q
      <4>1. poll[q].at = "flushing" /\ poll'[q].base = poll[q].base /\ poll[q].base \in Nat
        BY <1>5, <3>1 DEF EmailInBounds, PollRecords
      <4>2. poll[q].base < n /\ \A r \in EmailPolls : poll[r].at = "flushing" => r = q
        BY <4>1 DEF OneFlush, n
      <4>3. Len(quietQueue') \in Nat
        BY <2>5
      <4>4. QED
        BY <1>5, <2>4, <2>5, <4>1, <4>2, <4>3
    <3>2. QED
      BY <3>1 DEF OneFlush
  <2>10. QueueToCome'
    <3>1. ASSUME NEW k \in DOMAIN quietQueue', quietQueue'[k] \notin emailLost
          PROVE  /\ Recorded(quietQueue[k])'
                 /\ heard'[quietQueue'[k]] = IF SentFromQueue(k) THEN 1 ELSE 0
      <4>1. CASE k \in DOMAIN quietQueue
        BY <2>3, <2>5, <3>1, <4>1 DEF ApartFrom
      <4>2. CASE k \in Nat /\ k > n /\ k - n \in DOMAIN add /\ quietQueue'[k] = add[k - n]
        BY <2>3, <2>6, <2>7, <3>1, <4>2
      <4>3. QED
        BY <2>5, <4>1, <4>2
    <3>2. ASSUME NEW j \in DOMAIN quietQueue', NEW k \in DOMAIN quietQueue',
                 quietQueue'[j] = quietQueue'[k], quietQueue'[j] \notin emailLost
          PROVE  j = k
      <4>1. CASE j \in DOMAIN quietQueue /\ k \in DOMAIN quietQueue
        BY <2>5, <3>2, <4>1 DEF ApartFrom
      <4>2. CASE j \in DOMAIN quietQueue /\ k \notin DOMAIN quietQueue
        <5>1. quietQueue[j] = add[k - n] /\ k - n \in DOMAIN add
          BY <2>5, <3>2, <4>2
        <5>2. QED
          BY <2>2, <2>5, <2>8, <3>2, <4>2, <5>1
      <4>3. CASE j \notin DOMAIN quietQueue /\ k \in DOMAIN quietQueue
        <5>1. quietQueue[k] = add[j - n] /\ j - n \in DOMAIN add
          BY <2>5, <3>2, <4>3
        <5>2. QED
          BY <2>2, <2>5, <2>8, <3>2, <4>3, <5>1
      <4>4. CASE j \notin DOMAIN quietQueue /\ k \notin DOMAIN quietQueue
        <5>1. /\ j - n \in DOMAIN add /\ k - n \in DOMAIN add
              /\ quietQueue'[j] = add[j - n] /\ quietQueue'[k] = add[k - n]
          BY <2>5, <4>4
        <5>2. j - n = k - n
          BY <2>2, <3>2, <5>1
        <5>3. QED
          BY <2>5, <5>2
      <4>5. QED
        BY <4>1, <4>2, <4>3, <4>4
    <3>3. QED
      BY <1>4, <3>1, <3>2 DEF QueueToCome
  <2>11. SendsToCome'
    <3>1. ASSUME NEW q \in EmailPolls, poll'[q].at = "sending", poll'[q].own[1] \notin emailLost
          PROVE  /\ Recorded(poll[q].own[1])' /\ heard'[poll'[q].own[1]] = 0
                 /\ poll'[q].own[1] \notin Range(quietQueue')
                 /\ \A r \in EmailPolls :
                      poll'[r].at = "sending" /\ poll'[r].own[1] = poll'[q].own[1] => r = q
      <4>1. q # p /\ poll'[q] = poll[q]
        BY <1>1, <2>1, <3>1
      <4>2. /\ Recorded(poll[q].own[1]) /\ heard'[poll[q].own[1]] = 0
            /\ poll[q].own[1] \notin Range(quietQueue)
            /\ \A r \in EmailPolls \ {p} :
                 poll[r].at = "sending" /\ poll[r].own[1] = poll[q].own[1] => r = q
        BY <3>1, <4>1 DEF ApartFrom
      <4>3. poll[q].own[1] \notin Range(add)
        BY <2>2, <4>2 DEF Range
      <4>4. ASSUME NEW r \in EmailPolls, poll'[r].at = "sending", poll'[r].own[1] = poll[q].own[1]
            PROVE  r = q
        <5>1. r # p
          BY <2>1, <4>4
        <5>2. QED
          BY <1>1, <4>2, <4>4, <5>1
      <4>5. QED
        BY <2>3, <2>5, <4>1, <4>2, <4>3, <4>4
    <3>2. QED
      BY <3>1 DEF SendsToCome
  <2>12. HeardAreRecorded'
    <3>1. ASSUME NEW x \in Orders \ emailLost
          PROVE  /\ heard'[x] # 2 /\ (heard'[x] = 1 => Recorded(x)')
                 /\ Recorded(x)' => heard'[x] = 1 \/ OnItsWay(x)'
      <4>1. heard'[x] # 2 /\ (heard'[x] = 1 => Recorded(x)')
        BY <2>3 DEF ApartFrom
      <4>2. CASE \E k \in DOMAIN add : add[k] = x
        <5>1. x \in Range(quietQueue')
          BY <2>5, <4>2 DEF Range
        <5>2. QED
          BY <4>1, <5>1 DEF OnItsWay
      <4>3. CASE ~ \E k \in DOMAIN add : add[k] = x
        <5>1. ASSUME Recorded(x)
              PROVE  \/ heard'[x] = 1 \/ x \in Range(quietQueue)
                     \/ \E q \in EmailPolls \ {p} : x \in Range(poll[q].own)
          BY <5>1 DEF ApartFrom
        <5>2. x \in Range(quietQueue) => x \in Range(quietQueue')
          BY <2>5
        <5>3. QED
          BY <1>1, <2>3, <4>1, <4>3, <5>1, <5>2 DEF OnItsWay
      <4>4. QED
        BY <4>2, <4>3
    <3>2. QED
      BY <3>1 DEF HeardAreRecorded
  <2>13. QED
    BY <1>3, <2>9, <2>10, <2>11, <2>12 DEF EmailParts
<1>9. QED
  BY <1>1, <1>7, <1>8

LEMMA FetchedAreEmails ==
    ASSUME EmailInBounds, NEW p \in EmailPolls, NEW fetched \in Fetched(p)
    PROVE  fetched \in SUBSET Emails /\ IsFiniteSet(fetched) /\ fetched \in SUBSET Int
<1>1. PICK top \in poll[p].since .. mailbox : fetched \in SUBSET Newer(poll[p].base, top)
  BY DEF Fetched
<1>2. poll[p].base \in Nat /\ top \in 0 .. LastEmail
  BY <1>1, EmailAssumption DEF EmailInBounds, PollRecords
<1>3. Newer(poll[p].base, top) \in SUBSET Emails
  BY <1>2, EmailAssumption DEF Newer, Emails
<1>4. IsFiniteSet(1 .. LastEmail)
  <2>1. 1 \in Int /\ LastEmail \in Int
    BY EmailAssumption
  <2>2. QED
    BY <2>1, FS_Interval
<1>5. fetched \in SUBSET Emails
  BY <1>1, <1>3
<1>6. IsFiniteSet(fetched)
  BY <1>4, <1>5, FS_Subset DEF Emails
<1>7. QED
  BY <1>5, <1>6 DEF Emails

LEMMA EmailTypes == EmailInBounds /\ NoRepeats /\ [EmailNext]_emailVars => EmailInBounds' /\ NoRepeats'
<1> SUFFICES ASSUME EmailInBounds, NoRepeats, [EmailNext]_emailVars
             PROVE  EmailInBounds' /\ NoRepeats'
  OBVIOUS
<1> USE DEF EmailInBounds
<1>0. /\ NoPoll \in PollRecords
      /\ \A a \in {"idle", "baseline", "fetching", "sending", "contracts", "flushing"} :
           \A b \in Nat, m \in 0 .. LastEmail :
             [NoPoll EXCEPT !.at = a, !.base = b, !.since = m] \in PollRecords
  <2>1. ASSUME NEW a \in {"idle", "baseline", "fetching", "sending", "contracts", "flushing"},
               NEW b \in Nat, NEW m \in 0 .. LastEmail
        PROVE  [NoPoll EXCEPT !.at = a, !.base = b, !.since = m] \in PollRecords
    <3>1. NoPoll \in PollRecords
      BY PollWith
    <3>2. QED
      BY <3>1 DEF PollRecords
  <2>2. NoPoll \in PollRecords
    BY PollWith
  <2>3. QED
    BY <2>1, <2>2
<1>a. NoPoll.todo = << >> /\ \A a, b, m : [NoPoll EXCEPT !.at = a, !.base = b, !.since = m].todo = << >>
  BY DEF NoPoll
<1>b. ASSUME NEW p \in EmailPolls, NEW x, poll' = [poll EXCEPT ![p] = x],
              x.todo = << >> \/ x.todo = poll[p].todo
       PROVE  NoRepeats'
  <2>1. \A q \in EmailPolls : poll'[q].todo = << >> \/ poll'[q].todo = poll[q].todo
    BY <1>b
  <2>2. QED
    BY <2>1 DEF NoRepeats
<1>1. ASSUME NEW p \in EmailPolls, PollStarts(p) PROVE EmailInBounds' /\ NoRepeats'
  <2> DEFINE a == IF emailCursor = 0 THEN "baseline" ELSE "fetching"
             x == [NoPoll EXCEPT !.at = a, !.base = emailCursor, !.since = mailbox]
  <2>1. poll' = [poll EXCEPT ![p] = x] /\ UNCHANGED <<mailbox, emailCursor, emailOrders, quietQueue, heard>>
    BY <1>1 DEF PollStarts
  <2>2. a \in {"idle", "baseline", "fetching", "sending", "contracts", "flushing"}
    OBVIOUS
  <2> HIDE DEF a
  <2>3. x \in PollRecords /\ x.todo = << >>
    BY <1>0, <1>a, <2>2
  <2> HIDE DEF x
  <2>4. EmailInBounds'
    BY <2>1, <2>3
  <2>5. NoRepeats'
    BY <1>b, <2>1, <2>3
  <2>6. QED
    BY <2>4, <2>5
<1>2. ASSUME NEW p \in EmailPolls, BaselineSet(p) PROVE EmailInBounds' /\ NoRepeats'
  <2>1. emailCursor' \in Nat
    BY <1>2, EmailAssumption DEF BaselineSet, PollRecords
  <2>2. poll' = [poll EXCEPT ![p] = NoPoll] /\ UNCHANGED <<mailbox, emailOrders, quietQueue, heard>>
    BY <1>2 DEF BaselineSet
  <2>3. EmailInBounds'
    BY <1>0, <2>1, <2>2
  <2>4. NoRepeats'
    BY <1>a, <1>b, <2>2
  <2>5. QED
    BY <2>3, <2>4
<1>3. ASSUME NEW p \in EmailPolls, NEW todo \in Seq(Emails), RecordOrders(p, todo),
             \A j, k \in DOMAIN todo : todo[j] = todo[k] => j = k
      PROVE  /\ poll' \in [EmailPolls -> PollRecords] /\ quietQueue' \in Seq(Orders)
             /\ emailOrders' \in SUBSET Emails /\ NoRepeats'
  <2>1. /\ poll' \in [EmailPolls -> PollRecords]
        /\ \A j, k \in DOMAIN poll'[p].todo : poll'[p].todo[j] = poll'[p].todo[k] => j = k
        /\ \A q \in EmailPolls \ {p} : poll'[q] = poll[q]
        /\ (\E e : Announces(p, e)) \/ (\E added : Queues(p, added))
    BY <1>3, RecordingsDo
  <2>2. ASSUME NEW added, Queues(p, added)
        PROVE  quietQueue' \in Seq(Orders) /\ emailOrders' \in SUBSET Emails
    <3> DEFINE add == [k \in DOMAIN added |-> OrderOf[added[k]]]
    <3>1. /\ added \in Seq(Emails) /\ \A k \in DOMAIN added : Recordable(added[k])
          /\ emailOrders' = emailOrders \cup Range(added) /\ quietQueue' = quietQueue \o add
      BY <2>2 DEF Queues
    <3>2. \A k \in DOMAIN added : OrderOf[added[k]] \in Orders
      BY <3>1, OrderIsOrder DEF Recordable
    <3>3. add \in Seq(Orders)
      <4>1. DOMAIN added = 1 .. Len(added) /\ Len(added) \in Nat
        BY <3>1
      <4>2. add \in [1 .. Len(added) -> Orders]
        BY <3>2, <4>1
      <4>3. QED
        BY <4>1, <4>2
    <3> HIDE DEF add
    <3>4. Range(added) \in SUBSET Emails
      BY <3>1 DEF Range
    <3>5. QED
      BY <3>1, <3>3, <3>4
  <2>3. ASSUME NEW e, Announces(p, e)
        PROVE  quietQueue' \in Seq(Orders) /\ emailOrders' \in SUBSET Emails
    BY <2>3 DEF Announces
  <2>4. NoRepeats'
    <3>1. ASSUME NEW q \in EmailPolls
          PROVE  \A j, k \in DOMAIN poll'[q].todo : poll'[q].todo[j] = poll'[q].todo[k] => j = k
      <4>1. CASE q = p
        BY <2>1, <4>1
      <4>2. CASE q # p
        BY <2>1, <4>2 DEF NoRepeats
      <4>3. QED
        BY <4>1, <4>2
    <3>2. QED
      BY <3>1 DEF NoRepeats
  <2>5. QED
    BY <2>1, <2>2, <2>3, <2>4
<1>4. ASSUME NEW p \in EmailPolls, NEW fetched \in Fetched(p)
      PROVE  fetched \in SUBSET Emails /\ IsFiniteSet(fetched) /\ fetched \in SUBSET Int
  BY FetchedAreEmails
<1>5. ASSUME NEW p \in EmailPolls, PollFetched(p) PROVE EmailInBounds' /\ NoRepeats'
  <2>1. PICK fetched \in Fetched(p) :
         LET todo == Ascending(fetched)
             last == todo[Len(todo)]
         IN  IF fetched = {}
             THEN /\ emailCursor' = poll[p].base
                  /\ poll' = [poll EXCEPT ![p] = NoPoll]
                  /\ UNCHANGED <<emailOrders, quietQueue>>
             ELSE /\ emailCursor' = IF last > poll[p].base THEN last ELSE poll[p].base
                  /\ RecordOrders(p, todo)
    BY <1>5 DEF PollFetched
  <2> DEFINE todo == Ascending(fetched)
             last == todo[Len(todo)]
  <2>2. UNCHANGED <<mailbox, heard>> /\ poll[p].base \in Nat
    BY <1>5 DEF PollFetched, PollRecords
  <2>3. CASE fetched = {}
    <3>1. /\ emailCursor' \in Nat /\ poll' = [poll EXCEPT ![p] = NoPoll]
          /\ UNCHANGED <<emailOrders, quietQueue>>
      BY <2>1, <2>2, <2>3
    <3>2. NoRepeats'
      BY <1>a, <1>b, <3>1
    <3>3. QED
      BY <1>0, <2>2, <3>1, <3>2
  <2>4. CASE fetched # {}
    <3>1. fetched \in SUBSET Emails /\ IsFiniteSet(fetched) /\ fetched \in SUBSET Int
      BY <1>4
    <3>2. /\ todo \in Seq(fetched) /\ Range(todo) = fetched
          /\ \A k \in DOMAIN todo : todo[k] \in fetched
          /\ \A j, k \in DOMAIN todo : todo[j] = todo[k] => j = k
      BY <3>1, AscendingOnce
    <3>3. RecordOrders(p, todo) /\ emailCursor' = IF last > poll[p].base THEN last ELSE poll[p].base
      BY <2>1, <2>4
    <3> HIDE DEF todo
    <3>4. todo \in Seq(Emails)
      <4>1. \A k \in DOMAIN todo : todo[k] \in Emails
        BY <3>1, <3>2
      <4>2. QED
        BY <3>2, <4>1
    <3>5. todo # << >>
      BY <2>4, <3>2 DEF Range
    <3>6. last \in Emails /\ last \in Nat
      <4>1. Len(todo) \in Nat /\ Len(todo) # 0 /\ DOMAIN todo = 1 .. Len(todo)
        BY <3>4, <3>5
      <4>2. last \in Emails
        BY <3>4, <4>1
      <4>3. QED
        BY <4>2 DEF Emails
    <3>7. emailCursor' \in Nat
      BY <2>2, <3>3, <3>6
    <3>8. QED
      BY <1>3, <2>2, <3>2, <3>3, <3>4, <3>7
  <2>5. QED
    BY <2>3, <2>4
<1>6. ASSUME NEW o, Hear(o) PROVE heard' \in [Orders -> 0 .. 2]
  <2>1. CASE o \in Orders
    <3>1. heard[o] \in 0 .. 2 /\ (IF heard[o] < 2 THEN heard[o] + 1 ELSE heard[o]) \in 0 .. 2
      BY <2>1
    <3>2. QED
      BY <1>6, <2>1, <3>1 DEF Hear
  <2>2. CASE o \notin Orders
    BY <1>6, <2>2 DEF Hear
  <2>3. QED
    BY <2>1, <2>2
<1>7. ASSUME NEW p \in EmailPolls, OrderAnnounced(p) PROVE EmailInBounds' /\ NoRepeats'
  <2>1. /\ RecordOrders(p, poll[p].todo) /\ UNCHANGED <<mailbox, emailCursor>>
        /\ heard' \in [Orders -> 0 .. 2]
    BY <1>6, <1>7 DEF OrderAnnounced
  <2>2. poll[p].todo \in Seq(Emails)
        /\ \A j, k \in DOMAIN poll[p].todo : poll[p].todo[j] = poll[p].todo[k] => j = k
    BY DEF PollRecords, NoRepeats
  <2>3. QED
    BY <1>3, <2>1, <2>2
<1>8. ASSUME NEW p \in EmailPolls, ContractsLookedAt(p) PROVE EmailInBounds' /\ NoRepeats'
  <2> DEFINE x == [NoPoll EXCEPT !.at = "flushing", !.live = TRUE]
  <2>1. /\ poll' = [poll EXCEPT ![p] = x] \/ poll' = [poll EXCEPT ![p] = NoPoll]
        /\ UNCHANGED <<mailbox, emailCursor, emailOrders, quietQueue, heard>>
    BY <1>8 DEF ContractsLookedAt
  <2>2. x \in PollRecords /\ x.todo = << >>
    <3>1. "flushing" \in {"idle", "baseline", "fetching", "sending", "contracts", "flushing"}
      OBVIOUS
    <3>2. QED
      BY <3>1, PollWith
  <2> HIDE DEF x
  <2>3. EmailInBounds'
    BY <1>0, <2>1, <2>2
  <2>4. NoRepeats'
    BY <1>a, <1>b, <2>1, <2>2
  <2>5. QED
    BY <2>3, <2>4
<1>9. ASSUME NEW p \in EmailPolls, QueuedAnnounced(p) PROVE EmailInBounds' /\ NoRepeats'
  <2> DEFINE sent == poll[p].base + 1
             left == [q \in EmailPolls |->
                        IF q = p THEN NoPoll
                        ELSE IF poll[q].live
                             THEN [poll[q] EXCEPT !.live = FALSE, !.own = quietQueue]
                             ELSE poll[q]]
  <2>1. /\ heard' \in [Orders -> 0 .. 2]
        /\ UNCHANGED <<mailbox, emailCursor, emailOrders>>
        /\ \/ poll' = [poll EXCEPT ![p].base = sent] /\ quietQueue' = quietQueue
           \/ poll' = left /\ quietQueue' = << >>
    BY <1>6, <1>9 DEF QueuedAnnounced
  <2>2. CASE poll' = [poll EXCEPT ![p].base = sent] /\ quietQueue' = quietQueue
    <3>1. sent \in Nat
      BY DEF PollRecords
    <3> HIDE DEF sent
    <3>2. poll' \in [EmailPolls -> PollRecords] /\ \A q \in EmailPolls : poll'[q].todo = poll[q].todo
      BY <2>2, <3>1 DEF PollRecords
    <3>3. QED
      BY <2>1, <2>2, <3>2 DEF NoRepeats
  <2>3. CASE poll' = left /\ quietQueue' = << >>
    <3>1. ASSUME NEW q \in EmailPolls
          PROVE  left[q] \in PollRecords /\ (left[q].todo = << >> \/ left[q].todo = poll[q].todo)
      <4>1. poll[q] \in PollRecords /\ quietQueue \in Seq(Orders)
        OBVIOUS
      <4>2. [poll[q] EXCEPT !.live = FALSE, !.own = quietQueue] \in PollRecords
            /\ [poll[q] EXCEPT !.live = FALSE, !.own = quietQueue].todo = poll[q].todo
        BY <4>1 DEF PollRecords
      <4>3. QED
        BY <1>0, <1>a, <4>1, <4>2
    <3>2. left \in [EmailPolls -> PollRecords]
      BY <3>1
    <3>3. << >> \in Seq(Orders)
      OBVIOUS
    <3> HIDE DEF left
    <3>4. EmailInBounds'
      BY <2>1, <2>3, <3>2, <3>3
    <3>5. NoRepeats'
      BY <2>3, <3>1 DEF NoRepeats
    <3>6. QED
      BY <3>4, <3>5
  <2>4. QED
    BY <2>1, <2>2, <2>3
<1>10. CASE EmailRestart
  <2>1. /\ poll' = [p \in EmailPolls |-> NoPoll] /\ quietQueue' = << >>
        /\ emailCursor' \in Nat /\ emailOrders' \in SUBSET Emails /\ UNCHANGED <<mailbox, heard>>
    BY <1>10 DEF EmailRestart
  <2>2. << >> \in Seq(Orders)
    OBVIOUS
  <2>3. EmailInBounds'
    BY <1>0, <2>1, <2>2
  <2>4. NoRepeats'
    BY <1>a, <2>1 DEF NoRepeats
  <2>5. QED
    BY <2>3, <2>4
<1>11. CASE EmailArrives \/ EmailHourPasses \/ UNCHANGED emailVars
  <2>1. UNCHANGED <<emailCursor, emailOrders, quietQueue, poll, heard>> /\ mailbox' \in 0 .. LastEmail
    BY <1>11, EmailAssumption DEF EmailArrives, EmailHourPasses, emailVars
  <2>2. QED
    BY <2>1 DEF NoRepeats
<1>12. QED
  BY <1>1, <1>2, <1>5, <1>7, <1>8, <1>9, <1>10, <1>11 DEF EmailNext

(* A poll that neither sends nor flushes, before and after, disturbs none. *)
LEMMA PollMoves ==
    ASSUME EmailInBounds, EmailParts, NEW p \in EmailPolls, NEW x,
           poll[p].at \notin {"sending", "flushing"}, x.at \notin {"sending", "flushing"},
           x.own = << >>, ~ x.live, x \in PollRecords, poll' = [poll EXCEPT ![p] = x],
           UNCHANGED <<emailOrders, quietQueue, heard, emailLost>>
    PROVE  EmailParts'
<1>1. poll'[p] = x /\ \A q \in EmailPolls \ {p} : poll'[q] = poll[q]
  BY DEF EmailInBounds
<1>2. \A q \in EmailPolls :
         /\ poll'[q].at = "sending" <=> poll[q].at = "sending"
         /\ poll'[q].at = "flushing" <=> poll[q].at = "flushing"
         /\ poll'[q].at \in {"sending", "flushing"} => poll'[q] = poll[q]
         /\ poll'[q].own = poll[q].own
  <2>1. poll[p].own = << >>
    BY DEF EmailParts, PollsInOrder
  <2>2. ASSUME NEW q \in EmailPolls
        PROVE  /\ poll'[q].at = "sending" <=> poll[q].at = "sending"
               /\ poll'[q].at = "flushing" <=> poll[q].at = "flushing"
               /\ poll'[q].at \in {"sending", "flushing"} => poll'[q] = poll[q]
               /\ poll'[q].own = poll[q].own
    <3>1. CASE q = p
      BY <1>1, <2>1, <3>1
    <3>2. CASE q # p
      BY <1>1, <3>2
    <3>3. QED
      BY <3>1, <3>2
  <2>3. QED
    BY <2>2
<1>3. \A k : SentFromQueue(k)' <=> SentFromQueue(k)
  BY <1>2 DEF SentFromQueue
<1>4. \A o : (Recorded(o)' <=> Recorded(o)) /\ (OnItsWay(o)' <=> OnItsWay(o))
  BY <1>2 DEF Recorded, OnItsWay
<1>5. PollsInOrder'
  <2>1. ASSUME NEW q \in EmailPolls
        PROVE  /\ poll'[q].live <=> poll'[q].at = "flushing"
               /\ IF poll'[q].at = "sending" THEN Len(poll'[q].own) = 1 ELSE poll'[q].own = <<>>
    <3>1. CASE q = p
      BY <1>1, <3>1
    <3>2. CASE q # p
      BY <1>1, <3>2 DEF EmailParts, PollsInOrder
    <3>3. QED
      BY <3>1, <3>2
  <2>2. QED
    BY <2>1 DEF PollsInOrder
<1>6. OneFlush'
  BY <1>2 DEF EmailParts, OneFlush
<1>7. QueueToCome'
  BY <1>3, <1>4 DEF EmailParts, QueueToCome
<1>8. SendsToCome'
  BY <1>2, <1>4 DEF EmailParts, SendsToCome
<1>9. HeardAreRecorded'
  BY <1>4 DEF EmailParts, HeardAreRecorded
<1>10. QED
  BY <1>5, <1>6, <1>7, <1>8, <1>9 DEF EmailParts

LEMMA EmailInvInit == EmailInit => EmailInv
<1> SUFFICES ASSUME EmailInit PROVE EmailInv
  OBVIOUS
<1>1. /\ NoPoll \in PollRecords /\ NoPoll.at = "idle" /\ NoPoll.todo = << >>
      /\ NoPoll.own = << >> /\ ~ NoPoll.live
  BY PollWith
<1>2. /\ \A p \in EmailPolls : poll[p] = NoPoll
      /\ poll \in [EmailPolls -> PollRecords] /\ << >> \in Seq(Orders)
  BY <1>1 DEF EmailInit
<1>3. EmailInBounds
  BY <1>2, EmailAssumption DEF EmailInit, EmailInBounds
<1>4. NoRepeats /\ PollsInOrder /\ OneFlush /\ SendsToCome
  BY <1>1, <1>2 DEF NoRepeats, PollsInOrder, OneFlush, SendsToCome
<1>5. QueueToCome
  BY DEF EmailInit, QueueToCome
<1>6. HeardAreRecorded
  BY DEF EmailInit, HeardAreRecorded, Recorded
<1>7. QED
  BY <1>3, <1>4, <1>5, <1>6 DEF EmailInv

LEMMA EmailPartsStep ==
    ASSUME EmailInBounds, NoRepeats, EmailParts, [EmailNext]_emailVars, ~ flushesMet'
    PROVE  EmailParts'
<1>1. /\ NoPoll \in PollRecords /\ NoPoll.at = "idle" /\ NoPoll.todo = << >>
      /\ NoPoll.own = << >> /\ ~ NoPoll.live
  BY PollWith
<1>2. /\ PollsInOrder /\ OneFlush /\ QueueToCome /\ SendsToCome /\ HeardAreRecorded
  BY DEF EmailParts
<1>3. ASSUME NEW p \in EmailPolls, PollStarts(p) PROVE EmailParts'
  <2> DEFINE a == IF emailCursor = 0 THEN "baseline" ELSE "fetching"
             x == [NoPoll EXCEPT !.at = a, !.base = emailCursor, !.since = mailbox]
  <2>1. poll' = [poll EXCEPT ![p] = x] /\ poll[p] = NoPoll
        /\ UNCHANGED <<emailOrders, quietQueue, heard, emailLost>>
    BY <1>3 DEF PollStarts
  <2>2. a \in {"baseline", "fetching"}
    OBVIOUS
  <2> HIDE DEF a
  <2>3. x.at = a /\ x.own = NoPoll.own /\ x.live = NoPoll.live /\ x \in PollRecords
    BY <1>1, <2>2 DEF PollRecords, EmailInBounds
  <2> HIDE DEF x
  <2>4. QED
    BY <1>1, <2>1, <2>2, <2>3, PollMoves
<1>4. ASSUME NEW p \in EmailPolls, BaselineSet(p) PROVE EmailParts'
  <2>1. poll' = [poll EXCEPT ![p] = NoPoll] /\ poll[p].at = "baseline"
        /\ UNCHANGED <<emailOrders, quietQueue, heard, emailLost>>
    BY <1>4 DEF BaselineSet
  <2>2. QED
    BY <1>1, <2>1, PollMoves
<1>5. ASSUME NEW p \in EmailPolls, PollFetched(p) PROVE EmailParts'
  <2>1. PICK fetched \in Fetched(p) :
         LET todo == Ascending(fetched)
             last == todo[Len(todo)]
         IN  IF fetched = {}
             THEN /\ emailCursor' = poll[p].base
                  /\ poll' = [poll EXCEPT ![p] = NoPoll]
                  /\ UNCHANGED <<emailOrders, quietQueue>>
             ELSE /\ emailCursor' = IF last > poll[p].base THEN last ELSE poll[p].base
                  /\ RecordOrders(p, todo)
    BY <1>5 DEF PollFetched
  <2>2. poll[p].at = "fetching" /\ UNCHANGED <<heard, emailLost>>
    BY <1>5 DEF PollFetched
  <2>3. CASE fetched = {}
    <3>1. poll' = [poll EXCEPT ![p] = NoPoll] /\ UNCHANGED <<emailOrders, quietQueue>>
      BY <2>1, <2>3
    <3>2. QED
      BY <1>1, <2>2, <3>1, PollMoves
  <2>4. CASE fetched # {}
    <3> DEFINE todo == Ascending(fetched)
    <3>1. RecordOrders(p, todo)
      BY <2>1, <2>4
    <3>2. fetched \in SUBSET Emails /\ IsFiniteSet(fetched) /\ fetched \in SUBSET Int
      BY FetchedAreEmails
    <3>3. /\ todo \in Seq(fetched) /\ \A k \in DOMAIN todo : todo[k] \in fetched
          /\ \A j, k \in DOMAIN todo : todo[j] = todo[k] => j = k
      BY <3>2, AscendingOnce
    <3> HIDE DEF todo
    <3>4. todo \in Seq(Emails)
      <4>1. \A k \in DOMAIN todo : todo[k] \in Emails
        BY <3>2, <3>3
      <4>2. QED
        BY <3>3, <4>1
    <3>5. heard' = heard /\ heard' \in [Orders -> 0 .. 2]
      BY <2>2 DEF EmailInBounds
    <3>6. ApartFrom(p, heard)
      <4>1. \A q \in EmailPolls : poll[q].own # << >> => q # p
        BY <1>2, <2>2 DEF PollsInOrder
      <4>2. ASSUME NEW o, OnItsWay(o)
            PROVE  o \in Range(quietQueue) \/ \E q \in EmailPolls \ {p} : o \in Range(poll[q].own)
        BY <4>1, <4>2 DEF OnItsWay, Range
      <4>3. QED
        BY <1>2, <4>2 DEF ApartFrom, QueueToCome, SendsToCome, HeardAreRecorded
    <3>7. QED
      BY <1>2, <2>2, <3>1, <3>3, <3>4, <3>5, <3>6, RecordingKeepsOrdersApart
  <2>5. QED
    BY <2>3, <2>4
<1>6. ASSUME NEW p \in EmailPolls, OrderAnnounced(p) PROVE EmailParts'
  <2> DEFINE o == poll[p].own[1]
  <2>1. /\ poll[p].at = "sending" /\ RecordOrders(p, poll[p].todo) /\ emailLost' = emailLost
        /\ heard' = [heard EXCEPT ![o] = IF @ < 2 THEN @ + 1 ELSE @]
    BY <1>6 DEF OrderAnnounced, Hear
  <2>2. o \in Orders /\ Range(poll[p].own) = {o}
    BY <1>2, <2>1, OwnIsOne DEF PollsInOrder, EmailInBounds
  <2> HIDE DEF o
  <2>3. /\ heard' \in [Orders -> 0 .. 2] /\ \A x \in Orders \ {o} : heard'[x] = heard[x]
        /\ heard[o] = 0 => heard'[o] = 1
    <3>1. heard[o] \in 0 .. 2 /\ (IF heard[o] < 2 THEN heard[o] + 1 ELSE heard[o]) \in 0 .. 2
      BY <2>2 DEF EmailInBounds
    <3>2. QED
      BY <2>1, <2>2, <3>1 DEF EmailInBounds
  <2>4. o \notin emailLost =>
          /\ Recorded(o) /\ heard'[o] = 1 /\ o \notin Range(quietQueue)
          /\ \A q \in EmailPolls \ {p} : ~ (poll[q].at = "sending" /\ poll[q].own[1] = o)
    BY <1>2, <2>1, <2>3 DEF SendsToCome, o
  <2>5. ApartFrom(p, heard')
    <3>1. \A k \in DOMAIN quietQueue : quietQueue[k] \notin emailLost =>
            /\ Recorded(quietQueue[k])
            /\ heard'[quietQueue[k]] = IF SentFromQueue(k) THEN 1 ELSE 0
      <4>1. ASSUME NEW k \in DOMAIN quietQueue, quietQueue[k] \notin emailLost
            PROVE  quietQueue[k] \in Orders \ {o}
        BY <2>4, <4>1 DEF EmailInBounds, Range
      <4>2. QED
        BY <1>2, <2>3, <4>1 DEF QueueToCome
    <3>2. \A j, k \in DOMAIN quietQueue :
            quietQueue[j] = quietQueue[k] /\ quietQueue[j] \notin emailLost => j = k
      BY <1>2 DEF QueueToCome
    <3>3. ASSUME NEW q \in EmailPolls \ {p}, poll[q].at = "sending", poll[q].own[1] \notin emailLost
          PROVE  /\ Recorded(poll[q].own[1]) /\ heard'[poll[q].own[1]] = 0
                 /\ poll[q].own[1] \notin Range(quietQueue)
                 /\ \A r \in EmailPolls \ {p} :
                      poll[r].at = "sending" /\ poll[r].own[1] = poll[q].own[1] => r = q
      <4>1. poll[q].own[1] \in Orders
        BY <1>2, <3>3, OwnIsOne DEF PollsInOrder, EmailInBounds
      <4>2. poll[q].own[1] # o
        BY <2>4, <3>3
      <4>3. QED
        BY <1>2, <2>3, <3>3, <4>1, <4>2 DEF SendsToCome
    <3>4. ASSUME NEW x \in Orders \ emailLost
          PROVE  /\ heard'[x] # 2 /\ (heard'[x] = 1 => Recorded(x))
                 /\ Recorded(x) => \/ heard'[x] = 1 \/ x \in Range(quietQueue)
                                   \/ \E q \in EmailPolls \ {p} : x \in Range(poll[q].own)
      <4>1. CASE x = o
        BY <2>4, <4>1
      <4>2. CASE x # o
        <5>1. heard'[x] = heard[x] /\ x \notin Range(poll[p].own)
          BY <2>2, <2>3, <4>2
        <5>2. QED
          BY <1>2, <5>1 DEF HeardAreRecorded, OnItsWay
      <4>3. QED
        BY <4>1, <4>2
    <3>5. QED
      BY <3>1, <3>2, <3>3, <3>4 DEF ApartFrom
  <2>6. poll[p].todo \in Seq(Emails)
        /\ \A j, k \in DOMAIN poll[p].todo : poll[p].todo[j] = poll[p].todo[k] => j = k
    BY DEF EmailInBounds, PollRecords, NoRepeats
  <2>7. poll[p].at # "flushing"
    BY <2>1
  <2>8. QED
    BY <1>2, <2>1, <2>3, <2>5, <2>6, <2>7, RecordingKeepsOrdersApart
<1>7. ASSUME NEW p \in EmailPolls, ContractsLookedAt(p) PROVE EmailParts'
  <2> DEFINE x == [NoPoll EXCEPT !.at = "flushing", !.live = TRUE]
  <2>1. /\ poll[p].at = "contracts" /\ UNCHANGED <<emailOrders, quietQueue, heard, emailLost>>
        /\ IF ~emailNight /\ quietQueue # <<>>
           THEN poll' = [poll EXCEPT ![p] = x] /\ flushesMet' = (flushesMet \/ Flushing # {})
           ELSE poll' = [poll EXCEPT ![p] = NoPoll]
    BY <1>7 DEF ContractsLookedAt
  <2>2. CASE ~ (~emailNight /\ quietQueue # <<>>)
    BY <1>1, <2>1, <2>2, PollMoves
  <2>3. CASE ~emailNight /\ quietQueue # <<>>
    <3>1. poll' = [poll EXCEPT ![p] = x] /\ Flushing = {}
      BY <2>1, <2>3
    <3>2. /\ x \in PollRecords /\ x.at = "flushing" /\ x.own = << >> /\ x.live /\ x.base = 0
      <4>1. "flushing" \in {"idle", "baseline", "fetching", "sending", "contracts", "flushing"}
        OBVIOUS
      <4>2. QED
        BY <4>1, PollWith
    <3> HIDE DEF x
    <3>3. poll'[p] = x /\ \A q \in EmailPolls \ {p} : poll'[q] = poll[q] /\ poll[q].at # "flushing"
      BY <3>1 DEF EmailInBounds, Flushing
    <3>4. poll[p].own = << >> /\ \A q \in EmailPolls : poll'[q].own = poll[q].own
      <4>1. poll[p].own = << >>
        BY <1>2, <2>1 DEF PollsInOrder
      <4>2. QED
        BY <3>2, <3>3, <4>1
    <3>5. Len(quietQueue) \in Nat /\ Len(quietQueue) > 0
          /\ \A k \in DOMAIN quietQueue : k \in Nat /\ ~ (k <= 0)
      BY <2>3 DEF EmailInBounds
    <3>6. PollsInOrder'
      <4>1. ASSUME NEW q \in EmailPolls
            PROVE  /\ poll'[q].live <=> poll'[q].at = "flushing"
                   /\ IF poll'[q].at = "sending" THEN Len(poll'[q].own) = 1 ELSE poll'[q].own = <<>>
        <5>1. CASE q = p
          BY <3>2, <3>3, <5>1
        <5>2. CASE q # p
          BY <1>2, <3>3, <5>2 DEF PollsInOrder
        <5>3. QED
          BY <5>1, <5>2
      <4>2. QED
        BY <4>1 DEF PollsInOrder
    <3>7. OneFlush'
      BY <2>1, <3>2, <3>3, <3>5 DEF OneFlush
    <3>8. QueueToCome'
      <4>1. \A k \in DOMAIN quietQueue : ~ SentFromQueue(k)' /\ ~ SentFromQueue(k)
        BY <2>1, <3>2, <3>3, <3>5 DEF SentFromQueue
      <4>2. \A o : Recorded(o)' <=> Recorded(o)
        BY <2>1 DEF Recorded
      <4>3. QED
        BY <1>2, <2>1, <4>1, <4>2 DEF QueueToCome
    <3>9. SendsToCome'
      <4>1. \A q \in EmailPolls : poll'[q].at = "sending" => poll[q].at = "sending" /\ poll'[q] = poll[q]
        BY <3>2, <3>3
      <4>2. \A o : Recorded(o)' <=> Recorded(o)
        BY <2>1 DEF Recorded
      <4>3. QED
        BY <1>2, <2>1, <4>1, <4>2 DEF SendsToCome
    <3>10. HeardAreRecorded'
      <4>1. \A o : (Recorded(o)' <=> Recorded(o)) /\ (OnItsWay(o)' <=> OnItsWay(o))
        BY <2>1, <3>4 DEF Recorded, OnItsWay
      <4>2. QED
        BY <1>2, <2>1, <4>1 DEF HeardAreRecorded
    <3>11. QED
      BY <3>6, <3>7, <3>8, <3>9, <3>10 DEF EmailParts
  <2>4. QED
    BY <2>2, <2>3
<1>8. ASSUME NEW p \in EmailPolls, QueuedAnnounced(p) PROVE EmailParts'
  <2> DEFINE sent == poll[p].base + 1
             o == quietQueue[sent]
             left == [q \in EmailPolls |->
                        IF q = p THEN NoPoll
                        ELSE IF poll[q].live
                             THEN [poll[q] EXCEPT !.live = FALSE, !.own = quietQueue]
                             ELSE poll[q]]
  <2>1. /\ poll[p].at = "flushing" /\ poll[p].live /\ poll[p].base < Len(quietQueue)
        /\ poll[p].base \in Nat /\ Len(quietQueue) \in Nat /\ quietQueue \in Seq(Orders)
        /\ DOMAIN quietQueue = 1 .. Len(quietQueue)
        /\ \A q \in EmailPolls \ {p} : poll[q].at # "flushing" /\ ~ poll[q].live
    <3>1. poll[p].at = "flushing"
      BY <1>8 DEF QueuedAnnounced
    <3>2. poll[p].live /\ poll[p].base < Len(quietQueue)
      BY <1>2, <3>1 DEF PollsInOrder, OneFlush
    <3>3. poll[p] \in PollRecords /\ quietQueue \in Seq(Orders)
      BY DEF EmailInBounds
    <3>4. poll[p].base \in Nat /\ Len(quietQueue) \in Nat /\ DOMAIN quietQueue = 1 .. Len(quietQueue)
      BY <3>3 DEF PollRecords
    <3>5. \A q \in EmailPolls \ {p} : poll[q].at # "flushing"
      BY <1>2, <3>1 DEF OneFlush
    <3>6. \A q \in EmailPolls \ {p} : ~ poll[q].live
      BY <1>2, <3>5 DEF PollsInOrder
    <3>7. QED
      BY <3>1, <3>2, <3>3, <3>4, <3>5, <3>6
  <2>2. /\ heard' = [heard EXCEPT ![o] = IF @ < 2 THEN @ + 1 ELSE @]
        /\ UNCHANGED <<emailOrders, emailLost>>
        /\ IF sent < Len(quietQueue)
           THEN poll' = [poll EXCEPT ![p].base = sent] /\ quietQueue' = quietQueue
           ELSE quietQueue' = << >> /\ poll' = left
    BY <1>8, <2>1 DEF QueuedAnnounced, Array, Hear
  <2>3. sent \in DOMAIN quietQueue /\ sent \in Nat /\ o \in Orders
    BY <2>1
  <2>4. \A k \in DOMAIN quietQueue : SentFromQueue(k) <=> k <= poll[p].base
    BY <2>1 DEF SentFromQueue
  <2>5. ~ SentFromQueue(sent)
    BY <2>1, <2>3, <2>4
  <2>6. o \notin emailLost => heard[o] = 0 /\ Recorded(o)
    BY <1>2, <2>3, <2>5 DEF QueueToCome
  <2> HIDE DEF o, left
  <2>7. /\ \A x \in Orders \ {o} : heard'[x] = heard[x]
        /\ heard[o] = 0 => heard'[o] = 1
    <3>1. heard[o] \in 0 .. 2 /\ (IF heard[o] < 2 THEN heard[o] + 1 ELSE heard[o]) \in 0 .. 2
      BY <2>3 DEF EmailInBounds
    <3>2. QED
      BY <2>2, <2>3, <3>1 DEF EmailInBounds
  <2>8. \A x : Recorded(x)' <=> Recorded(x)
    BY <2>2 DEF Recorded
  <2>9. ASSUME NEW q \in EmailPolls, poll[q].at = "sending", poll[q].own[1] \notin emailLost
        PROVE  heard'[poll[q].own[1]] = 0
    <3>1. poll[q].own[1] \in Orders /\ heard[poll[q].own[1]] = 0
          /\ poll[q].own[1] \notin Range(quietQueue)
      BY <1>2, <2>9, OwnIsOne DEF PollsInOrder, SendsToCome, EmailInBounds
    <3>2. o \in Range(quietQueue)
      BY <2>3 DEF Range, o
    <3>3. QED
      BY <2>7, <3>1, <3>2
  <2>10. ASSUME NEW x \in Orders \ emailLost
         PROVE  /\ heard'[x] # 2 /\ (heard'[x] = 1 => Recorded(x))
                /\ heard[x] = 1 => heard'[x] = 1
    <3>1. CASE x = o
      BY <2>6, <2>7, <3>1
    <3>2. CASE x # o
      BY <1>2, <2>7, <3>2 DEF HeardAreRecorded
    <3>3. QED
      BY <3>1, <3>2
  <2>11. CASE sent < Len(quietQueue)
    <3>1. poll' = [poll EXCEPT ![p].base = sent] /\ quietQueue' = quietQueue
      BY <2>2, <2>11
    <3> HIDE DEF sent
    <3>2. /\ poll'[p].base = sent /\ \A q \in EmailPolls \ {p} : poll'[q] = poll[q]
          /\ \A q \in EmailPolls : /\ poll'[q].at = poll[q].at /\ poll'[q].own = poll[q].own
                                   /\ poll'[q].live = poll[q].live
      BY <2>3, <3>1 DEF EmailInBounds, PollRecords
    <3>3. PollsInOrder'
      BY <1>2, <3>2 DEF PollsInOrder
    <3>4. OneFlush'
      <4>1. \A q \in EmailPolls : poll'[q].at = "flushing" => q = p
        BY <2>1, <3>2
      <4>2. poll'[p].base < Len(quietQueue')
        BY <2>11, <3>1, <3>2
      <4>3. QED
        BY <4>1, <4>2 DEF OneFlush
    <3>5. ASSUME NEW k \in DOMAIN quietQueue, quietQueue[k] \notin emailLost
          PROVE  heard'[quietQueue[k]] = IF SentFromQueue(k)' THEN 1 ELSE 0
      <4>1. SentFromQueue(k)' <=> k <= sent
        BY <2>1, <3>2 DEF SentFromQueue
      <4>2. CASE k = sent
        <5>1. quietQueue[k] = o /\ k <= sent
          BY <2>3, <4>2 DEF o
        <5>2. QED
          BY <2>6, <2>7, <3>5, <4>1, <5>1
      <4>3. CASE k # sent
        <5>1. quietQueue[k] # o
          BY <1>2, <2>3, <3>5, <4>3 DEF QueueToCome, o
        <5>2. heard'[quietQueue[k]] = heard[quietQueue[k]]
          BY <2>1, <2>7, <5>1
        <5>3. k <= sent <=> k <= poll[p].base
          BY <2>1, <4>3 DEF sent
        <5>4. QED
          BY <1>2, <2>4, <3>5, <4>1, <5>2, <5>3 DEF QueueToCome
      <4>4. QED
        BY <4>2, <4>3
    <3>6. QueueToCome'
      BY <1>2, <2>2, <2>8, <3>1, <3>5 DEF QueueToCome
    <3>7. SendsToCome'
      BY <1>2, <2>2, <2>8, <2>9, <3>1, <3>2 DEF SendsToCome
    <3>8. HeardAreRecorded'
      <4>1. \A x : OnItsWay(x)' <=> OnItsWay(x)
        BY <3>1, <3>2 DEF OnItsWay
      <4>2. QED
        BY <1>2, <2>2, <2>8, <2>10, <4>1 DEF HeardAreRecorded
    <3>9. QED
      BY <3>3, <3>4, <3>6, <3>7, <3>8 DEF EmailParts
  <2>12. CASE ~ (sent < Len(quietQueue))
    <3>1. poll' = left /\ quietQueue' = << >> /\ sent = Len(quietQueue)
      BY <2>1, <2>2, <2>12
    <3>2. poll'[p] = NoPoll /\ \A q \in EmailPolls \ {p} : poll'[q] = poll[q]
      BY <2>1, <3>1 DEF left
    <3>3. poll[p].own = << >>
      BY <1>2, <2>1 DEF PollsInOrder
    <3>4. \A k \in DOMAIN quietQueue : quietQueue[k] \notin emailLost => heard'[quietQueue[k]] = 1
      <4>1. ASSUME NEW k \in DOMAIN quietQueue, quietQueue[k] \notin emailLost
            PROVE  heard'[quietQueue[k]] = 1
        <5>1. CASE k = sent
          <6>1. quietQueue[k] = o
            BY <5>1 DEF o
          <6>2. QED
            BY <2>6, <2>7, <4>1, <6>1
        <5>2. CASE k # sent
          <6>1. k <= poll[p].base
            BY <2>1, <3>1, <5>2
          <6>2. heard[quietQueue[k]] = 1 /\ quietQueue[k] \in Orders
            BY <1>2, <2>1, <2>4, <4>1, <6>1 DEF QueueToCome
          <6>3. QED
            BY <2>10, <4>1, <6>2
        <5>3. QED
          BY <5>1, <5>2
      <4>2. QED
        BY <4>1
    <3> HIDE DEF sent
    <3>5. PollsInOrder'
      <4>1. ASSUME NEW q \in EmailPolls
            PROVE  /\ poll'[q].live <=> poll'[q].at = "flushing"
                   /\ IF poll'[q].at = "sending" THEN Len(poll'[q].own) = 1 ELSE poll'[q].own = <<>>
        <5>1. CASE q = p
          BY <1>1, <3>2, <5>1
        <5>2. CASE q # p
          BY <1>2, <3>2, <5>2 DEF PollsInOrder
        <5>3. QED
          BY <5>1, <5>2
      <4>2. QED
        BY <4>1 DEF PollsInOrder
    <3>6. OneFlush'
      BY <1>1, <2>1, <3>2 DEF OneFlush
    <3>7. QueueToCome'
      BY <3>1 DEF QueueToCome
    <3>8. SendsToCome'
      <4>1. \A q \in EmailPolls : poll'[q].at = "sending" => poll[q].at = "sending" /\ poll'[q] = poll[q]
        BY <1>1, <3>2
      <4>2. Range(quietQueue') = {}
        BY <3>1 DEF Range
      <4>3. QED
        BY <1>2, <2>2, <2>8, <2>9, <4>1, <4>2 DEF SendsToCome
    <3>9. HeardAreRecorded'
      <4>1. ASSUME NEW x \in Orders \ emailLost, Recorded(x)
            PROVE  heard'[x] = 1 \/ OnItsWay(x)'
        <5>1. heard[x] = 1 \/ OnItsWay(x)
          BY <1>2, <4>1 DEF HeardAreRecorded
        <5>2. CASE heard[x] = 1
          BY <2>10, <5>2
        <5>3. CASE x \in Range(quietQueue)
          BY <3>4, <4>1, <5>3 DEF Range
        <5>4. ASSUME NEW q \in EmailPolls, x \in Range(poll[q].own)
              PROVE  OnItsWay(x)'
          <6>1. q # p
            BY <3>3, <5>4 DEF Range
          <6>2. QED
            BY <3>2, <5>4, <6>1 DEF OnItsWay
        <5>5. QED
          BY <5>1, <5>2, <5>3, <5>4 DEF OnItsWay
      <4>2. QED
        BY <2>2, <2>8, <2>10, <4>1 DEF HeardAreRecorded
    <3>10. QED
      BY <3>5, <3>6, <3>7, <3>8, <3>9 DEF EmailParts
  <2>13. QED
    BY <2>11, <2>12
<1>9. CASE EmailRestart
  <2>1. /\ poll' = [p \in EmailPolls |-> NoPoll] /\ quietQueue' = << >> /\ heard' = heard
        /\ \/ emailLost' = emailLost \cup Unheard /\ emailOrders' = emailOrders
           \/ emailLost' = Orders
    BY <1>9 DEF EmailRestart
  <2>2. \A p \in EmailPolls : poll'[p] = NoPoll
    BY <2>1
  <2>3. PollsInOrder' /\ OneFlush' /\ SendsToCome'
    BY <1>1, <2>2 DEF PollsInOrder, OneFlush, SendsToCome
  <2>4. QueueToCome'
    BY <2>1 DEF QueueToCome
  <2>5. HeardAreRecorded'
    <3>1. CASE emailLost' = Orders
      BY <3>1 DEF HeardAreRecorded
    <3>2. CASE emailLost' = emailLost \cup Unheard /\ emailOrders' = emailOrders
      <4>1. ASSUME NEW x \in Orders \ emailLost'
            PROVE  /\ heard'[x] # 2 /\ (heard'[x] = 1 => Recorded(x)')
                   /\ Recorded(x)' => heard'[x] = 1
        <5>1. x \in Orders \ emailLost /\ (Recorded(x)' <=> Recorded(x)) /\ heard[x] \in 0 .. 2
          BY <3>2, <4>1 DEF Recorded, EmailInBounds
        <5>2. Recorded(x) => heard[x] # 0
          BY <3>2, <4>1 DEF Unheard, Recorded
        <5>3. QED
          BY <1>2, <2>1, <5>1, <5>2 DEF HeardAreRecorded
      <4>2. QED
        BY <4>1 DEF HeardAreRecorded
    <3>3. QED
      BY <2>1, <3>1, <3>2
  <2>6. QED
    BY <2>3, <2>4, <2>5 DEF EmailParts
<1>10. CASE EmailArrives \/ EmailHourPasses \/ UNCHANGED emailVars
  <2>1. UNCHANGED <<emailOrders, quietQueue, poll, heard, emailLost>>
    BY <1>10 DEF EmailArrives, EmailHourPasses, emailVars
  <2>2. \A x : /\ Recorded(x)' <=> Recorded(x)
               /\ OnItsWay(x)' <=> OnItsWay(x)
               /\ SentFromQueue(x)' <=> SentFromQueue(x)
    BY <2>1 DEF Recorded, OnItsWay, SentFromQueue
  <2>3. PollsInOrder' /\ OneFlush'
    BY <1>2, <2>1 DEF PollsInOrder, OneFlush
  <2>4. QueueToCome' /\ SendsToCome' /\ HeardAreRecorded'
    BY <1>2, <2>1, <2>2 DEF QueueToCome, SendsToCome, HeardAreRecorded
  <2>5. QED
    BY <2>3, <2>4 DEF EmailParts
<1>11. QED
  BY <1>3, <1>4, <1>5, <1>6, <1>7, <1>8, <1>9, <1>10 DEF EmailNext

(***************************************************************************)
(* email/email-poller.ts announces a recorded order once, by day or from   *)
(* the queue of the night, however its polls overlap and however often an  *)
(* email is fetched again; only a death loses or repeats one, or two       *)
(* flushes of the queue that meet.                                         *)
(***************************************************************************)
THEOREM OrdersAnnouncedOnce == EmailSpec => []OrdersHeardOnce
<1>1. EmailInit => EmailInv
  BY EmailInvInit
<1>2. EmailInv /\ [EmailNext]_emailVars => EmailInv'
  <2> SUFFICES ASSUME EmailInv, [EmailNext]_emailVars PROVE EmailInv'
    OBVIOUS
  <2>1. EmailInBounds /\ NoRepeats /\ (flushesMet \/ EmailParts)
    BY DEF EmailInv, EmailParts
  <2>2. EmailInBounds' /\ NoRepeats'
    BY <2>1, EmailTypes
  <2>3. flushesMet => flushesMet'
    BY DEF EmailNext, emailVars, PollStarts, BaselineSet, PollFetched, OrderAnnounced,
           ContractsLookedAt, QueuedAnnounced, EmailArrives, EmailHourPasses, EmailRestart
  <2>4. flushesMet' \/ EmailParts'
    BY <2>1, <2>3, EmailPartsStep
  <2>5. QED
    BY <2>2, <2>4 DEF EmailInv, EmailParts
<1>3. EmailInv => OrdersHeardOnce
  <2> SUFFICES ASSUME EmailInv, ~ flushesMet, NEW o \in Orders \ emailLost
               PROVE  /\ heard[o] < 2
                      /\ (\E e \in emailOrders : OrderOf[e] = o) => heard[o] = 1 \/ OnItsWay(o)
    BY DEF OrdersHeardOnce
  <2>1. heard[o] \in 0 .. 2 /\ heard[o] # 2
    BY DEF EmailInv, EmailInBounds, HeardAreRecorded
  <2>2. QED
    BY <2>1 DEF EmailInv, HeardAreRecorded, Recorded
<1>4. QED
  BY <1>1, <1>2, <1>3, PTL DEF EmailSpec

-----------------------------------------------------------------------------
(* The scans of the machine *)

Alerts == [id : Nat, now : BOOLEAN]
OfThisHour(alerts) == {i \in DOMAIN alerts : alerts[i].now}

(* What Nimrod's file may hold: no more alerts of the hour than counted.   *)
SoundFile(x) ==
    /\ x \in [hour : {"never", "this", "past"}, count : Nat, alerts : Seq(Alerts)]
    /\ x.count <= MaxAlertsPerHour /\ Len(x.alerts) <= MaxAlerts
    /\ Cardinality(OfThisHour(x.alerts)) <= x.count

(* And what becomes of it: nothing is lost from it while it is not full.   *)
Grown(old, new) ==
    SoundFile(new) /\ (Len(new.alerts) = MaxAlerts \/ IdsOf(old) \subseteq IdsOf(new))

ScansInv ==
    /\ SoundFile(nimrod) /\ nextAlert \in Nat
    /\ \A s \in Scanning : scans[s] = NoScan \/ SoundFile(scans[s].state)
    /\ DOMAIN scans = Scanning
    /\ reported \ dropped \subseteq IdsOf(nimrod)

LEMMA HourIsFinite ==
    ASSUME NEW alerts \in Seq(Alerts)
    PROVE  /\ IsFiniteSet(OfThisHour(alerts)) /\ Cardinality(OfThisHour(alerts)) \in Nat
           /\ OfThisHour(alerts) \subseteq 1 .. Len(alerts) /\ Len(alerts) \in Nat
           /\ DOMAIN alerts = 1 .. Len(alerts)
<1>1. Len(alerts) \in Nat /\ DOMAIN alerts = 1 .. Len(alerts)
  OBVIOUS
<1>2. OfThisHour(alerts) \subseteq 1 .. Len(alerts)
  BY <1>1 DEF OfThisHour
<1>3. IsFiniteSet(1 .. Len(alerts))
  BY <1>1, FS_Interval
<1>4. QED
  BY <1>1, <1>2, <1>3, FS_Subset, FS_CardinalityType

LEMMA OpenedIsSound ==
    ASSUME NEW x, SoundFile(x)
    PROVE  /\ SoundFile(Opened(x)) /\ IdsOf(Opened(x)) = IdsOf(x)
           /\ Len(Opened(x).alerts) = Len(x.alerts)
<1>1. CASE x.hour = "this"
  BY <1>1 DEF Opened
<1>2. CASE x.hour # "this"
  <2> DEFINE new == [i \in DOMAIN x.alerts |-> [x.alerts[i] EXCEPT !.now = FALSE]]
  <2>1. x.alerts \in Seq(Alerts) /\ Len(x.alerts) \in Nat /\ DOMAIN x.alerts = 1 .. Len(x.alerts)
    BY DEF SoundFile
  <2>2. \A i \in DOMAIN x.alerts : new[i] \in Alerts /\ new[i].id = x.alerts[i].id /\ new[i].now = FALSE
    <3>1. \A i \in DOMAIN x.alerts : x.alerts[i] \in Alerts
      BY <2>1
    <3>2. QED
      BY <3>1, Zenon DEF Alerts
  <2>3. DOMAIN new = 1 .. Len(x.alerts) /\ new = [i \in 1 .. Len(x.alerts) |-> new[i]]
    BY <2>1
  <2>4. Opened(x) = [x EXCEPT !.hour = "this", !.count = 0, !.alerts = new]
    BY <1>2 DEF Opened
  <2> HIDE DEF new
  <2>5. new \in Seq(Alerts) /\ Len(new) = Len(x.alerts)
    <3>1. \A i \in 1 .. Len(x.alerts) : new[i] \in Alerts
      BY <2>1, <2>2
    <3>2. new \in [1 .. Len(x.alerts) -> Alerts]
      BY <2>3, <3>1
    <3>3. QED
      BY <2>1, <3>2
  <2>6. OfThisHour(new) = {}
    BY <2>1, <2>2, <2>3 DEF OfThisHour
  <2>7. Opened(x).count = 0 /\ Opened(x).alerts = new
        /\ Opened(x) \in [hour : {"never", "this", "past"}, count : Nat, alerts : Seq(Alerts)]
    <3>1. x \in [hour : {"never", "this", "past"}, count : Nat, alerts : Seq(Alerts)]
      BY DEF SoundFile
    <3>2. Opened(x).count = 0 /\ Opened(x).alerts = new
      BY <2>4, <3>1
    <3>3. Opened(x) = [hour |-> "this", count |-> 0, alerts |-> new]
      BY <2>4, <3>1
    <3>4. QED
      BY <2>5, <3>2, <3>3
  <2>8. {new[i].id : i \in DOMAIN new} = {x.alerts[i].id : i \in DOMAIN x.alerts}
    BY <2>1, <2>2, <2>3
  <2>9. IdsOf(Opened(x)) = IdsOf(x)
    BY <2>7, <2>8 DEF IdsOf
  <2>10. Cardinality(OfThisHour(new)) = 0
    BY <2>6, FS_EmptySet
  <2>11. SoundFile(Opened(x))
    BY <2>5, <2>7, <2>10, ScansAssumption DEF SoundFile
  <2>12. QED
    BY <2>5, <2>7, <2>9, <2>11
<1>3. QED
  BY <1>1, <1>2

(* One alert more at the head, and none beyond the limit at the tail.      *)
LEMMA AlertAtHead ==
    ASSUME NEW alerts \in Seq(Alerts), Len(alerts) <= MaxAlerts, NEW id \in Nat
    PROVE  LET all == <<[id |-> id, now |-> TRUE]>> \o alerts
               new == SubSeq(all, 1, IF Len(all) > MaxAlerts THEN MaxAlerts ELSE Len(all))
           IN  /\ new \in Seq(Alerts) /\ Len(new) <= MaxAlerts
               /\ Cardinality(OfThisHour(new)) <= Cardinality(OfThisHour(alerts)) + 1
               /\ Len(alerts) = MaxAlerts => Len(new) = MaxAlerts
               /\ \/ Len(new) = MaxAlerts
                  \/ \A i \in DOMAIN alerts : i + 1 \in DOMAIN new /\ new[i + 1] = alerts[i]
<1> DEFINE alert == [id |-> id, now |-> TRUE]
           all == <<alert>> \o alerts
           n == IF Len(all) > MaxAlerts THEN MaxAlerts ELSE Len(all)
           new == SubSeq(all, 1, n)
           old == OfThisHour(alerts)
           f == [i \in OfThisHour(new) \ {1} |-> i - 1]
<1>1. alert \in Alerts
  BY Zenon DEF Alerts
<1> HIDE DEF alert
<1>2. /\ all \in Seq(Alerts) /\ Len(all) = Len(alerts) + 1 /\ Len(alerts) \in Nat
      /\ \A i \in 1 .. Len(alerts) : all[i + 1] = alerts[i]
      /\ DOMAIN alerts = 1 .. Len(alerts)
  BY <1>1
<1> HIDE DEF all
<1>3. /\ n \in Nat /\ n <= Len(all) /\ n <= MaxAlerts /\ (n = MaxAlerts \/ n = Len(all))
      /\ Len(alerts) = MaxAlerts => n = MaxAlerts
  <2>1. Len(all) \in Nat /\ MaxAlerts \in Nat /\ Len(all) = Len(alerts) + 1
    BY <1>2, ScansAssumption
  <2>2. CASE Len(all) > MaxAlerts
    BY <2>1, <2>2
  <2>3. CASE ~ (Len(all) > MaxAlerts)
    <3>1. n = Len(all) /\ Len(all) <= MaxAlerts /\ Len(alerts) # MaxAlerts
      BY <1>2, <2>1, <2>3
    <3>2. QED
      BY <2>1, <3>1
  <2>4. QED
    BY <2>2, <2>3
<1> HIDE DEF n
<1>4. new \in Seq(Alerts) /\ Len(new) = n /\ \A i \in 1 .. n : new[i] = all[i]
  BY <1>2, <1>3
<1> HIDE DEF new
<1>5. DOMAIN new = 1 .. n
  BY <1>4
<1>6. \A i \in OfThisHour(new) \ {1} : i \in Int /\ i - 1 \in old
  <2>1. ASSUME NEW i \in OfThisHour(new), i # 1 PROVE i \in Int /\ i - 1 \in old
    <3>1. i \in 1 .. n /\ new[i].now
      BY <1>5 DEF OfThisHour
    <3>2. i - 1 \in 1 .. Len(alerts) /\ i = (i - 1) + 1
      BY <1>2, <1>3, <2>1, <3>1
    <3>3. new[i] = alerts[i - 1]
      BY <1>2, <1>4, <3>1, <3>2
    <3>4. QED
      BY <1>2, <3>1, <3>2, <3>3 DEF OfThisHour
  <2>2. QED
    BY <2>1
<1>7. IsFiniteSet(old) /\ Cardinality(old) \in Nat /\ IsFiniteSet(OfThisHour(new))
      /\ Cardinality(OfThisHour(new)) \in Nat
  BY <1>4, HourIsFinite
<1> HIDE DEF old
<1>8. f \in Injection(OfThisHour(new) \ {1}, old)
  BY <1>6 DEF Injection, IsInjective
<1> HIDE DEF f
<1>9. Cardinality(OfThisHour(new) \ {1}) <= Cardinality(old)
  BY <1>7, <1>8, FS_Injection
<1>10. Cardinality(OfThisHour(new)) <= Cardinality(old) + 1
  <2>1. Cardinality(OfThisHour(new) \ {1})
          = IF 1 \in OfThisHour(new) THEN Cardinality(OfThisHour(new)) - 1
            ELSE Cardinality(OfThisHour(new))
    BY <1>7, FS_RemoveElement
  <2>2. QED
    BY <1>7, <1>9, <2>1
<1>11. n = MaxAlerts \/ \A i \in DOMAIN alerts : i + 1 \in DOMAIN new /\ new[i + 1] = alerts[i]
  BY <1>2, <1>3, <1>4, <1>5
<1>12. QED
  BY <1>3, <1>4, <1>10, <1>11 DEF new, n, all, alert, old

LEMMA RecordGrows ==
    ASSUME NEW old, NEW x, Grown(old, x), CanSendAlert(x), NEW id \in Nat
    PROVE  Grown(old, RecordAlert(x, id))
<1> DEFINE o == Opened(x)
           all == <<[id |-> id, now |-> TRUE]>> \o o.alerts
           new == SubSeq(all, 1, IF Len(all) > MaxAlerts THEN MaxAlerts ELSE Len(all))
<1>1. /\ SoundFile(o) /\ IdsOf(o) = IdsOf(x) /\ Len(o.alerts) = Len(x.alerts)
      /\ o.count < MaxAlertsPerHour
  BY OpenedIsSound DEF Grown, CanSendAlert
<1>2. /\ o \in [hour : {"never", "this", "past"}, count : Nat, alerts : Seq(Alerts)]
      /\ o.alerts \in Seq(Alerts) /\ o.count \in Nat /\ Len(o.alerts) <= MaxAlerts
      /\ Cardinality(OfThisHour(o.alerts)) <= o.count
  BY <1>1 DEF SoundFile
<1>3. RecordAlert(x, id) = [o EXCEPT !.alerts = new, !.count = @ + 1]
  BY DEF RecordAlert
<1> HIDE DEF o
<1>4. /\ new \in Seq(Alerts) /\ Len(new) <= MaxAlerts
      /\ Cardinality(OfThisHour(new)) <= Cardinality(OfThisHour(o.alerts)) + 1
      /\ Len(o.alerts) = MaxAlerts => Len(new) = MaxAlerts
      /\ \/ Len(new) = MaxAlerts
         \/ \A i \in DOMAIN o.alerts : i + 1 \in DOMAIN new /\ new[i + 1] = o.alerts[i]
  BY <1>2, AlertAtHead
<1> HIDE DEF new
<1> DEFINE y == RecordAlert(x, id)
<1>5. /\ y \in [hour : {"never", "this", "past"}, count : Nat, alerts : Seq(Alerts)]
      /\ y.alerts = new /\ y.count = o.count + 1
  <2>1. y.alerts = new /\ y.count = o.count + 1
    BY <1>2, <1>3
  <2>2. y = [hour |-> o.hour, count |-> o.count + 1, alerts |-> new]
    BY <1>2, <1>3
  <2>3. QED
    BY <1>2, <1>4, <2>1, <2>2
<1> HIDE DEF y
<1>6. SoundFile(y)
  <2>1. y.count <= MaxAlertsPerHour
    BY <1>1, <1>2, <1>5, ScansAssumption
  <2>2. Cardinality(OfThisHour(o.alerts)) \in Nat /\ Cardinality(OfThisHour(new)) \in Nat
    BY <1>2, <1>4, HourIsFinite
  <2>3. Cardinality(OfThisHour(y.alerts)) <= y.count
    BY <1>2, <1>4, <1>5, <2>2
  <2>4. QED
    BY <1>4, <1>5, <2>1, <2>3 DEF SoundFile
<1>7. CASE Len(new) = MaxAlerts
  BY <1>5, <1>6, <1>7 DEF Grown, y
<1>8. CASE Len(new) # MaxAlerts
  <2>1. ASSUME NEW i \in DOMAIN o.alerts PROVE o.alerts[i].id \in IdsOf(y)
    BY <1>4, <1>5, <1>8 DEF IdsOf
  <2>2. IdsOf(o) \subseteq IdsOf(y)
    BY <2>1 DEF IdsOf
  <2>3. IdsOf(old) \subseteq IdsOf(o) \/ Len(o.alerts) = MaxAlerts
    BY <1>1 DEF Grown
  <2>4. Len(o.alerts) # MaxAlerts
    BY <1>4, <1>8
  <2>5. QED
    BY <1>6, <2>2, <2>3, <2>4 DEF Grown, y
<1>9. QED
  BY <1>7, <1>8

(* The alerts of a scan are written one by one, so the state after k of    *)
(* them is a function of k: there is one, for every number of findings.    *)
LEMMA RaisingIsAFunction ==
    ASSUME NEW start, NEW n \in Nat
    PROVE  \E F : F = [k \in 0 .. n |->
             IF k = 0 THEN start
             ELSE IF CanSendAlert(F[k - 1]) THEN RecordAlert(F[k - 1], nextAlert + k - 1)
             ELSE F[k - 1]]
<1> DEFINE Is(F, m) == F = [k \in 0 .. m |->
             IF k = 0 THEN start
             ELSE IF CanSendAlert(F[k - 1]) THEN RecordAlert(F[k - 1], nextAlert + k - 1)
             ELSE F[k - 1]]
           S == {m \in 0 .. n : ~ \E F : Is(F, m)}
           key == [m \in S |-> m]
<1>1. S = {}
  <2> SUFFICES ASSUME S # {} PROVE FALSE
    OBVIOUS
  <2>1. S \in SUBSET (0 .. n) /\ IsFiniteSet(0 .. n) /\ 0 .. n \in SUBSET Int
    BY FS_Interval
  <2>2. \A m \in S : key[m] = m
    OBVIOUS
  <2>3. \A m \in S : m \in 0 .. n /\ ~ \E F : Is(F, m)
    OBVIOUS
  <2>4. \A m \in 0 .. n : m \notin S => \E F : Is(F, m)
    OBVIOUS
  <2> HIDE DEF S, key, Is
  <2>5. S \in SUBSET Int /\ IsFiniteSet(S)
    BY <2>1, FS_Subset
  <2>6. PICK m \in S : \A l \in S : ~ (key[l] < key[m])
    BY <2>2, <2>5, SmallestKey
  <2>7. m \in 0 .. n /\ \A l \in S : ~ (l < m)
    BY <2>1, <2>2, <2>6
  <2>8. CASE m = 0
    <3> DEFINE F == [k \in 0 .. 0 |-> start]
    <3>1. Is(F, 0)
      BY DEF Is
    <3>2. QED
      BY <2>3, <2>8, <3>1
  <2>9. CASE m # 0
    <3>1. m - 1 \in 0 .. n /\ m - 1 \notin S /\ m \in Nat
      BY <2>7, <2>9
    <3>2. PICK f : Is(f, m - 1)
      BY <2>4, <3>1
    <3> DEFINE last == IF CanSendAlert(f[m - 1]) THEN RecordAlert(f[m - 1], nextAlert + m - 1)
                       ELSE f[m - 1]
               F == [k \in 0 .. m |-> IF k = m THEN last ELSE f[k]]
               G == [k \in 0 .. m |->
                       IF k = 0 THEN start
                       ELSE IF CanSendAlert(F[k - 1]) THEN RecordAlert(F[k - 1], nextAlert + k - 1)
                       ELSE F[k - 1]]
    <3>3. \A k \in 0 .. m - 1 :
             f[k] = IF k = 0 THEN start
                    ELSE IF CanSendAlert(f[k - 1]) THEN RecordAlert(f[k - 1], nextAlert + k - 1)
                    ELSE f[k - 1]
      BY <3>2 DEF Is
    <3>4. \A k \in 0 .. m : F[k] = IF k = m THEN last ELSE f[k]
      OBVIOUS
    <3>5. \A k \in 1 .. m : F[k - 1] = f[k - 1]
      BY <3>1, <3>4
    <3>6. \A k \in 0 .. m : G[k] = IF k = 0 THEN start
                       ELSE IF CanSendAlert(F[k - 1]) THEN RecordAlert(F[k - 1], nextAlert + k - 1)
                       ELSE F[k - 1]
      OBVIOUS
    <3>7. ASSUME NEW k \in 0 .. m PROVE F[k] = G[k]
      <4> HIDE DEF F, G
      <4>1. CASE k = 0
        BY <2>9, <3>1, <3>3, <3>4, <3>6, <4>1
      <4>2. CASE k # 0 /\ k = m
        BY <3>1, <3>4, <3>5, <3>6, <4>2
      <4>3. CASE k # 0 /\ k # m
        BY <3>1, <3>3, <3>4, <3>5, <3>6, <4>3
      <4>4. QED
        BY <4>1, <4>2, <4>3
    <3>8. F = [k \in 0 .. m |-> F[k]] /\ G = [k \in 0 .. m |-> G[k]]
      OBVIOUS
    <3> HIDE DEF F, last
    <3>9. F = G
      <4> HIDE DEF G
      <4>1. QED
        BY <3>7, <3>8
    <3>10. Is(F, m)
      BY <3>9 DEF Is
    <3>11. QED
      BY <2>3, <3>10
  <2>10. QED
    BY <2>8, <2>9
<1>2. n \in 0 .. n
  OBVIOUS
<1>3. QED
  BY <1>1, <1>2

LEMMA RaisedGrows ==
    ASSUME NEW state, SoundFile(state), NEW n \in Nat, nextAlert \in Nat
    PROVE  Grown(state, Raised(state, n))
<1> DEFINE start == IF n = 0 THEN state ELSE Opened(state)
           Is(F) == F = [k \in 0 .. n |->
             IF k = 0 THEN start
             ELSE IF CanSendAlert(F[k - 1]) THEN RecordAlert(F[k - 1], nextAlert + k - 1)
             ELSE F[k - 1]]
           f == CHOOSE F : Is(F)
           S == {k \in 0 .. n : ~ Grown(state, f[k])}
           key == [k \in S |-> k]
<1>1. Raised(state, n) = f[n]
  BY DEF Raised
<1>2. Grown(state, start)
  BY OpenedIsSound DEF Grown
<1> HIDE DEF start
<1>3. \E F : Is(F)
  BY RaisingIsAFunction
<1>4. Is(f)
  <2> HIDE DEF Is
  <2>1. QED
    BY <1>3
<1> HIDE DEF f
<1>5. f[0] = start
  BY <1>4
<1>6. \A k \in 1 .. n : f[k] = IF CanSendAlert(f[k - 1])
                               THEN RecordAlert(f[k - 1], nextAlert + k - 1) ELSE f[k - 1]
  BY <1>4
<1> HIDE DEF Is
<1>7. \A k \in 1 .. n : Grown(state, f[k - 1]) => Grown(state, f[k])
  <2> SUFFICES ASSUME NEW k \in 1 .. n, Grown(state, f[k - 1]) PROVE Grown(state, f[k])
    OBVIOUS
  <2>1. nextAlert + k - 1 \in Nat
    OBVIOUS
  <2>2. CASE CanSendAlert(f[k - 1])
    <3>1. f[k] = RecordAlert(f[k - 1], nextAlert + k - 1)
      BY <1>6, <2>2
    <3>2. QED
      BY <2>1, <2>2, <3>1, RecordGrows
  <2>3. CASE ~ CanSendAlert(f[k - 1])
    BY <1>6, <2>3
  <2>4. QED
    BY <2>2, <2>3
<1>8. S = {}
  <2> SUFFICES ASSUME S # {} PROVE FALSE
    OBVIOUS
  <2>1. S \in SUBSET (0 .. n) /\ IsFiniteSet(0 .. n) /\ 0 .. n \in SUBSET Int
    BY FS_Interval
  <2>2. \A k \in S : key[k] = k
    OBVIOUS
  <2>3. \A k \in 0 .. n : k \in S <=> ~ Grown(state, f[k])
    OBVIOUS
  <2> HIDE DEF S, key
  <2>4. S \in SUBSET Int /\ IsFiniteSet(S)
    BY <2>1, FS_Subset
  <2>5. PICK k \in S : \A l \in S : ~ (key[l] < key[k])
    BY <2>2, <2>4, SmallestKey
  <2>6. k \in 0 .. n /\ \A l \in S : ~ (l < k)
    BY <2>1, <2>2, <2>5
  <2>7. k # 0
    BY <1>2, <1>5, <2>3, <2>6
  <2>8. k \in 1 .. n /\ k - 1 \in 0 .. n /\ k - 1 \notin S
    BY <2>6, <2>7
  <2>9. QED
    BY <1>7, <2>3, <2>6, <2>8
<1>9. n \in 0 .. n
  OBVIOUS
<1>10. QED
  BY <1>1, <1>8, <1>9

LEMMA ScoredGrows ==
    ASSUME NEW state, SoundFile(state), NEW seen, IsFiniteSet(HighFindings(seen)), nextAlert \in Nat
    PROVE  Grown(state, WithScore(state, seen))
<1> DEFINE raised == Raised(state, Cardinality(HighFindings(seen)))
<1>1. Grown(state, raised)
  BY RaisedGrows, FS_CardinalityType
<1> HIDE DEF raised
<1>2. Grown(state, Opened(raised))
  BY <1>1, OpenedIsSound DEF Grown
<1>3. CanSendAlert(raised) => Grown(state, RecordAlert(raised, nextAlert))
  BY <1>1, RecordGrows
<1>4. QED
  BY <1>1, <1>2, <1>3 DEF WithScore, raised

LEMMA HighAreFew ==
    ASSUME NEW seen
    PROVE  IsFiniteSet(HighFindings(seen))
<1> DEFINE signs == {"odd process", "odd connection", "world writable", "temporary program"}
<1>1. HighFindings(seen) \subseteq signs
  <2>1. DOMAIN Scanners = 1 .. 5
    BY DEF Scanners
  <2>2. /\ Scanners[1].high \subseteq signs /\ Scanners[2].high \subseteq signs
        /\ Scanners[3].high \subseteq signs /\ Scanners[4].high \subseteq signs
        /\ Scanners[5].high \subseteq signs
    BY DEF Scanners, ProcessSigns, PersistenceSigns, NetworkSigns, PermissionSigns, FilesystemSigns
  <2> HIDE DEF signs
  <2>3. \A i \in DOMAIN Scanners : Scanners[i].high \subseteq signs
    BY <2>1, <2>2
  <2>4. QED
    BY <2>3 DEF HighFindings
<1> DEFINE S1 == {} \cup {"odd process"}
           S2 == S1 \cup {"odd connection"}
           S3 == S2 \cup {"world writable"}
           S4 == S3 \cup {"temporary program"}
<1>2. S4 = signs
  OBVIOUS
<1>3. IsFiniteSet(S1)
  <2>1. S1 = {"odd process"}
    OBVIOUS
  <2> HIDE DEF S1
  <2>2. QED
    BY <2>1, FS_Singleton
<1> HIDE DEF S1
<1>4. IsFiniteSet(S2)
  BY <1>3, FS_AddElement
<1> HIDE DEF S2
<1>5. IsFiniteSet(S3)
  BY <1>4, FS_AddElement
<1> HIDE DEF S3
<1>6. IsFiniteSet(S4)
  BY <1>5, FS_AddElement
<1>7. QED
  BY <1>1, <1>2, <1>6, FS_Subset

LEMMA IdsAreFinite ==
    ASSUME NEW x, SoundFile(x)
    PROVE  IsFiniteSet(IdsOf(x))
<1> DEFINE f == [i \in DOMAIN x.alerts |-> x.alerts[i].id]
<1>1. DOMAIN x.alerts = 1 .. Len(x.alerts) /\ Len(x.alerts) \in Nat
  BY DEF SoundFile
<1>2. IsFiniteSet(DOMAIN x.alerts)
  <2> DEFINE N == Len(x.alerts)
  <2> HIDE DEF N, f
  <2>1. N \in Nat /\ DOMAIN x.alerts = 1 .. N
    BY <1>1 DEF N
  <2>2. IsFiniteSet(1 .. N)
    BY <2>1, FS_Interval
  <2>3. QED
    BY <2>1, <2>2
<1>3. f \in Surjection(DOMAIN x.alerts, IdsOf(x))
  BY DEF IdsOf, Surjection
<1> HIDE DEF f
<1>4. QED
  BY <1>2, <1>3, FS_Surjection

LEMMA EmptyFileIsSound == SoundFile(NoState)
<1>1. OfThisHour(<<>>) = {}
  BY DEF OfThisHour
<1>2. NoState \in [hour : {"never", "this", "past"}, count : Nat, alerts : Seq(Alerts)]
  BY DEF NoState
<1>3. NoState.count = 0 /\ NoState.alerts = <<>> /\ Len(<<>>) = 0
  BY DEF NoState
<1>4. Cardinality(OfThisHour(NoState.alerts)) = 0
  BY <1>1, <1>3, FS_EmptySet
<1>5. NoState.count <= MaxAlertsPerHour /\ Len(NoState.alerts) <= MaxAlerts
  BY <1>3, ScansAssumption
<1>6. QED
  BY <1>2, <1>3, <1>4, <1>5 DEF SoundFile

LEMMA ScanEndKeepsFile ==
    ASSUME ScansInv, NEW s \in Scanning, ScanEnds(s)
    PROVE  ScansInv'
<1> DEFINE state == scans[s].state
           new == WithScore(state, scans[s].seen)
           fresh == IdsOf(new) \ IdsOf(state)
<1>1. /\ SoundFile(nimrod) /\ nextAlert \in Nat /\ SoundFile(state) /\ DOMAIN scans = Scanning
      /\ \A t \in Scanning : scans[t] = NoScan \/ SoundFile(scans[t].state)
      /\ reported \ dropped \subseteq IdsOf(nimrod)
  BY DEF ScansInv, ScanEnds
<1>2. /\ nextAlert' = nextAlert + Cardinality(fresh)
      /\ scans' = [scans EXCEPT ![s] = NoScan] /\ reported' = reported \cup fresh
      /\ \/ /\ nimrod' = new
            /\ dropped' = dropped \cup (IdsOf(nimrod) \ IdsOf(state))
                             \cup (IF Len(new.alerts) = MaxAlerts THEN reported \ IdsOf(new) ELSE {})
         \/ UNCHANGED nimrod /\ dropped' = dropped \cup fresh
         \/ nimrod' = NoState /\ dropped' = reported \cup fresh
  BY DEF ScanEnds
<1>3. Grown(state, new)
  BY <1>1, ScoredGrows, HighAreFew
<1> HIDE DEF state, new
<1>4. SoundFile(new) /\ (Len(new.alerts) = MaxAlerts \/ IdsOf(state) \subseteq IdsOf(new))
  BY <1>3 DEF Grown
<1>5. Cardinality(fresh) \in Nat
  <2>1. IsFiniteSet(IdsOf(new))
    BY <1>4, IdsAreFinite
  <2>2. IsFiniteSet(fresh)
    BY <2>1, FS_Subset
  <2>3. QED
    BY <2>2, FS_CardinalityType
<1>6. reported' \ dropped' \subseteq IdsOf(nimrod)'
  <2>1. nimrod' = new => IdsOf(nimrod)' = IdsOf(new)
    BY DEF IdsOf
  <2>2. UNCHANGED nimrod => IdsOf(nimrod)' = IdsOf(nimrod)
    BY DEF IdsOf
  <2>3. QED
    BY <1>1, <1>2, <1>4, <2>1, <2>2
<1> HIDE DEF fresh
<1>7. nextAlert' \in Nat
  BY <1>1, <1>2, <1>5
<1>8. SoundFile(nimrod')
  BY <1>1, <1>2, <1>4, EmptyFileIsSound
<1>9. \A t \in Scanning : scans'[t] = NoScan \/ SoundFile(scans'[t].state)
  BY <1>1, <1>2
<1>10. DOMAIN scans' = Scanning
  BY <1>1, <1>2
<1>11. QED
  BY <1>6, <1>7, <1>8, <1>9, <1>10 DEF ScansInv, SoundFile, OfThisHour, IdsOf

LEMMA ScansInvHolds == ScansSpec => []ScansInv
<1>1. ScansInit => ScansInv
  <2> SUFFICES ASSUME ScansInit PROVE ScansInv
    OBVIOUS
  <2>1. /\ nimrod = NoState /\ nextAlert = 1 /\ reported = {}
        /\ scans = [s \in Scanning |-> NoScan]
    BY DEF ScansInit
  <2>2. QED
    BY <2>1, EmptyFileIsSound DEF ScansInv
<1>2. ScansInv /\ [ScansNext]_scanVars => ScansInv'
  <2> SUFFICES ASSUME ScansInv, [ScansNext]_scanVars PROVE ScansInv'
    OBVIOUS
  <2> USE DEF SoundFile, OfThisHour, IdsOf
  <2>1. ASSUME NEW s \in Scanning, NEW seen \in Machines, ScanStarts(s, seen) PROVE ScansInv'
    <3>1. /\ UNCHANGED <<nimrod, nextAlert, reported, dropped>>
          /\ scans' = [scans EXCEPT ![s] = [state |-> nimrod, seen |-> seen]]
      BY <2>1 DEF ScanStarts
    <3>2. SoundFile(nimrod) /\ DOMAIN scans' = Scanning
      BY <3>1 DEF ScansInv
    <3>3. ASSUME NEW t \in Scanning PROVE scans'[t] = NoScan \/ SoundFile(scans'[t].state)
      <4> HIDE DEF SoundFile
      <4>1. CASE t = s
        BY <3>1, <3>2, <4>1 DEF ScansInv
      <4>2. CASE t # s
        BY <3>1, <4>2 DEF ScansInv
      <4>3. QED
        BY <4>1, <4>2
    <3>4. SoundFile(nimrod') /\ nextAlert' \in Nat /\ reported' \ dropped' \subseteq IdsOf(nimrod')
      BY <3>1 DEF ScansInv
    <3>5. QED
      BY <3>2, <3>3, <3>4 DEF ScansInv
  <2>2. ASSUME ScanHourPasses PROVE ScansInv'
    <3>1. /\ nimrod' = [nimrod EXCEPT !.hour = "past"] /\ SoundFile(nimrod)
          /\ UNCHANGED <<nextAlert, scans, reported, dropped>>
      BY <2>2 DEF ScanHourPasses, ScansInv
    <3>2. /\ nimrod' = [hour |-> "past", count |-> nimrod.count, alerts |-> nimrod.alerts]
          /\ nimrod.count \in Nat /\ nimrod.alerts \in Seq(Alerts)
      BY <3>1
    <3>3. /\ nimrod' \in [hour : {"never", "this", "past"}, count : Nat, alerts : Seq(Alerts)]
          /\ nimrod'.count = nimrod.count /\ nimrod'.alerts = nimrod.alerts
      BY <3>2
    <3>4. QED
      BY <3>1, <3>3 DEF ScansInv
  <2>3. ASSUME ScansDie PROVE ScansInv'
    <3>1. UNCHANGED <<nextAlert, reported>> /\ scans' = [s \in Scanning |-> NoScan]
          /\ (UNCHANGED <<nimrod, dropped>> \/ (nimrod' = NoState /\ dropped' = reported))
      BY <2>3 DEF ScansDie
    <3>2. SoundFile(NoState)
      BY EmptyFileIsSound
    <3>3. SoundFile(nimrod') /\ reported' \ dropped' \subseteq IdsOf(nimrod')
      <4> HIDE DEF SoundFile
      <4>1. QED
        BY <3>1, <3>2 DEF ScansInv
    <3>4. QED
      BY <3>1, <3>3 DEF ScansInv
  <2>4. CASE UNCHANGED scanVars
    BY <2>4 DEF scanVars, ScansInv
  <2>5. QED
    BY <2>1, <2>2, <2>3, <2>4, ScanEndKeepsFile DEF ScansNext
<1>3. QED
  BY <1>1, <1>2, PTL DEF ScansSpec

(* However scans overlap, die, fail to write and tear the file, it never   *)
(* holds more alerts of an hour than the limit or than it has counted; and *)
(* one that was reported as kept is in it, unless an overlap, the length   *)
(* of the list, a failed write or a torn file took it (nimrod/index.ts,    *)
(* nimrod/state.ts).                                                       *)
THEOREM AlertsAreCountedAndKept == ScansSpec => []AlertsCountedAndKept
<1>1. ScansInv => AlertsCountedAndKept
  <2> SUFFICES ASSUME ScansInv PROVE AlertsCountedAndKept
    OBVIOUS
  <2>1. nimrod.alerts \in Seq(Alerts) /\ nimrod.count \in Nat /\ nimrod.count <= MaxAlertsPerHour
        /\ Cardinality(OfThisHour(nimrod.alerts)) <= nimrod.count
    BY DEF ScansInv, SoundFile
  <2>2. Cardinality(OfThisHour(nimrod.alerts)) \in Nat
    BY <2>1, HourIsFinite
  <2>3. Cardinality(OfThisHour(nimrod.alerts)) <= MaxAlertsPerHour
    BY <2>1, <2>2, ScansAssumption
  <2>4. QED
    BY <2>1, <2>3 DEF AlertsCountedAndKept, ScansInv, OfThisHour
<1>2. QED
  BY <1>1, ScansInvHolds, PTL
=============================================================================
