------------------------------ MODULE DueTimes ------------------------------
(***************************************************************************)
(* What a time given in words comes to: the day and the hour of a meeting  *)
(* that the owner or a contact writes, and the moment at which a reminder  *)
(* is due.  Moments count in ticks of five minutes of a clock that never   *)
(* jumps; the clock on the wall in Israel does, at Change, and that of the *)
(* host may show another zone.  Nobody else rewrites the file of reminders *)
(* here, and no write fails: that is Reminders.  Followed from             *)
(* meetings/time-parser.ts, ai/handlers/calendar.ts (the reminders),       *)
(* followups/followup-store.ts and followups/followup-extractor.ts.        *)
(***************************************************************************)
EXTENDS Integers, Sequences, FiniteSets

CONSTANTS TimeTexts,     \* records: marks, a set; weekday, date, year, each or
                         \* Unsaid; time, an hour written in figures, and
                         \* minutes, whether they are written with it; leading,
                         \* the day of a dotted date with its prefix, before
                         \* that hour; part, the word for a part of the day
          Asks,          \* records: form; day, time, ahead and span as it needs
          Exchanges,     \* records: reply and message, or Unsaid; asks, skip
          Targets,       \* who is to be reminded: a contact or the owner
          Tasks,
          Ahead,         \* dueOffsetHours of each reply and of "asks", in ticks
          JunkReplies,   \* promises whose reason is in JUNK_REASONS
          DayTicks, Noon, Week, Year,
          Change,        \* when the clock in Israel is put forward or back
          Before, After, \* how far that clock is ahead, before and after Change
          Hosts,         \* the same two of the zones the process may run in
          LastTick, MaxDue,
          Unsaid

\* An hour that no day has makes the tool throw, and nothing is kept.
ASSUME DueAssumption ==
  /\ {Noon, Week, Year} \subseteq Nat \ {0} /\ DayTicks = 2 * Noon /\ Week <= Year
  /\ {Change, Before, After} \subseteq Int /\ Unsaid \notin Int
  /\ Hosts \subseteq [before : Int, after : Int]
  /\ \A host \in Hosts : \A x \in {Before, After}, y \in {host.before, host.after} :
       x - y < DayTicks /\ y - x < DayTicks
  /\ TimeTexts \subseteq
       [marks : SUBSET {"today", "tomorrow", "day after tomorrow"},
        weekday : 0 .. Week - 1 \cup {Unsaid}, date : 0 .. Year - 1 \cup {Unsaid},
        year : Int \cup {Unsaid}, leading : Int \cup {Unsaid},
        time : 0 .. DayTicks - 1 \cup {Unsaid}, minutes : BOOLEAN,
        part : {"none", "noon", "evening", "night"}]
  /\ \A text \in TimeTexts : text.minutes => text.time # Unsaid
  /\ \A ask \in Asks :
       /\ ask.form \in {"clock", "dated", "iso", "span", "unclear"}
       /\ ask.form \in {"clock", "dated", "iso"} => ask.time \in 0 .. DayTicks
       /\ ask.form \in {"dated", "iso"} => ask.day \in Int
       /\ ask.form = "iso" => ask.ahead \in Int \cup {Unsaid}
       /\ ask.form = "span" => ask.span \in Nat
  /\ "owner" \in Targets /\ "asks" \in DOMAIN Ahead
  /\ \A kind \in DOMAIN Ahead : Ahead[kind] \in Nat
  /\ \A exchange \in Exchanges :
       exchange.message \in Tasks /\ exchange.reply \in DOMAIN Ahead \cup {Unsaid}

VARIABLES clock,       \* the ticks that have passed
          zone,        \* of the host
          pending,     \* followups.json, its pending entries
          confirmed    \* ghost: reminders confirmed, not yet told or deleted

dueVars == <<clock, zone, pending, confirmed>>

\* What a reminder is about: what was promised, if it was, and the task.
Reasons == (DOMAIN Ahead) \X Tasks

DueTypeOK ==
  /\ clock \in 0 .. LastTick /\ zone \in Hosts
  /\ pending \in Seq([target : Targets, reason : Reasons, due : Int])
  /\ confirmed \subseteq [ask : Asks, target : Targets, task : Tasks, asked : Nat]

DueInit == clock = 0 /\ zone \in Hosts /\ pending = <<>> /\ confirmed = {}

OffsetAt(t) == IF t < Change THEN Before ELSE After

Today(t) == (t + OffsetAt(t)) \div DayTicks

HostToday(t) == (t + IF t < Change THEN zone.before ELSE zone.after) \div DayTicks

\* new Date of a local time: one the host's clock skips or shows twice is
\* taken as of before the change.
HostInstant(wall) ==
  IF wall - zone.before < Change \/ wall - zone.after < Change
  THEN wall - zone.before ELSE wall - zone.after

---------------------------------------------------------------------------
(* The words for a meeting's time: parseHebrewTime *)

\* The first number that the pattern for an hour alone finds, put past noon by
\* any of the words for noon, afternoon and evening.
HourAlone(text) ==
  LET number == IF text.leading # Unsaid THEN text.leading ELSE text.time
  IN  IF number # Unsaid /\ number < Noon /\ text.part \in {"noon", "evening"}
      THEN number + Noon ELSE number

\* extractTime: an hour with its minutes is found first, and heeds no word.
TimeIn(text) ==
  IF text.minutes THEN text.time
  ELSE IF HourAlone(text) \in 0 .. DayTicks - 1 THEN HourAlone(text) ELSE Unsaid

\* Mutants, here and below: what a slip in this code would do.
DaysUntilOrToday(weekday, today) == (weekday - today) % Week

\* The named day after today: a week ahead when it is today's.
DaysUntil(weekday, today) ==
  LET days == weekday - (today % Week) IN IF days <= 0 THEN days + Week ELSE days

\* A date without a year that is over this year is next year's.
DayOf(date, year, today) ==
  LET this == (today \div Year) * Year + date
  IN  IF year # Unsaid THEN year * Year + date
      ELSE IF this < today THEN this + Year ELSE this

\* extractDate, in its order; the pattern of "tomorrow" is also found within
\* "the day after tomorrow", whose own test comes later.
DateIn(text, today) ==
  IF "today" \in text.marks THEN today
  ELSE IF {"tomorrow", "day after tomorrow"} \cap text.marks # {} THEN today + 1
  ELSE IF text.weekday # Unsaid THEN today + DaysUntil(text.weekday, today)
  ELSE IF text.date # Unsaid THEN DayOf(text.date, text.year, today) ELSE Unsaid

---------------------------------------------------------------------------
(* Reminders *)

\* buildIsraelDate: the offset is today's, whatever the day asked for.
Moment(day, time, now) == day * DayTicks + time - OffsetAt(now)

\* parseDueAt, and due_hours when there is no due_at; what cannot be read is
\* due in a day.  Of a date, the host's midnight gives the day; of any other
\* form new Date knows, without an offset (a date alone has Greenwich's), the
\* host's clock the moment.
DueOf(ask, now) ==
  CASE ask.form = "clock" -> Moment(Today(now), ask.time, now)
    [] ask.form = "dated" -> Moment(Today(HostInstant(ask.day * DayTicks)), ask.time, now)
    [] ask.form = "iso" ->
         LET wall == ask.day * DayTicks + ask.time
         IN  IF ask.ahead = Unsaid THEN HostInstant(wall) ELSE wall - ask.ahead
    [] ask.form = "span" -> now + ask.span
    [] OTHER -> now + DayTicks

\* Mutant: the target is not compared.
TwinOfAnyone(entry) ==
  \E k \in DOMAIN pending :
    /\ pending[k].reason = entry.reason
    /\ pending[k].due - entry.due \in -1 .. 1

\* addFollowup: nothing like it waits already, to the same person and within
\* five minutes.
Twin(entry) ==
  \E k \in DOMAIN pending :
    /\ pending[k].target = entry.target /\ pending[k].reason = entry.reason
    /\ pending[k].due - entry.due \in -1 .. 1

AddFollowup(entry) ==
  /\ Len(pending) < MaxDue
  /\ pending' = IF Twin(entry) THEN pending ELSE Append(pending, entry)

\* A twin is answered by the reminder there is: "already exists".
CreateReminder(ask, target, task) ==
  /\ Cardinality(confirmed) < MaxDue
  /\ AddFollowup([target |-> target, reason |-> <<"asks", task>>, due |-> DueOf(ask, clock)])
  /\ confirmed' = confirmed \cup
       {[ask |-> ask, target |-> target, task |-> task, asked |-> clock]}
  /\ UNCHANGED <<clock, zone>>

\* The day and the time asked for, on a clock.
Wall(r) ==
  (IF r.ask.form = "clock" THEN Today(r.asked) ELSE r.ask.day) * DayTicks + r.ask.time

\* At t the clock in Israel shows this.
Shows(t, wall) == t + OffsetAt(t) = wall

\* t is what the asking meant.
IsMeant(t, r) ==
  IF r.ask.form = "iso" /\ r.ask.ahead # Unsaid THEN t + r.ask.ahead = Wall(r)
  ELSE IF r.ask.form \in {"clock", "dated", "iso"} THEN Shows(t, Wall(r))
  ELSE t = r.asked + IF r.ask.form = "span" THEN r.ask.span ELSE DayTicks

\* What the code gets wrong: the clocks change between the asking and the
\* moment; the host is east of Israel, where a day begins while it is still
\* the day before; a form without an offset, on a host elsewhere or in the
\* hour of the change.
Mistaken(r) ==
  \/ /\ r.ask.form \in {"clock", "dated"}
     /\ OffsetAt(Wall(r) - OffsetAt(r.asked)) # OffsetAt(r.asked)
  \/ /\ r.ask.form = "dated"
     /\ zone.before > Before \/ zone.after > After
  \/ /\ r.ask.form = "iso" /\ r.ask.ahead = Unsaid
     /\ \/ zone # [before |-> Before, after |-> After]
        \/ OffsetAt(Wall(r) - Before) # OffsetAt(Wall(r) - After)

\* The entry reminds of it, within five minutes.
Serves(entry, r) ==
  /\ entry.target = r.target /\ entry.reason = <<"asks", r.task>>
  /\ Mistaken(r) \/ \E t \in entry.due - 1 .. entry.due + 1 : IsMeant(t, r)

\* An entry that is told or deleted is no longer pending.
Leaves(k) ==
  /\ pending' = [j \in 1 .. Len(pending) - 1 |-> pending[IF j < k THEN j ELSE j + 1]]
  /\ confirmed' = {r \in confirmed : ~Serves(pending[k], r)}
  /\ UNCHANGED <<clock, zone>>

\* deleteFollowup, by the id.
DeleteReminder(k) == k \in DOMAIN pending /\ Leaves(k)

\* deleteFollowupByKeyword: the first whose reason contains the keyword, be it
\* promised or asked for and whoever it is for.
DeleteByKeyword(containing) ==
  LET of == {k \in DOMAIN pending : pending[k].reason \in containing}
  IN  of # {} /\ Leaves(CHOOSE k \in of : \A j \in of : k <= j)

NotedFollowup(kind, reason) ==
  [target |-> "owner", reason |-> reason, due |-> clock + Ahead[kind]]

Promised(exchange) == NotedFollowup(exchange.reply, <<exchange.reply, exchange.message>>)

\* extractFollowups, after every answer that says something: what it promises,
\* and if that was junk or waits already, what the message asked for.
AnswerGiven(exchange) ==
  /\ ~exchange.skip
  /\ IF exchange.reply # Unsaid /\ exchange.reply \notin JunkReplies /\ ~Twin(Promised(exchange))
     THEN AddFollowup(Promised(exchange))
     ELSE exchange.asks /\ AddFollowup(NotedFollowup("asks", <<"asks", exchange.message>>))
  /\ UNCHANGED <<clock, zone, confirmed>>

\* completeFollowup, once due and told.
Reminded(k) == k \in DOMAIN pending /\ pending[k].due <= clock /\ Leaves(k)

TickPasses ==
  clock < LastTick /\ clock' = clock + 1 /\ UNCHANGED <<zone, pending, confirmed>>

DueNext ==
  \/ \E ask \in Asks, target \in Targets, task \in Tasks : CreateReminder(ask, target, task)
  \/ \E containing \in SUBSET Reasons : DeleteByKeyword(containing)
  \/ \E exchange \in Exchanges : AnswerGiven(exchange)
  \/ \E k \in 1 .. MaxDue : DeleteReminder(k) \/ Reminded(k)
  \/ TickPasses

DueSpec == DueInit /\ [][DueNext]_dueVars

---------------------------------------------------------------------------
(* Properties *)

Soonest(days) == CHOOSE d \in days : \A e \in days : d <= e

\* The day a speaker means, by the calendar rather than by arithmetic.
Meant(text, today) ==
  LET coming == today .. today + Year
  IN  IF "today" \in text.marks THEN today
      ELSE IF "tomorrow" \in text.marks THEN today + 1
      ELSE IF text.weekday # Unsaid
           THEN Soonest({d \in coming : d > today /\ d % Week = text.weekday})
      ELSE IF text.date # Unsaid /\ text.year = Unsaid
           THEN Soonest({d \in coming : d % Year = text.date})
      ELSE IF text.date # Unsaid THEN text.year * Year + text.date ELSE Unsaid

\* The hour a speaker means: past noon in the evening.
HourMeant(text) == IF text.part = "evening" THEN Noon + (text.time % Noon) ELSE text.time

\* The forms of an hour that the parser's comment lists (time-parser.ts:35),
\* but for those with a word for noon or for the afternoon.
Listed(text) ==
  /\ text.time # Unsaid /\ text.leading = Unsaid
  /\ text.part = "none" \/ (text.part = "evening" /\ ~text.minutes)

\* A day is read as the calendar of the host has it: today, tomorrow, the
\* coming one of that name ("Next occurrence", time-parser.ts:122), or the next
\* one of that date, in this order; the word for the day after tomorrow is not
\* among them, for it comes to tomorrow.  The hour is read as it is meant in the
\* forms Listed; of others nothing is said: a date before the hour may be taken
\* for it, a word for noon puts eleven at twenty-three, and words for night, or
\* for evening beside minutes, go unheard.
WordsAreRead ==
  \A text \in TimeTexts :
    /\ "day after tomorrow" \notin text.marks =>
         DateIn(text, HostToday(clock)) = Meant(text, HostToday(clock))
    /\ Listed(text) => TimeIn(text) = HourMeant(text)

\* A reminder that was confirmed, even as one there was already, waits with its
\* person and its task within five minutes of the moment that was meant, until
\* it is told, no sooner than that, or deleted: no other reminder, nothing the
\* bot promised by the way and no deletion of another takes its place.  The
\* day and hour are only kept when the clocks do not change in between, a date
\* on a host that is not east of Israel, and a form without an offset on a host
\* that has Israel's clock.
DueWhenMeant ==
  \A r \in confirmed : Mistaken(r) \/ \E k \in DOMAIN pending : Serves(pending[k], r)
=============================================================================
