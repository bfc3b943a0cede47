------------------------------ MODULE MCKeeping ------------------------------
(***************************************************************************)
(* What the bot keeps, and by which rules, checked in one run: the modules *)
(* extended here share no state, so each is explored with the others at    *)
(* rest, and their state counts add up.                                    *)
(***************************************************************************)
EXTENDS Memory, Bills, Contracts, Scans, MailRules, Calendar, ContactBook,
        DueTimes, MeetingStateMachine, TLC

CONSTANTS a, a2, b,                      \* chats of two people
          doron, doronErel, dan,         \* names
          asker1, asker2, m1, m2         \* chats that ask for meetings; codes

(* Memory *)

FirstFacts == <<"f1">>
PatternsFound == {<<"early">>, <<"late">>}
MoodOrder == <<"stressed", "rushed">>
WeightOf == [m \in {"stressed", "rushed"} |-> IF m = "stressed" THEN 10 ELSE 8]

(* Bills and contracts *)

Paper(t, l, n, c, inv, p, d, paid, e, r) ==
  [type |-> t, signs |-> IF l THEN {"subject"} ELSE {}, name |-> n,
   category |-> c, invoice |-> inv, period |-> p, due |-> d, paid |-> paid,
   ends |-> e, renews |-> r]
PapersRead ==
 {Paper("bill", FALSE, "hot mobile", "phone", "i1", 0, 1, FALSE, NoDate, NoDate),
  Paper("bill", FALSE, "hot", "tv", NoDate, 1, NoDate, TRUE, NoDate, NoDate),
  Paper("bill", TRUE, "water", "fee", "i1", NoDate, 0, FALSE, NoDate, NoDate),
  Paper("contract", TRUE, "hot", "tv", NoDate, NoDate, NoDate, FALSE, NoDate, 1),
  Paper("contract", FALSE, "hot mobile", "tv", NoDate, NoDate, NoDate, FALSE, 2, NoDate),
  Paper("contract", FALSE, "gym", "sport", NoDate, NoDate, NoDate, FALSE,
     NoDate, NoDate),
  Paper("neither", TRUE, "hot", "tv", NoDate, NoDate, NoDate, FALSE, NoDate,
     NoDate)}
Kinds == {"tv", "phone", "water", "other"}
Occurs == {<<"hot","hot">>, <<"hot","hot mobile">>, <<"hot mobile","hot mobile">>}
OfBills == <<[alias |-> "hot", vendor |-> "HOT"],
             [alias |-> "hot mobile", vendor |-> "HOT Mobile"]>>
OfContracts == <<[alias |-> "hot", vendor |-> "HOT"]>>
Overrides == "HOT" :> "tv"

(* What a scan may see *)

Seen == {{}, {"login items", "listeners", "odd process", "odd connection"},
         {"busy process", "sudo", "suid", "odd listener"},
         {"world writable", "odd connection", "temporary program"}}

(* Emails and text messages *)

Mail(s, subj, text, v, n, t) ==
  [sender |-> s, subject |-> subj, body |-> text, domain |-> v,
   name |-> IF v = "bank" THEN Nameless ELSE "dana",
   found |-> IF n = NoNumber THEN {"amount"} ELSE {"number", "route"}, number
      |-> n, time |-> t]
Shops == [ksp |-> "KSP", booking |-> "Booking.com"]
Inbox == {Mail({"airline"}, {"receipt"}, {"flight"}, "elal", 7, 0),
  Mail({"booking","hotels"}, {"hotel","receipt"}, {}, "booking", NoNumber, 0),
  Mail({"booking","hotels"}, {"receipt"}, {"hotel"}, "booking", NoNumber, 2),
  Mail({"shop"}, {"ordering"}, {"unsubscribe"}, "ksp", 7, 1),
  Mail({"shop"}, {"package"}, {"unsubscribe"}, "ksp", 7, 1),
  Mail({"shop"}, {"package","receipt"}, {}, "ksp", 7, 3),
  Mail({}, {"receipt"}, {}, "bank", NoNumber, 0),
  Mail({}, {"receipt"}, {}, "bank", NoNumber, 1),
  Mail({}, {"excluded","package"}, {}, "bank", NoNumber, 3)}
Messages == {[sender |-> {"carrier"}, words |-> {"arrived","pickup"}, own |->
   FALSE],
  [sender |-> {}, words |-> {"delivery","tracking","pickup"}, own |-> FALSE],
  [sender |-> {}, words |-> {"delivery"}, own |-> TRUE],
  [sender |-> {}, words |-> {"carrier","excluded"}, own |-> FALSE],
  [sender |-> {}, words |-> {"tracking"}, own |-> FALSE]}

(* Events of the calendar *)

InTitle == {<<"dan", "dan and ron">>}
UidHas == {<<"dan", 2>>}

(* The book of contacts *)

Phones == (a :> 1) @@ (a2 :> 1) @@ (b :> 2)
PhoneChats == <<a,b>>
CallsItself == (a :> {doronErel}) @@ (a2 :> {dan}) @@ (b :> {doron})
OwnersCards == {<<doronErel, 1>>, <<doron, 2>>, <<dan, 0>>}
FirstWord == (doron :> doron) @@ (doronErel :> doron) @@ (dan :> dan)
Spellings == [n \in {doron, doronErel, dan} |-> {n}]
OneInTheOther == {<<doron,doronErel>>,<<doronErel,doron>>} \cup {<<n,n>> : n \in
   PersonNames}
ToolsOf == ("crm" :> {"crm_search"})

(* Times in words *)

Bare == [marks |-> {}, weekday |-> Unsaid, date |-> Unsaid, year |-> Unsaid,
         leading |-> Unsaid, time |-> Unsaid, minutes |-> FALSE, part |-> "none"]
Phrases ==
  {[Bare EXCEPT !.marks = {"today"}, !.time = 1, !.part = "evening"],
   [Bare EXCEPT !.marks = {"tomorrow"}, !.time = 2, !.part = "night"],
   [Bare EXCEPT !.marks = {"day after tomorrow"}, !.time = 1, !.minutes = TRUE],
   [Bare EXCEPT !.date = 1, !.year = 1, !.time = 3],
   [Bare EXCEPT !.date = 1, !.leading = 2, !.time = 3]}
  \cup {[Bare EXCEPT !.weekday = w] : w \in 0 .. Week - 1}
  \cup {[Bare EXCEPT !.date = d] : d \in {0, 2}}
Requests == {[form |-> "clock", time |-> 2],
             [form |-> "dated", day |-> 1, time |-> 3],
             [form |-> "dated", day |-> 3, time |-> 1],
             [form |-> "iso", day |-> 2, time |-> 1, ahead |-> Unsaid],
             [form |-> "iso", day |-> 1, time |-> 1, ahead |-> 0],
             [form |-> "span", span |-> 2], [form |-> "unclear"]}
Zones == {[before |-> Before, after |-> After], [before |-> 0, after |-> 0],
          [before |-> 3, after |-> 3]}
Talk == {[reply |-> q, message |-> "report", asks |-> w, skip |-> q = "return" /\ ~w]
         : q \in {Unsaid, "return", "update"}, w \in BOOLEAN}
Offsets == ("return" :> 3) @@ ("update" :> 4) @@ ("asks" :> 4)

(* Meetings: nothing tells the askers apart, and nothing the codes. *)

Askers == {asker1, asker2}
Codes == {m1, m2}
Symm == Permutations(Askers) \cup Permutations(Codes)

VARIABLE part            \* which component of the behaviour moves

allVars ==
  <<part, memoryVars, billVars, contractVars, scanVars, mailVars,
    calendarVars, bookVars, dueVars, meetingVars>>

Init ==
  /\ part \in {"memory", "bills", "contracts", "scans", "mail", "calendar",
               "book", "due", "meetings"}
  /\ MemoryInit
  /\ BillsInit
  /\ ContractsInit
  /\ ScansInit
  /\ MailInit
  /\ CalendarInit
  /\ BookInit
  /\ DueInit
  /\ MeetingInit
  /\ part # "due" => zone = [before |-> Before, after |-> After]

\* Only the component that moves may change its variables.
Rests(component, vars) == IF part = component THEN TRUE ELSE UNCHANGED vars

Next ==
  /\ UNCHANGED part
  /\ \/ part = "memory" /\ MemoryNext
     \/ part = "bills" /\ BillsNext
     \/ part = "contracts" /\ ContractsNext
     \/ part = "scans" /\ ScansNext
     \/ part = "mail" /\ MailNext
     \/ part = "calendar" /\ CalendarNext
     \/ part = "book" /\ BookNext
     \/ part = "due" /\ DueNext
     \/ part = "meetings" /\ MeetingNext
  /\ Rests("memory", memoryVars)
  /\ Rests("bills", billVars)
  /\ Rests("contracts", contractVars)
  /\ Rests("scans", scanVars)
  /\ Rests("mail", mailVars)
  /\ Rests("calendar", calendarVars)
  /\ Rests("book", bookVars)
  /\ Rests("due", dueVars)
  /\ Rests("meetings", meetingVars)

Spec == Init /\ [][Next]_allVars

=============================================================================
