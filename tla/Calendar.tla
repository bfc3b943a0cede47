------------------------------- MODULE Calendar -------------------------------
(***************************************************************************)
(* The owner's two calendars: every call tries Apple's and, if the script  *)
(* fails, Google's behind a circuit.  A script that is cut off by its      *)
(* timeout may have done its work, or part of it; a call to Google awaits, *)
(* lists before it deletes, and deletes one event after the other.         *)
(* Followed from calendar.ts, calendar-apple.ts and ai/handlers/           *)
(* calendar.ts; the circuit is that of CircuitState, with the name         *)
(* google-calendar.  One day of the calendar is modelled.                  *)
(***************************************************************************)
EXTENDS CircuitState, Sequences, FiniteSets

CONSTANTS Titles,         \* of events
          Queries,        \* what a deletion may ask for
          PartOf,         \* pairs of a query and a title it is found in,
          InUid,          \* or of a query and an event whose uid it is found in
          InTheDate,      \* queries that the text of the day's date contains
          CalendarCalls,  \* tool calls under way at Google
          MaxEvents       \* bound

VARIABLES apple,          \* the events of calendar Home, and
          google,         \* of Google's primary one: ids
          titleOf,        \* of the events there have been
          googleCircuit,
          googleCalls,    \* what each call under way still has to do
          toldCreated,    \* ghost: events whose creation was confirmed
          unreached,      \* ghost: of them, those no calendar ever took
          named           \* ghost: events a deletion asked for, or the owner's hand took

calendarVars == <<apple, google, titleOf, googleCircuit, googleCalls,
                  toldCreated, unreached, named>>

NoGoogleCall == [op |-> "none", title |-> "all", ids |-> {}]

Events == DOMAIN titleOf

CalendarTypeOK ==
  /\ Events = 1 .. Cardinality(Events) /\ Cardinality(Events) <= MaxEvents
  /\ \A e \in Events : titleOf[e] \in Titles
  /\ apple \subseteq Events /\ google \subseteq Events
  /\ googleCircuit \in Circuit
  /\ googleCalls \in [CalendarCalls ->
       [op : {"none", "create", "list", "delete"}, title : Titles \cup Queries \cup {"all"},
        ids : SUBSET Events]]
  /\ toldCreated \cup unreached \cup named \subseteq Events

CalendarInit ==
  /\ apple = {} /\ google = {}
  /\ titleOf = <<>>
  /\ googleCircuit = FreshCircuit
  /\ googleCalls = [c \in CalendarCalls |-> NoGoogleCall]
  /\ toldCreated = {} /\ unreached = {} /\ named = {}

---------------------------------------------------------------------------
(* Mutant: what a slip in this code would do. *)
AllThatDay(ids, query) == ids

\* What is asked for is looked for within the titles; without it, the whole
\* day.
Fits(query, title) == query = "all" \/ <<query, title>> \in PartOf

Matching(ids, query) == {e \in ids : Fits(query, titleOf[e])}

\* Apple's events are lines of title, uid and date, and it is looked for in
\* the whole line.
AppleMatching(ids, query) ==
  IF query \in InTheDate THEN ids
  ELSE Matching(ids, query) \cup {e \in ids : <<query, e>> \in InUid}

\* An event made while a deletion that its title fits is on its way is named
\* by it.
ToBeDeleted(title) ==
  \E c \in CalendarCalls : /\ googleCalls[c].op \in {"list", "delete"}
                           /\ Fits(googleCalls[c].title, title)

\* withCircuitBreaker, once Apple has failed: the call goes out, or the
\* fallback is the answer.
TriesGoogle(c, call) ==
  IF FailsFast(googleCircuit) THEN UNCHANGED googleCalls
  ELSE googleCalls' = [googleCalls EXCEPT ![c] = call]

Free(c) == googleCalls[c] = NoGoogleCall
Frees(c) == googleCalls' = [googleCalls EXCEPT ![c] = NoGoogleCall]

---------------------------------------------------------------------------
(* Creating *)

New(title) ==
  /\ Cardinality(Events) < MaxEvents
  /\ titleOf' = Append(titleOf, title)

AppleCreates(title) ==
  LET e == Cardinality(Events) + 1
  IN  /\ New(title)
      /\ apple' = apple \cup {e}
      /\ toldCreated' = toldCreated \cup {e}
      /\ named' = IF ToBeDeleted(title) THEN named \cup {e} ELSE named
      /\ UNCHANGED <<google, googleCircuit, googleCalls, unreached>>

\* made: the script had done it when it was cut off.  create_event looks at no
\* result: with the circuit open it confirms an event there is not.
AppleFailsToCreate(c, title, made) ==
  LET e == Cardinality(Events) + 1
      fast == FailsFast(googleCircuit)
  IN  /\ Free(c)
      /\ New(title)
      /\ apple' = IF made THEN apple \cup {e} ELSE apple
      /\ TriesGoogle(c, [op |-> "create", title |-> title, ids |-> {e}])
      /\ toldCreated' = IF fast THEN toldCreated \cup {e} ELSE toldCreated
      /\ unreached' = IF fast /\ ~made THEN unreached \cup {e} ELSE unreached
      /\ named' = IF ToBeDeleted(title) THEN named \cup {e} ELSE named
      /\ UNCHANGED <<google, googleCircuit>>

GoogleCreates(c) ==
  /\ googleCalls[c].op = "create"
  /\ google' = google \cup googleCalls[c].ids
  /\ toldCreated' = toldCreated \cup googleCalls[c].ids
  /\ googleCircuit' = AfterSuccess(googleCircuit)
  /\ Frees(c)
  /\ UNCHANGED <<apple, titleOf, unreached, named>>

\* The request fails, though the event may have been made; it is confirmed.
GoogleFailsToCreate(c, made) ==
  LET ids == googleCalls[c].ids
  IN  /\ googleCalls[c].op = "create"
      /\ google' = IF made THEN google \cup ids ELSE google
      /\ toldCreated' = toldCreated \cup ids
      /\ unreached' = IF made THEN unreached ELSE unreached \cup (ids \ apple)
      /\ googleCircuit' = AfterFailure(googleCircuit)
      /\ Frees(c)
      /\ UNCHANGED <<apple, titleOf, named>>

---------------------------------------------------------------------------
(* Deleting *)

\* findAndDeleteEvent, or without a query deleteAllEventsOnDate: the first
\* goes on past an event it cannot delete, and says so.  That nothing is found
\* is an answer like another, and Google is not asked.
AppleDeletes(query, deleted) ==
  LET found == AppleMatching(apple, query)
  IN  /\ deleted \subseteq found
      /\ query = "all" => deleted = found
      /\ apple' = apple \ deleted
      /\ named' = named \cup AppleMatching(Events, query)
      /\ UNCHANGED <<google, titleOf, googleCircuit, googleCalls, toldCreated, unreached>>

\* The script fails: the list of the first, or the second after some events.
AppleFailsToDelete(c, query, deleted) ==
  /\ Free(c)
  /\ deleted \subseteq (IF query = "all" THEN apple ELSE {})
  /\ apple' = apple \ deleted
  /\ named' = named \cup Matching(Events, query)
  /\ TriesGoogle(c, [op |-> "list", title |-> query, ids |-> {}])
  /\ UNCHANGED <<google, titleOf, googleCircuit, toldCreated, unreached>>

GoogleLists(c) ==
  LET found == Matching(google, googleCalls[c].title)
  IN  /\ googleCalls[c].op = "list"
      /\ IF found = {}
         THEN Frees(c) /\ googleCircuit' = AfterSuccess(googleCircuit)
         ELSE /\ googleCalls' = [googleCalls EXCEPT ![c].op = "delete", ![c].ids = found]
              /\ UNCHANGED googleCircuit
      /\ UNCHANGED <<apple, google, titleOf, toldCreated, unreached, named>>

GoogleDeletes(c, e) ==
  LET left == googleCalls[c].ids \ {e}
  IN  /\ googleCalls[c].op = "delete"
      /\ e \in googleCalls[c].ids \cap google
      /\ google' = google \ {e}
      /\ IF left = {}
         THEN Frees(c) /\ googleCircuit' = AfterSuccess(googleCircuit)
         ELSE /\ googleCalls' = [googleCalls EXCEPT ![c].ids = left]
              /\ UNCHANGED googleCircuit
      /\ UNCHANGED <<apple, titleOf, toldCreated, unreached, named>>

\* A request fails, as it does for an event another call has deleted: the rest
\* of the list is left, and the answer is that no calendar can be reached.
GoogleFailsToDelete(c) ==
  /\ googleCalls[c].op \in {"list", "delete"}
  /\ googleCircuit' = AfterFailure(googleCircuit)
  /\ Frees(c)
  /\ UNCHANGED <<apple, google, titleOf, toldCreated, unreached, named>>

---------------------------------------------------------------------------
(* The rest: listing changes nothing but the circuit; time and the owner *)

ListsEvents(ok) ==
  /\ ~FailsFast(googleCircuit)
  /\ googleCircuit' = IF ok THEN AfterSuccess(googleCircuit) ELSE AfterFailure(googleCircuit)
  /\ UNCHANGED <<apple, google, titleOf, googleCalls, toldCreated, unreached, named>>

GoogleCooldownPasses ==
  /\ googleCircuit.cooling
  /\ googleCircuit' = AfterCooldown(googleCircuit)
  /\ UNCHANGED <<apple, google, titleOf, googleCalls, toldCreated, unreached, named>>

OwnerRemoves(e) ==
  /\ e \in apple \cup google
  /\ apple' = apple \ {e} /\ google' = google \ {e}
  /\ named' = named \cup {e}
  /\ UNCHANGED <<titleOf, googleCircuit, googleCalls, toldCreated, unreached>>

CalendarNext ==
  \/ \E t \in Titles :
       \/ AppleCreates(t)
       \/ \E c \in CalendarCalls, made \in BOOLEAN : AppleFailsToCreate(c, t, made)
  \/ \E t \in Queries \cup {"all"}, deleted \in SUBSET Events :
       \/ AppleDeletes(t, deleted)
       \/ \E c \in CalendarCalls : AppleFailsToDelete(c, t, deleted)
  \/ \E c \in CalendarCalls :
       \/ GoogleCreates(c) \/ GoogleLists(c) \/ GoogleFailsToDelete(c)
       \/ \E made \in BOOLEAN : GoogleFailsToCreate(c, made)
       \/ \E e \in Events : GoogleDeletes(c, e)
  \/ \E ok \in BOOLEAN : ListsEvents(ok)
  \/ GoogleCooldownPasses
  \/ \E e \in Events : OwnerRemoves(e)

CalendarSpec == CalendarInit /\ [][CalendarNext]_calendarVars

---------------------------------------------------------------------------
(* Properties *)

\* An event whose creation was confirmed is in one of the calendars until a
\* deletion that names it, whichever of the two answers, fails half-way or is
\* tried again.  A deletion names every event of the day whose title holds the
\* text asked for, so that of "Dan" takes "Dan and Ron" along; at Apple also
\* those whose uid holds it, and all of them when the date does.  Only an
\* event that neither calendar took is confirmed in vain.
OnlyNamedEventsGo ==
  \A e \in toldCreated \ (named \cup unreached) : e \in apple \cup google
=============================================================================
