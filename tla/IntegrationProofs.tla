-------------------------- MODULE IntegrationProofs --------------------------
(***************************************************************************)
(* What guards the services the program calls: the circuit breaker, for    *)
(* every set of circuits and callers and every threshold; the calendar     *)
(* behind it, from which no event goes that was not named, for any titles, *)
(* number of events and of calls that overlap; the rules by which mail and *)
(* messages are filed; and the hours at which things fall due.             *)
(***************************************************************************)
EXTENDS CircuitBreaker, Calendar, MailRules, DueTimes, SequenceLemmas, FiniteSetTheorems,
        TLAPS

-----------------------------------------------------------------------------
(* The circuit breaker *)

(* The three updates of a circuit's record keep it a circuit record, and   *)
(* keep "open iff the failures counted reach the threshold".               *)
LEMMA CircuitUpdates ==
    ASSUME NEW c \in Circuit
    PROVE  /\ FreshCircuit \in Circuit
           /\ AfterSuccess(c) \in Circuit
           /\ AfterFailure(c) \in Circuit
           /\ AfterCooldown(c) \in Circuit
<1>1. FreshCircuit \in Circuit
  BY ThresholdAssumption DEF FreshCircuit, Circuit
<1>2. AfterFailure(c) \in Circuit
  BY ThresholdAssumption DEF AfterFailure, Circuit
<1>3. AfterSuccess(c) \in Circuit
  BY <1>1 DEF AfterSuccess
<1>4. AfterCooldown(c) \in Circuit
  BY DEF AfterCooldown, Circuit
<1>5. QED
  BY <1>1, <1>2, <1>3, <1>4

(* Counting one more failure opens the circuit exactly at the threshold.   *)
LEMMA FailureTrips ==
    ASSUME NEW c \in Circuit, c.isOpen <=> c.failures = Threshold
    PROVE  AfterFailure(c).isOpen <=> AfterFailure(c).failures = Threshold
<1>1. c.failures \in 0 .. Threshold /\ c.isOpen \in BOOLEAN
  BY DEF Circuit
<1>2. CASE c.failures + 1 < Threshold
  <2>1. ~(c.failures + 1 >= Threshold) /\ c.failures + 1 # Threshold
    BY <1>1, <1>2, ThresholdAssumption
  <2>2. c.isOpen = FALSE
    BY <1>1, <1>2, ThresholdAssumption
  <2>3. AfterFailure(c) = [failures |-> c.failures + 1, isOpen |-> FALSE,
                           cooling |-> TRUE]
    BY <2>1, <2>2 DEF AfterFailure
  <2>4. QED
    BY <2>1, <2>3
<1>3. CASE ~(c.failures + 1 < Threshold)
  BY <1>1, <1>3, ThresholdAssumption DEF AfterFailure
<1>4. QED
  BY <1>2, <1>3

(* Type correctness of the circuit map and of the calls in flight. *)
THEOREM TypeCorrect == CircuitSpec => []CircuitTypeOK
<1>1. CircuitInit => CircuitTypeOK
  BY CircuitUpdates, ThresholdAssumption DEF CircuitInit, CircuitTypeOK, FreshCircuit, Circuit
<1>2. CircuitTypeOK /\ [CircuitNext]_circuitVars => CircuitTypeOK'
  <2> SUFFICES ASSUME CircuitTypeOK, [CircuitNext]_circuitVars PROVE CircuitTypeOK'
    OBVIOUS
  <2> USE DEF CircuitTypeOK
  <2>1. ASSUME NEW k \in Callers, NEW n \in Names, Start(k, n) PROVE CircuitTypeOK'
    BY <2>1 DEF Start, IsHalfOpen, Circuit
  <2>2. ASSUME NEW k \in Callers, Succeed(k) PROVE CircuitTypeOK'
    <3>1. running[k] \in Names
      BY <2>2 DEF Succeed
    <3>2. AfterSuccess(circuits[running[k]]) \in Circuit
      BY <3>1, CircuitUpdates
    <3>3. QED
      BY <2>2, <3>1, <3>2 DEF Succeed
  <2>3. ASSUME NEW k \in Callers, Fail(k) PROVE CircuitTypeOK'
    <3>1. running[k] \in Names
      BY <2>3 DEF Fail
    <3>2. AfterFailure(circuits[running[k]]) \in Circuit
      BY <3>1, CircuitUpdates
    <3>3. outrun' \in [Callers -> BOOLEAN]
      BY <2>3 DEF Fail
    <3>4. QED
      BY <2>3, <3>1, <3>2, <3>3 DEF Fail
  <2>4. ASSUME NEW n \in Names, CooldownExpires(n) PROVE CircuitTypeOK'
    BY <2>4, CircuitUpdates DEF CooldownExpires
  <2>5. CASE UNCHANGED circuitVars
    BY <2>5 DEF circuitVars
  <2>6. QED
    BY <2>1, <2>2, <2>3, <2>4, <2>5 DEF CircuitNext
<1>3. QED
  BY <1>1, <1>2, PTL DEF CircuitSpec

(* A circuit is open exactly when Threshold failures have been counted     *)
(* since its last success (withCircuitBreaker, lines 56-79).               *)
THEOREM OpenExactlyWhenTripped == CircuitSpec => []OpenIffTripped
<1>1. CircuitInit => OpenIffTripped
  BY ThresholdAssumption DEF CircuitInit, OpenIffTripped, FreshCircuit
<1>2. CircuitTypeOK /\ OpenIffTripped /\ [CircuitNext]_circuitVars => OpenIffTripped'
  <2> SUFFICES ASSUME CircuitTypeOK, OpenIffTripped, [CircuitNext]_circuitVars PROVE OpenIffTripped'
    OBVIOUS
  <2> USE DEF CircuitTypeOK, OpenIffTripped
  <2>1. ASSUME NEW k \in Callers, NEW n \in Names, Start(k, n)
        PROVE  OpenIffTripped'
    BY <2>1 DEF Start
  <2>2. ASSUME NEW k \in Callers, Succeed(k) PROVE OpenIffTripped'
    BY <2>2, ThresholdAssumption DEF Succeed, AfterSuccess, FreshCircuit
  <2>3. ASSUME NEW k \in Callers, Fail(k) PROVE OpenIffTripped'
    <3> DEFINE c == circuits[running[k]]
    <3>1. running[k] \in Names /\ c \in Circuit
      BY <2>3 DEF Fail
    <3>2. AfterFailure(c).isOpen <=> AfterFailure(c).failures = Threshold
      BY <3>1, FailureTrips
    <3>3. circuits' = [circuits EXCEPT ![running[k]] = AfterFailure(c)]
      BY <2>3 DEF Fail
    <3> HIDE DEF c
    <3>4. ASSUME NEW n \in Names
          PROVE  circuits'[n].isOpen <=> circuits'[n].failures = Threshold
      <4>1. CASE n = running[k]
        BY <3>2, <3>3, <4>1
      <4>2. CASE n # running[k]
        BY <3>3, <4>2
      <4>3. QED
        BY <4>1, <4>2
    <3>5. QED
      BY <3>4
  <2>4. ASSUME NEW n \in Names, CooldownExpires(n) PROVE OpenIffTripped'
    BY <2>4 DEF CooldownExpires, AfterCooldown, Circuit
  <2>5. CASE UNCHANGED circuitVars
    BY <2>5 DEF circuitVars
  <2>6. QED
    BY <2>1, <2>2, <2>3, <2>4, <2>5 DEF CircuitNext
<1>3. QED
  BY <1>1, <1>2, TypeCorrect, PTL DEF CircuitSpec

(* The admission check at line 48 keeps new calls out of a cooling         *)
(* circuit: only calls the last failure overtook are still running.        *)
THEOREM NoNewCallWhileCooling == CircuitSpec => []OnlyOldCallsRunWhileCooling
<1>1. CircuitInit => OnlyOldCallsRunWhileCooling
  BY DEF CircuitInit, OnlyOldCallsRunWhileCooling, FailsFast, FreshCircuit
<1>2. CircuitTypeOK /\ OnlyOldCallsRunWhileCooling /\ [CircuitNext]_circuitVars
        => OnlyOldCallsRunWhileCooling'
  <2> SUFFICES ASSUME CircuitTypeOK, OnlyOldCallsRunWhileCooling, [CircuitNext]_circuitVars
               PROVE  OnlyOldCallsRunWhileCooling'
    OBVIOUS
  <2> USE DEF CircuitTypeOK, OnlyOldCallsRunWhileCooling, FailsFast
  <2>1. ASSUME NEW k \in Callers, NEW n \in Names, Start(k, n)
        PROVE  OnlyOldCallsRunWhileCooling'
    BY <2>1 DEF Start
  <2>2. ASSUME NEW k \in Callers, Succeed(k)
        PROVE  OnlyOldCallsRunWhileCooling'
    BY <2>2, NoCallAssumption DEF Succeed, AfterSuccess, FreshCircuit
  <2>3. ASSUME NEW k \in Callers, Fail(k)
        PROVE  OnlyOldCallsRunWhileCooling'
    BY <2>3, NoCallAssumption DEF Fail
  <2>4. ASSUME NEW n \in Names, CooldownExpires(n)
        PROVE  OnlyOldCallsRunWhileCooling'
    BY <2>4 DEF CooldownExpires, AfterCooldown, Circuit
  <2>5. CASE UNCHANGED circuitVars
    BY <2>5 DEF circuitVars
  <2>6. QED
    BY <2>1, <2>2, <2>3, <2>4, <2>5 DEF CircuitNext
<1>3. QED
  BY <1>1, <1>2, TypeCorrect, PTL DEF CircuitSpec

(* A cooldown cut short is the doing of a call that the last failure had   *)
(* overtaken: the only step that closes a circuit is a success, and the    *)
(* invariant above says which calls can still succeed.                     *)
THEOREM EarlyCloseExplained == CircuitSpec => EarlyCloseIsALateAnswer
<1>1. CircuitTypeOK /\ OnlyOldCallsRunWhileCooling /\ [CircuitNext]_circuitVars
        => [\A n \in Names :
             FailsFast(circuits[n]) /\ ~circuits'[n].isOpen =>
                \E k \in Callers :
                   running[k] = n /\ outrun[k] /\ running'[k] = NoCall]_circuitVars
  <2> SUFFICES ASSUME CircuitTypeOK, OnlyOldCallsRunWhileCooling, [CircuitNext]_circuitVars,
                      NEW n \in Names, FailsFast(circuits[n]),
                      ~circuits'[n].isOpen
               PROVE  \E k \in Callers :
                        running[k] = n /\ outrun[k] /\ running'[k] = NoCall
    OBVIOUS
  <2> USE DEF CircuitTypeOK, FailsFast
  <2>1. ASSUME NEW k \in Callers, NEW m \in Names, Start(k, m) PROVE FALSE
    BY <2>1 DEF Start
  <2>2. ASSUME NEW k \in Callers, Succeed(k)
        PROVE  running[k] = n /\ outrun[k] /\ running'[k] = NoCall
    <3>1. running[k] = n
      BY <2>2 DEF Succeed
    <3>2. QED
      BY <2>2, <3>1 DEF Succeed, OnlyOldCallsRunWhileCooling
  <2>3. ASSUME NEW k \in Callers, Fail(k) PROVE FALSE
    BY <2>3 DEF Fail, AfterFailure, Circuit
  <2>4. ASSUME NEW m \in Names, CooldownExpires(m) PROVE FALSE
    BY <2>4 DEF CooldownExpires, AfterCooldown, Circuit
  <2>5. CASE UNCHANGED circuitVars
    BY <2>5 DEF circuitVars
  <2>6. QED
    BY <2>1, <2>2, <2>3, <2>4, <2>5 DEF CircuitNext
<1>2. QED
  BY <1>1, TypeCorrect, NoNewCallWhileCooling, PTL DEF CircuitSpec, EarlyCloseIsALateAnswer

-----------------------------------------------------------------------------
(* The calendar *)

Calls == [op : {"none", "create", "list", "delete"}, title : Titles \cup Queries \cup {"all"},
          ids : SUBSET Events]

EventsInv ==
    /\ titleOf \in Seq(Titles)
    /\ apple \subseteq Events /\ google \subseteq Events
    /\ googleCalls \in [CalendarCalls -> Calls]

(* A deletion under way at Google has all its events named: those there    *)
(* are when it lists, and those it has listed.                             *)
Wanted(call, e) ==
    \/ call.op = "list" /\ Fits(call.title, titleOf[e])
    \/ call.op = "delete" /\ e \in call.ids

DeletionsAreNamed ==
    \A c \in CalendarCalls, e \in Events : Wanted(googleCalls[c], e) => e \in named

CalendarInv == EventsInv /\ DeletionsAreNamed /\ OnlyNamedEventsGo

LEMMA CalendarInvInit == CalendarInit => CalendarInv
<1> SUFFICES ASSUME CalendarInit PROVE CalendarInv
  OBVIOUS
<1>1. EventsInv
  BY DEF CalendarInit, EventsInv, Calls, NoGoogleCall, Events
<1>2. DeletionsAreNamed /\ OnlyNamedEventsGo
  BY DEF CalendarInit, DeletionsAreNamed, Wanted, OnlyNamedEventsGo, NoGoogleCall
<1>3. QED
  BY <1>1, <1>2 DEF CalendarInv

(* A new event is one more, and leaves the titles of the others.           *)
LEMMA OneMoreEvent ==
    ASSUME EventsInv, NEW title \in Titles, New(title)
    PROVE  /\ titleOf' \in Seq(Titles)
           /\ Events' = Events \cup {Cardinality(Events) + 1}
           /\ Cardinality(Events) + 1 \notin Events
           /\ \A e \in Events : titleOf'[e] = titleOf[e]
           /\ titleOf'[Cardinality(Events) + 1] = title
<1>1. titleOf \in Seq(Titles) /\ titleOf' = Append(titleOf, title)
  BY DEF EventsInv, New
<1>2. Events = 1 .. Len(titleOf) /\ Len(titleOf) \in Nat
  BY <1>1 DEF Events
<1>3. Cardinality(Events) = Len(titleOf)
  <2> DEFINE n == Len(titleOf)
  <2>1. n \in Int /\ 1 \in Int /\ n >= 0
    BY <1>2
  <2>2. Cardinality(1 .. n) = IF 1 > n THEN 0 ELSE n - 1 + 1
    BY <2>1, FS_Interval, Zenon
  <2>3. QED
    BY <1>2, <2>1, <2>2
<1>4. Events' = 1 .. Len(titleOf) + 1
  BY <1>1 DEF Events
<1>5. QED
  BY <1>1, <1>2, <1>3, <1>4

(* A step that makes no event, lets only named ones go and starts no       *)
(* deletion of an unnamed one keeps the invariant, if what it confirms is  *)
(* there or was never reached.                                             *)
LEMMA QuietStep ==
    ASSUME CalendarInv, UNCHANGED titleOf,
           apple' \subseteq Events, google' \subseteq Events,
           googleCalls' \in [CalendarCalls -> Calls],
           named \subseteq named', unreached \subseteq unreached',
           apple \ named' \subseteq apple', google \ named' \subseteq google',
           \A e \in toldCreated' \ toldCreated : e \in apple' \cup google' \cup unreached',
           \A c \in CalendarCalls, e \in Events :
             Wanted(googleCalls'[c], e) => e \in named' \/ Wanted(googleCalls[c], e)
    PROVE  CalendarInv'
<1>1. Events' = Events
  BY DEF Events
<1>2. EventsInv'
  BY <1>1 DEF CalendarInv, EventsInv, Calls
<1>3. DeletionsAreNamed'
  BY <1>1 DEF CalendarInv, DeletionsAreNamed, Wanted
<1>4. OnlyNamedEventsGo'
  BY DEF CalendarInv, OnlyNamedEventsGo
<1>5. QED
  BY <1>2, <1>3, <1>4 DEF CalendarInv

(* So does a step that makes one: a deletion of its title that is under    *)
(* way names it.                                                           *)
LEMMA CreatingStep ==
    ASSUME CalendarInv, NEW title \in Titles, New(title),
           apple \subseteq apple', apple' \subseteq Events', UNCHANGED google,
           googleCalls' \in [CalendarCalls -> Calls'],
           named' = IF ToBeDeleted(title) THEN named \cup {Cardinality(Events) + 1} ELSE named,
           unreached \subseteq unreached',
           toldCreated' \ toldCreated \subseteq apple' \cup unreached',
           \A c \in CalendarCalls : \/ googleCalls'[c] = googleCalls[c]
                                    \/ googleCalls'[c].op \in {"none", "create"}
    PROVE  CalendarInv'
<1> DEFINE new == Cardinality(Events) + 1
<1>1. /\ titleOf' \in Seq(Titles)
      /\ Events' = Events \cup {new} /\ new \notin Events
      /\ \A e \in Events : titleOf'[e] = titleOf[e]
      /\ titleOf'[new] = title
  BY OneMoreEvent DEF CalendarInv
<1> HIDE DEF new
<1>2. EventsInv'
  BY <1>1 DEF CalendarInv, EventsInv, Calls
<1>3. ASSUME NEW c \in CalendarCalls, NEW e \in Events', Wanted(googleCalls[c], e)'
      PROVE  e \in named'
  <2>1. googleCalls'[c] = googleCalls[c]
    BY <1>3 DEF Wanted
  <2>2. CASE e \in Events
    <3>1. Wanted(googleCalls[c], e)
      BY <1>1, <1>3, <2>1, <2>2 DEF Wanted
    <3>2. QED
      BY <2>2, <3>1 DEF CalendarInv, DeletionsAreNamed
  <2>3. CASE e = new
    <3>1. \/ googleCalls[c].op = "list" /\ Fits(googleCalls[c].title, title)
          \/ googleCalls[c].op = "delete" /\ new \in googleCalls[c].ids
      BY <1>1, <1>3, <2>1, <2>3 DEF Wanted
    <3>2. googleCalls[c].ids \subseteq Events
      BY DEF CalendarInv, EventsInv, Calls
    <3>3. ToBeDeleted(title)
      BY <1>1, <3>1, <3>2 DEF ToBeDeleted
    <3>4. QED
      BY <2>3, <3>3 DEF new
  <2>4. QED
    BY <1>1, <2>2, <2>3
<1>4. OnlyNamedEventsGo'
  BY DEF CalendarInv, OnlyNamedEventsGo
<1>5. QED
  BY <1>2, <1>3, <1>4 DEF CalendarInv, DeletionsAreNamed

LEMMA AppleCreatesStep ==
    ASSUME CalendarInv, NEW title \in Titles, AppleCreates(title) PROVE CalendarInv'
<1> DEFINE new == Cardinality(Events) + 1
<1>1. Events' = Events \cup {new}
  BY OneMoreEvent DEF CalendarInv, AppleCreates
<1>2. /\ New(title) /\ apple' = apple \cup {new} /\ toldCreated' = toldCreated \cup {new}
      /\ named' = IF ToBeDeleted(title) THEN named \cup {new} ELSE named
      /\ UNCHANGED <<google, googleCalls, unreached>>
  BY DEF AppleCreates
<1>3. apple' \subseteq Events' /\ googleCalls' \in [CalendarCalls -> Calls']
  BY <1>1, <1>2 DEF CalendarInv, EventsInv, Calls
<1>4. QED
  BY <1>2, <1>3, CreatingStep

LEMMA AppleFailsToCreateStep ==
    ASSUME CalendarInv, NEW c \in CalendarCalls, NEW title \in Titles, NEW made \in BOOLEAN,
           AppleFailsToCreate(c, title, made)
    PROVE  CalendarInv'
<1> DEFINE new == Cardinality(Events) + 1
           call == [op |-> "create", title |-> title, ids |-> {new}]
<1>1. Events' = Events \cup {new}
  BY OneMoreEvent DEF CalendarInv, AppleFailsToCreate
<1>2. /\ New(title) /\ UNCHANGED google
      /\ apple' = IF made THEN apple \cup {new} ELSE apple
      /\ named' = IF ToBeDeleted(title) THEN named \cup {new} ELSE named
      /\ \/ UNCHANGED googleCalls
         \/ googleCalls' = [googleCalls EXCEPT ![c] = call]
  BY DEF AppleFailsToCreate, TriesGoogle
<1>3. /\ toldCreated' \ toldCreated \subseteq {new}
      /\ unreached \subseteq unreached'
      /\ toldCreated' # toldCreated => made \/ new \in unreached'
  BY DEF AppleFailsToCreate
<1>4. call \in Calls'
  BY <1>1 DEF Calls
<1> HIDE DEF new
<1>5. googleCalls' \in [CalendarCalls -> Calls']
  <2>1. googleCalls \in [CalendarCalls -> Calls']
    BY <1>1 DEF CalendarInv, EventsInv, Calls
  <2>2. QED
    BY <1>2, <1>4, <2>1
<1>6. \A d \in CalendarCalls : \/ googleCalls'[d] = googleCalls[d]
                               \/ googleCalls'[d].op \in {"none", "create"}
  BY <1>2 DEF CalendarInv, EventsInv
<1>7. /\ apple \subseteq apple' /\ apple' \subseteq Events'
      /\ toldCreated' \ toldCreated \subseteq apple' \cup unreached'
  BY <1>1, <1>2, <1>3 DEF CalendarInv, EventsInv
<1>8. QED
  BY <1>2, <1>3, <1>5, <1>6, <1>7, CreatingStep DEF new

-----------------------------------------------------------------------------
(* Calls to Google *)

LEMMA GoogleCreatesStep ==
    ASSUME CalendarInv, NEW c \in CalendarCalls,
           GoogleCreates(c) \/ \E made \in BOOLEAN : GoogleFailsToCreate(c, made)
    PROVE  CalendarInv'
<1>1. /\ googleCalls[c].ids \subseteq Events
      /\ googleCalls' = [googleCalls EXCEPT ![c] = NoGoogleCall]
      /\ UNCHANGED <<apple, titleOf, named>>
      /\ google \subseteq google' /\ google' \subseteq google \cup googleCalls[c].ids
      /\ unreached \subseteq unreached'
      /\ toldCreated' \ toldCreated \subseteq apple' \cup google' \cup unreached'
  BY DEF GoogleCreates, GoogleFailsToCreate, Frees, CalendarInv, EventsInv, Calls
<1>2. /\ apple' \subseteq Events /\ google' \subseteq Events
      /\ googleCalls' \in [CalendarCalls -> Calls]
      /\ \A d \in CalendarCalls, e \in Events :
           Wanted(googleCalls'[d], e) => Wanted(googleCalls[d], e)
  BY <1>1 DEF CalendarInv, EventsInv, Calls, NoGoogleCall, Wanted
<1>3. QED
  BY <1>1, <1>2, QuietStep

(* A call that lists, deletes or gives up only ever wants less, save for   *)
(* what it finds to delete, which its title has named.                     *)
LEMMA GoogleDeletesStep ==
    ASSUME CalendarInv, NEW c \in CalendarCalls,
           GoogleLists(c) \/ GoogleFailsToDelete(c) \/ \E e \in Events : GoogleDeletes(c, e)
    PROVE  CalendarInv'
<1> USE DEF CalendarInv, EventsInv
<1>1. CASE GoogleLists(c)
  <2> DEFINE found == Matching(google, googleCalls[c].title)
  <2>1. /\ found \subseteq Events
        /\ \A e \in found : Wanted(googleCalls[c], e)
    BY <1>1 DEF GoogleLists, Matching, Wanted
  <2>2. UNCHANGED <<apple, google, titleOf, toldCreated, unreached, named>>
    BY <1>1 DEF GoogleLists
  <2>3. CASE googleCalls' = [googleCalls EXCEPT ![c] = NoGoogleCall]
    <3>1. /\ googleCalls' \in [CalendarCalls -> Calls]
          /\ \A d \in CalendarCalls, e \in Events :
               Wanted(googleCalls'[d], e) => Wanted(googleCalls[d], e)
      BY <2>3 DEF Calls, NoGoogleCall, Wanted
    <3>2. QED
      BY <2>2, <3>1, QuietStep
  <2>4. CASE googleCalls' = [googleCalls EXCEPT ![c].op = "delete", ![c].ids = found]
    <3>1. googleCalls[c] \in Calls
      OBVIOUS
    <3>2. /\ googleCalls'[c] = [op |-> "delete", title |-> googleCalls[c].title, ids |-> found]
          /\ \A d \in CalendarCalls \ {c} : googleCalls'[d] = googleCalls[d]
      BY <2>4, <3>1 DEF Calls
    <3>3. /\ googleCalls' \in [CalendarCalls -> Calls]
          /\ \A d \in CalendarCalls, e \in Events :
               Wanted(googleCalls'[d], e) => Wanted(googleCalls[d], e)
      BY <2>1, <2>4, <3>1, <3>2 DEF Calls, Wanted
    <3>4. QED
      BY <2>2, <3>3, QuietStep
  <2>5. QED
    BY <1>1, <2>3, <2>4 DEF GoogleLists, Frees
<1>2. CASE GoogleFailsToDelete(c)
  <2>1. /\ googleCalls' = [googleCalls EXCEPT ![c] = NoGoogleCall]
        /\ UNCHANGED <<apple, google, titleOf, toldCreated, unreached, named>>
    BY <1>2 DEF GoogleFailsToDelete, Frees
  <2>2. /\ googleCalls' \in [CalendarCalls -> Calls]
        /\ \A d \in CalendarCalls, e \in Events :
             Wanted(googleCalls'[d], e) => Wanted(googleCalls[d], e)
    BY <2>1 DEF Calls, NoGoogleCall, Wanted
  <2>3. QED
    BY <2>1, <2>2, QuietStep
<1>3. ASSUME NEW e \in Events, GoogleDeletes(c, e) PROVE CalendarInv'
  <2>1. /\ google' = google \ {e} /\ Wanted(googleCalls[c], e)
        /\ UNCHANGED <<apple, titleOf, toldCreated, unreached, named>>
    BY <1>3 DEF GoogleDeletes, Wanted
  <2>2. e \in named
    BY <2>1 DEF DeletionsAreNamed
  <2>3. /\ googleCalls' \in [CalendarCalls -> Calls]
        /\ \A d \in CalendarCalls, f \in Events :
             Wanted(googleCalls'[d], f) => Wanted(googleCalls[d], f)
    <3>1. CASE googleCalls' = [googleCalls EXCEPT ![c] = NoGoogleCall]
      BY <3>1 DEF Calls, NoGoogleCall, Wanted
    <3>2. CASE googleCalls' = [googleCalls EXCEPT ![c].ids = googleCalls[c].ids \ {e}]
      <4>1. googleCalls[c] \in Calls
        OBVIOUS
      <4>2. QED
        BY <3>2, <4>1 DEF Calls, Wanted
    <3>3. QED
      BY <1>3, <3>1, <3>2 DEF GoogleDeletes, Frees
  <2>4. QED
    BY <2>1, <2>2, <2>3, QuietStep
<1>4. QED
  BY <1>1, <1>2, <1>3

-----------------------------------------------------------------------------
(* Calls to Apple, and the rest *)

LEMMA AppleDeletesStep ==
    ASSUME CalendarInv, NEW title, NEW deleted \in SUBSET Events, AppleDeletes(title, deleted)
    PROVE  CalendarInv'
<1>1. /\ apple' = apple \ deleted /\ deleted \subseteq AppleMatching(apple, title)
      /\ named' = named \cup AppleMatching(Events, title)
      /\ UNCHANGED <<google, titleOf, googleCalls, toldCreated, unreached>>
  BY DEF AppleDeletes
<1>2. AppleMatching(apple, title) \subseteq AppleMatching(Events, title)
  BY DEF AppleMatching, Matching, CalendarInv, EventsInv
<1>3. QED
  BY <1>1, <1>2, QuietStep DEF CalendarInv, EventsInv

LEMMA AppleFailsToDeleteStep ==
    ASSUME CalendarInv, NEW c \in CalendarCalls, NEW title \in Queries \cup {"all"},
           NEW deleted \in SUBSET Events, AppleFailsToDelete(c, title, deleted)
    PROVE  CalendarInv'
<1> DEFINE call == [op |-> "list", title |-> title, ids |-> {}]
<1>1. /\ apple' = apple \ deleted
      /\ deleted \subseteq IF title = "all" THEN apple ELSE {}
      /\ named' = named \cup Matching(Events, title)
      /\ UNCHANGED <<google, titleOf, toldCreated, unreached>>
      /\ \/ UNCHANGED googleCalls
         \/ googleCalls' = [googleCalls EXCEPT ![c] = call]
  BY DEF AppleFailsToDelete, TriesGoogle
<1>2. deleted \subseteq named'
  BY <1>1 DEF Matching, Fits
<1>3. googleCalls' \in [CalendarCalls -> Calls]
  BY <1>1 DEF CalendarInv, EventsInv, Calls
<1>4. ASSUME NEW d \in CalendarCalls, NEW e \in Events, Wanted(googleCalls'[d], e)
      PROVE  e \in named' \/ Wanted(googleCalls[d], e)
  <2>1. CASE googleCalls'[d] = googleCalls[d]
    BY <1>4, <2>1
  <2>2. CASE googleCalls'[d] = call
    <3>1. Fits(title, titleOf[e])
      BY <1>4, <2>2 DEF Wanted
    <3>2. QED
      BY <1>1, <3>1 DEF Matching
  <2>3. QED
    BY <1>1, <2>1, <2>2 DEF CalendarInv, EventsInv
<1>5. QED
  BY <1>1, <1>2, <1>3, <1>4, QuietStep DEF CalendarInv, EventsInv

LEMMA CalendarInvStep == CalendarInv /\ [CalendarNext]_calendarVars => CalendarInv'
<1> SUFFICES ASSUME CalendarInv, [CalendarNext]_calendarVars PROVE CalendarInv'
  OBVIOUS
<1>1. ASSUME NEW t \in Titles,
             \/ AppleCreates(t)
             \/ \E c \in CalendarCalls, made \in BOOLEAN : AppleFailsToCreate(c, t, made)
      PROVE  CalendarInv'
  BY <1>1, AppleCreatesStep, AppleFailsToCreateStep
<1>2. ASSUME NEW t \in Queries \cup {"all"}, NEW deleted \in SUBSET Events,
             \/ AppleDeletes(t, deleted)
             \/ \E c \in CalendarCalls : AppleFailsToDelete(c, t, deleted)
      PROVE  CalendarInv'
  BY <1>2, AppleDeletesStep, AppleFailsToDeleteStep
<1>3. ASSUME NEW c \in CalendarCalls,
             \/ GoogleCreates(c)
             \/ \E made \in BOOLEAN : GoogleFailsToCreate(c, made)
      PROVE  CalendarInv'
  BY <1>3, GoogleCreatesStep
<1>4. ASSUME NEW c \in CalendarCalls,
             \/ GoogleLists(c) \/ GoogleFailsToDelete(c)
             \/ \E e \in Events : GoogleDeletes(c, e)
      PROVE  CalendarInv'
  BY <1>4, GoogleDeletesStep
<1>5. ASSUME UNCHANGED <<apple, google, titleOf, googleCalls, toldCreated, unreached, named>>
      PROVE  CalendarInv'
  BY <1>5, QuietStep DEF CalendarInv, EventsInv
<1>6. ASSUME NEW e \in Events, OwnerRemoves(e) PROVE CalendarInv'
  <2>1. /\ apple' = apple \ {e} /\ google' = google \ {e} /\ named' = named \cup {e}
        /\ UNCHANGED <<titleOf, googleCalls, toldCreated, unreached>>
    BY <1>6 DEF OwnerRemoves
  <2>2. QED
    BY <2>1, QuietStep DEF CalendarInv, EventsInv
<1>7. QED
  <2>1. CASE CalendarNext
    BY <2>1, <1>1, <1>2, <1>3, <1>4, <1>5, <1>6 DEF CalendarNext, ListsEvents, GoogleCooldownPasses
  <2>2. QED
    BY <2>1, <1>5 DEF calendarVars

(* However calls overlap, time out and fail half-way, and however often    *)
(* the circuit opens, an event that was confirmed stays in one of the      *)
(* calendars until it is named (OnlyNamedEventsGo).                        *)
THEOREM UnnamedEventsStay == CalendarSpec => []OnlyNamedEventsGo
<1>1. CalendarInv => OnlyNamedEventsGo
  BY DEF CalendarInv
<1>2. QED
  BY CalendarInvInit, CalendarInvStep, <1>1, PTL DEF CalendarSpec

-----------------------------------------------------------------------------
(* Mail *)

\* What is in the store was made of its email, which was of some kind.
MailInv ==
    /\ \A o \in orders : o = OrderIn(o.mail) /\ o.type = EmailType(o.mail)
                         /\ EmailType(o.mail) # "none"
    /\ \A o, p \in orders : o # p => ~ SameOrder(o, p)

LEMMA ReceiptsAreNothingElse ==
    ASSUME NEW mail, EmailType(mail) = "receipt"
    PROVE  mail.subject \cap {"flight", "hotel", "package"} = {}
<1>1. ~ IsFlight(mail) /\ ~ IsHotel(mail) /\ ~ IsPackage(mail)
  BY DEF EmailType
<1>2. QED
  BY <1>1 DEF IsFlight, IsHotel, IsPackage

(***************************************************************************)
(* What is filed as a receipt speaks of no flight, stay or parcel, and of  *)
(* two emails of one order only the first is filed: for any emails, known  *)
(* vendors and window.                                                     *)
(***************************************************************************)
THEOREM MailIsFiledAsWhatItIs == MailSpec => []FiledAsWhatItIs
<1>1. MailInit => MailInv
  BY DEF MailInit, MailInv
<1>2. MailInv /\ [MailNext]_mailVars => MailInv'
  <2> SUFFICES ASSUME MailInv, [MailNext]_mailVars PROVE MailInv'
    OBVIOUS
  <2>1. ASSUME NEW mail \in Emails, MailRead(mail) PROVE MailInv'
    <3> DEFINE new == OrderIn(mail)
    <3>1. new.mail = mail /\ new.type = EmailType(mail)
      BY DEF OrderIn
    <3>2. /\ EmailType(mail) # "none"
          /\ \A o \in orders : ~ SameOrder(o, new)
          /\ orders' = orders \cup {new}
      BY <2>1 DEF MailRead
    <3>3. new = OrderIn(new.mail)
      BY <3>1
    <3> HIDE DEF new
    <3>4. \A o \in orders' : o = OrderIn(o.mail) /\ o.type = EmailType(o.mail)
                             /\ EmailType(o.mail) # "none"
      BY <3>1, <3>2, <3>3 DEF MailInv
    <3>5. \A o \in orders : ~ SameOrder(new, o)
      BY <3>2 DEF SameOrder
    <3>6. \A o, p \in orders' : o # p => ~ SameOrder(o, p)
      BY <3>2, <3>5 DEF MailInv
    <3>7. QED
      BY <3>4, <3>6 DEF MailInv
  <2>2. ASSUME NEW text \in Texts, TextRead(text) PROVE MailInv'
    BY <2>2 DEF TextRead, MailInv
  <2>3. CASE UNCHANGED mailVars
    BY <2>3 DEF mailVars, MailInv
  <2>4. QED
    BY <2>1, <2>2, <2>3 DEF MailNext
<1>3. MailInv => FiledAsWhatItIs
  <2> SUFFICES ASSUME MailInv PROVE FiledAsWhatItIs
    OBVIOUS
  <2>1. ASSUME NEW o \in orders, o.type = "receipt"
        PROVE  o.mail.subject \cap {"flight", "hotel", "package"} = {}
    BY <2>1, ReceiptsAreNothingElse DEF MailInv
  <2>2. ASSUME NEW o \in orders, NEW p \in orders, o # p
        PROVE  ~ (o.vendor = p.vendor /\ o.number # NoNumber /\ o.number = p.number)
    BY <2>2 DEF MailInv, SameOrder
  <2>3. QED
    BY <2>1, <2>2 DEF FiledAsWhatItIs
<1>4. QED
  BY <1>1, <1>2, <1>3, PTL DEF MailSpec

-----------------------------------------------------------------------------
(* Times in words *)

LEMMA Divided ==
    ASSUME NEW a \in Int, NEW n \in Nat \ {0}
    PROVE  /\ a \div n \in Int /\ a % n \in 0 .. n - 1
           /\ a = n * (a \div n) + (a % n)
  OBVIOUS

(* A number has one quotient and one remainder.                            *)
LEMMA RemainderOf ==
    ASSUME NEW n \in Nat \ {0}, NEW q \in Int, NEW r \in 0 .. n - 1
    PROVE  (n * q + r) % n = r
<1> DEFINE a == n * q + r
           p == a \div n
           s == a % n
<1>1. a \in Int
  OBVIOUS
<1>2. p \in Int /\ s \in 0 .. n - 1 /\ a = n * p + s
  BY <1>1, Divided
<1> HIDE DEF p, s
<1>3. n * (p - q) = r - s
  BY <1>2
<1>4. CASE p - q >= 1
  <2>1. n * (p - q) >= n
    BY <1>2, <1>4
  <2>2. QED
    BY <1>2, <1>3, <2>1
<1>5. CASE p - q <= -1
  <2>1. n * (p - q) <= -n
    BY <1>2, <1>5
  <2>2. QED
    BY <1>2, <1>3, <2>1
<1>6. CASE p = q
  BY <1>2, <1>6 DEF s
<1>7. QED
  BY <1>2, <1>4, <1>5, <1>6

(* The first day after today, or from today on, of a given remainder.      *)
LEMMA NextOfRemainder ==
    ASSUME NEW n \in Nat \ {0}, NEW today \in Int, NEW r \in 0 .. n - 1
    PROVE  /\ LET d == n * (today \div n) + r + (IF r <= today % n THEN n ELSE 0)
              IN  /\ d \in Int /\ today < d /\ d <= today + n /\ d % n = r
                  /\ \A e \in Int : today < e /\ e % n = r => d <= e
           /\ LET d == n * (today \div n) + r + (IF r < today % n THEN n ELSE 0)
              IN  /\ d \in Int /\ today <= d /\ d <= today + n /\ d % n = r
                  /\ \A e \in Int : today <= e /\ e % n = r => d <= e
<1> DEFINE q == today \div n
           t == today % n
<1>1. q \in Int /\ t \in 0 .. n - 1 /\ today = n * q + t
  BY Divided
<1> HIDE DEF q, t
<1>2. /\ n * q \in Int /\ n * (q + 1) = n * q + n
      /\ (n * q + r) % n = r /\ (n * (q + 1) + r) % n = r
  BY <1>1, RemainderOf
<1>3. ASSUME NEW e \in Int, e % n = r, e < n * q + n + r PROVE e <= n * q + r
  <2> DEFINE p == e \div n
  <2>1. p \in Int /\ e = n * p + r
    BY <1>3, Divided
  <2> HIDE DEF p
  <2>2. n * (p - q) < n
    BY <1>1, <1>2, <1>3, <2>1
  <2>3. p - q < 1
    <3> SUFFICES ASSUME p - q >= 1 PROVE n * (p - q) >= n
      BY <1>1, <2>1, <2>2
    <3>1. QED
      BY <1>1, <2>1
  <2>4. n * (q - p) >= 0
    BY <1>1, <2>1, <2>3
  <2>5. QED
    BY <1>1, <2>1, <2>4
<1>4. ASSUME NEW e \in Int, e % n = r, e < n * q + r PROVE e < n * q
  <2> DEFINE p == e \div n
  <2>1. p \in Int /\ e = n * p + r
    BY <1>4, Divided
  <2> HIDE DEF p
  <2>2. p - q < 0
    <3> SUFFICES ASSUME p - q >= 0 PROVE n * (p - q) >= 0
      BY <1>1, <1>4, <2>1
    <3>1. QED
      BY <1>1, <2>1
  <2>3. n * (q - p) >= n
    BY <1>1, <2>1, <2>2
  <2>4. QED
    BY <1>1, <2>1, <2>3
<1>5. ASSUME NEW d, d = n * q + r + (IF r <= t THEN n ELSE 0)
      PROVE  /\ d \in Int /\ today < d /\ d <= today + n /\ d % n = r
             /\ \A e \in Int : today < e /\ e % n = r => d <= e
  <2>1. CASE r <= t
    <3>1. d = n * (q + 1) + r /\ d = n * q + n + r /\ n * q \in Int
      BY <1>1, <1>2, <1>5, <2>1
    <3>2. d \in Int /\ today < d /\ d <= today + n /\ d % n = r
      BY <1>1, <1>2, <2>1, <3>1
    <3>3. ASSUME NEW e \in Int, today < e, e % n = r PROVE d <= e
      <4> SUFFICES ASSUME e < d PROVE FALSE
        BY <3>2
      <4>1. e <= n * q + r
        BY <1>3, <3>1, <3>3
      <4>2. QED
        BY <1>1, <2>1, <3>1, <3>3, <4>1
    <3>4. QED
      BY <3>2, <3>3
  <2>2. CASE r > t
    BY <1>1, <1>2, <1>4, <1>5, <2>2
  <2>3. QED
    BY <1>1, <2>1, <2>2
<1>6. ASSUME NEW d, d = n * q + r + (IF r < t THEN n ELSE 0)
      PROVE  /\ d \in Int /\ today <= d /\ d <= today + n /\ d % n = r
             /\ \A e \in Int : today <= e /\ e % n = r => d <= e
  <2>1. CASE r < t
    <3>1. d = n * (q + 1) + r /\ d = n * q + n + r /\ n * q \in Int
      BY <1>1, <1>2, <1>6, <2>1
    <3>2. d \in Int /\ today <= d /\ d <= today + n /\ d % n = r
      BY <1>1, <1>2, <2>1, <3>1
    <3>3. ASSUME NEW e \in Int, today <= e, e % n = r PROVE d <= e
      <4> SUFFICES ASSUME e < d PROVE FALSE
        BY <3>2
      <4>1. e <= n * q + r
        BY <1>3, <3>1, <3>3
      <4>2. QED
        BY <1>1, <2>1, <3>1, <3>3, <4>1
    <3>4. QED
      BY <3>2, <3>3
  <2>2. CASE r >= t
    <3>1. d = n * q + r /\ n * q \in Int
      BY <1>1, <1>2, <1>6, <2>2
    <3>2. d \in Int /\ today <= d /\ d <= today + n /\ d % n = r
      BY <1>1, <1>2, <2>2, <3>1
    <3>3. ASSUME NEW e \in Int, today <= e, e % n = r PROVE d <= e
      <4> SUFFICES ASSUME e < d PROVE FALSE
        BY <3>2
      <4>1. e < n * q
        BY <1>4, <3>1, <3>3
      <4>2. QED
        BY <1>1, <3>1, <3>3, <4>1
    <3>4. QED
      BY <3>2, <3>3
  <2>3. QED
    BY <1>1, <2>1, <2>2
<1>7. QED
  BY <1>5, <1>6 DEF q, t

(* The least of a set of days is the one there is.                         *)
LEMMA SoonestIs ==
    ASSUME NEW days \in SUBSET Int, NEW d \in days, \A e \in days : d <= e
    PROVE  Soonest(days) = d
<1>1. \A x \in days : (\A e \in days : x <= e) <=> x = d
  OBVIOUS
<1>2. Soonest(days) = CHOOSE x \in days : x = d
  BY <1>1, Zenon DEF Soonest
<1>3. QED
  BY <1>2

(* A weekday in words is the first such day after today, and a date in     *)
(* words the first such day from today on.                                 *)
LEMMA WeekdayIsMeant ==
    ASSUME NEW today \in Int, NEW r \in 0 .. Week - 1
    PROVE  today + DaysUntil(r, today)
             = Soonest({d \in today .. today + Year : d > today /\ d % Week = r})
<1> DEFINE coming == today .. today + Year
           m == Week * (today \div Week)
           t == today % Week
           first == m + r + (IF r <= t THEN Week ELSE 0)
           days == {d \in coming : d > today /\ d % Week = r}
<1>1. Week \in Nat \ {0} /\ Year \in Nat \ {0} /\ Week <= Year
  BY DueAssumption
<1>2. /\ first \in Int /\ today < first /\ first <= today + Week /\ first % Week = r
      /\ \A e \in Int : today < e /\ e % Week = r => first <= e
  BY <1>1, NextOfRemainder
<1>3. m \in Int /\ t \in 0 .. Week - 1 /\ today = m + t
  <2>1. /\ today \div Week \in Int /\ t \in 0 .. Week - 1
        /\ today = (Week * (today \div Week)) + t
    BY <1>1, Divided
  <2>2. m \in Int
    BY <1>1, <2>1
  <2>3. QED
    BY <2>1, <2>2
<1>4. today + DaysUntil(r, today) = first
  <2>1. DaysUntil(r, today) = IF r - t <= 0 THEN r - t + Week ELSE r - t
    BY DEF DaysUntil
  <2> HIDE DEF m, t
  <2>2. CASE r <= t
    BY <1>1, <1>3, <2>1, <2>2
  <2>3. CASE ~ (r <= t)
    BY <1>1, <1>3, <2>1, <2>3
  <2>4. QED
    BY <2>2, <2>3
<1> HIDE DEF first
<1>5. \A e \in coming : e \in Int
  BY <1>1
<1>6. first \in coming
  BY <1>1, <1>2
<1> HIDE DEF coming
<1>7. days \in SUBSET Int /\ first \in days /\ \A e \in days : first <= e
  BY <1>2, <1>5, <1>6
<1> HIDE DEF days
<1>8. Soonest(days) = first
  BY <1>7, SoonestIs
<1>9. QED
  BY <1>4, <1>8 DEF days, coming

LEMMA DateIsMeant ==
    ASSUME NEW today \in Int, NEW r \in 0 .. Year - 1
    PROVE  DayOf(r, Unsaid, today) = Soonest({d \in today .. today + Year : d % Year = r})
<1> DEFINE coming == today .. today + Year
           m == Year * (today \div Year)
           t == today % Year
           first == m + r + (IF r < t THEN Year ELSE 0)
           days == {d \in coming : d % Year = r}
<1>1. Year \in Nat \ {0}
  BY DueAssumption
<1>2. /\ first \in Int /\ today <= first /\ first <= today + Year /\ first % Year = r
      /\ \A e \in Int : today <= e /\ e % Year = r => first <= e
  BY <1>1, NextOfRemainder
<1>3. m \in Int /\ t \in 0 .. Year - 1 /\ today = m + t /\ (today \div Year) * Year = m
  <2>1. /\ today \div Year \in Int /\ t \in 0 .. Year - 1
        /\ today = (Year * (today \div Year)) + t
    BY <1>1, Divided
  <2>2. m \in Int /\ (today \div Year) * Year = m
    BY <1>1, <2>1
  <2>3. QED
    BY <2>1, <2>2
<1>4. DayOf(r, Unsaid, today) = first
  <2> HIDE DEF m, t
  <2>1. DayOf(r, Unsaid, today) = IF m + r < today THEN m + r + Year ELSE m + r
    BY <1>3 DEF DayOf
  <2>2. CASE r < t
    BY <1>1, <1>3, <2>1, <2>2
  <2>3. CASE ~ (r < t)
    BY <1>1, <1>3, <2>1, <2>3
  <2>4. QED
    BY <2>2, <2>3
<1> HIDE DEF first
<1>5. \A e \in coming : e \in Int /\ today <= e
  BY <1>1
<1>6. first \in coming
  BY <1>1, <1>2
<1> HIDE DEF coming
<1>7. days \in SUBSET Int /\ first \in days /\ \A e \in days : first <= e
  BY <1>2, <1>5, <1>6
<1> HIDE DEF days
<1>8. Soonest(days) = first
  BY <1>7, SoonestIs
<1>9. QED
  BY <1>4, <1>8 DEF days, coming

LEMMA DaysAreMeant ==
    ASSUME NEW text \in TimeTexts, NEW today \in Int,
           "day after tomorrow" \notin text.marks
    PROVE  DateIn(text, today) = Meant(text, today)
<1>1. /\ text.weekday \in (0 .. Week - 1) \cup {Unsaid}
      /\ text.date \in (0 .. Year - 1) \cup {Unsaid}
  BY DueAssumption
<1>2. text.weekday # Unsaid =>
        today + DaysUntil(text.weekday, today)
          = Soonest({d \in today .. today + Year : d > today /\ d % Week = text.weekday})
  <2>1. text.weekday # Unsaid => text.weekday \in 0 .. Week - 1
    BY <1>1, Zenon
  <2>2. QED
    BY <2>1, WeekdayIsMeant, Zenon
<1>3. text.date # Unsaid =>
        DayOf(text.date, Unsaid, today)
          = Soonest({d \in today .. today + Year : d % Year = text.date})
  <2>1. text.date # Unsaid => text.date \in 0 .. Year - 1
    BY <1>1, Zenon
  <2>2. QED
    BY <2>1, DateIsMeant, Zenon
<1>4. text.year # Unsaid => DayOf(text.date, text.year, today) = text.year * Year + text.date
  BY Zenon DEF DayOf
<1>5. CASE "today" \in text.marks
  BY <1>5 DEF DateIn, Meant
<1>6. CASE "today" \notin text.marks /\ "tomorrow" \in text.marks
  BY <1>6 DEF DateIn, Meant
<1>7. CASE "today" \notin text.marks /\ "tomorrow" \notin text.marks
  <2>1. CASE text.weekday # Unsaid
    BY <1>2, <1>7, <2>1, Zenon DEF DateIn, Meant
  <2>2. CASE text.weekday = Unsaid /\ text.date # Unsaid /\ text.year = Unsaid
    BY <1>3, <1>7, <2>2, Zenon DEF DateIn, Meant
  <2>3. CASE text.weekday = Unsaid /\ text.date # Unsaid /\ text.year # Unsaid
    BY <1>4, <1>7, <2>3, Zenon DEF DateIn, Meant
  <2>4. CASE text.weekday = Unsaid /\ text.date = Unsaid
    BY <1>7, <2>4, Zenon DEF DateIn, Meant
  <2>5. QED
    BY <2>1, <2>2, <2>3, <2>4
<1>8. QED
  BY <1>5, <1>6, <1>7

LEMMA HoursAreMeant ==
    ASSUME NEW text \in TimeTexts, Listed(text)
    PROVE  TimeIn(text) = HourMeant(text)
<1>1. /\ text.minutes \in BOOLEAN /\ text.leading = Unsaid /\ text.time # Unsaid
      /\ text.time \in (0 .. DayTicks - 1) \cup {Unsaid}
  BY DueAssumption DEF Listed
<1>2. text.time \in 0 .. DayTicks - 1
  BY <1>1, Zenon
<1>3. HourAlone(text) = IF text.time < Noon /\ text.part \in {"noon", "evening"}
                        THEN text.time + Noon ELSE text.time
  BY <1>1 DEF HourAlone
<1>4. Noon \in Nat \ {0} /\ DayTicks = 2 * Noon
  BY DueAssumption
<1>5. CASE text.part = "none"
  BY <1>2, <1>3, <1>5 DEF TimeIn, HourMeant
<1>6. CASE text.part = "evening" /\ ~ text.minutes
  <2>1. CASE text.time < Noon
    <3>1. (Noon * 0 + text.time) % Noon = text.time
      BY <1>2, <1>4, <2>1, RemainderOf
    <3>2. text.time % Noon = text.time
      BY <1>2, <1>4, <3>1
    <3>3. HourAlone(text) = text.time + Noon /\ text.time + Noon \in 0 .. DayTicks - 1
      BY <1>2, <1>3, <1>4, <1>6, <2>1
    <3>4. QED
      BY <1>2, <1>4, <1>6, <3>2, <3>3 DEF TimeIn, HourMeant
  <2>2. CASE ~ (text.time < Noon)
    <3>1. (Noon * 1 + (text.time - Noon)) % Noon = text.time - Noon
      BY <1>2, <1>4, <2>2, RemainderOf
    <3>2. text.time % Noon = text.time - Noon
      BY <1>2, <1>4, <3>1
    <3>3. HourAlone(text) = text.time
      BY <1>3, <2>2
    <3>4. QED
      BY <1>2, <1>4, <1>6, <3>2, <3>3 DEF TimeIn, HourMeant
  <2>3. QED
    BY <2>1, <2>2
<1>7. QED
  BY <1>5, <1>6 DEF Listed

-----------------------------------------------------------------------------
(* Reminders *)

Reminder == [target : Targets, reason : Reasons, due : Int]
Confirmation == [ask : Asks, target : Targets, task : Tasks, asked : Nat]

\* What is kept is typed, and each confirmed reminder has one that serves it.
DueInv ==
    /\ clock \in Nat /\ zone \in Hosts
    /\ pending \in Seq(Reminder)
    /\ confirmed \subseteq Confirmation
    /\ DueWhenMeant

LEMMA QuotientOf ==
    ASSUME NEW n \in Nat \ {0}, NEW q \in Int, NEW r \in 0 .. n - 1
    PROVE  (q * n + r) \div n = q
<1> DEFINE a == n * q + r
           p == a \div n
<1>1. a \in Int /\ q * n + r = a
  OBVIOUS
<1>2. p \in Int /\ a = n * p + (a % n)
  BY <1>1, Divided
<1>3. a % n = r
  BY RemainderOf
<1> HIDE DEF p
<1>4. n * (p - q) = 0
  BY <1>2, <1>3
<1>5. CASE p - q >= 1
  <2>1. n * (p - q) >= n
    BY <1>2, <1>5
  <2>2. QED
    BY <1>4, <2>1
<1>6. CASE p - q <= -1
  <2>1. n * (p - q) <= -n
    BY <1>2, <1>6
  <2>2. QED
    BY <1>4, <2>1
<1>7. p = q
  BY <1>2, <1>5, <1>6
<1>8. QED
  BY <1>1, <1>7 DEF p

LEMMA OffsetsAreNumbers ==
    /\ DayTicks \in Nat \ {0} /\ Change \in Int /\ Before \in Int /\ After \in Int
    /\ \A t \in Int : OffsetAt(t) \in {Before, After} /\ Today(t) \in Int
    /\ \A host \in Hosts : host.before \in Int /\ host.after \in Int
<1>1. DayTicks \in Nat \ {0} /\ Change \in Int /\ Before \in Int /\ After \in Int
  <2>1. /\ Noon \in Nat \ {0} /\ DayTicks = 2 * Noon
        /\ Change \in Int /\ Before \in Int /\ After \in Int
    BY DueAssumption
  <2>2. QED
    BY <2>1
<1>2. \A t \in Int : OffsetAt(t) \in {Before, After}
  BY DEF OffsetAt
<1>3. ASSUME NEW t \in Int PROVE Today(t) \in Int
  <2>1. t + OffsetAt(t) \in Int
    BY <1>1, <1>2
  <2>2. QED
    BY <1>1, <2>1, Divided DEF Today
<1>4. \A host \in Hosts : host.before \in Int /\ host.after \in Int
  BY DueAssumption
<1>5. QED
  BY <1>1, <1>2, <1>3, <1>4

(* On a host that is not east of Israel, its midnight is in Israel on the  *)
(* day it begins.                                                          *)
LEMMA MidnightIsOnItsDay ==
    ASSUME zone \in Hosts, ~ (zone.before > Before \/ zone.after > After), NEW day \in Int
    PROVE  Today(HostInstant(day * DayTicks)) = day
<1> DEFINE wall == day * DayTicks
           t == HostInstant(wall)
           over == t + OffsetAt(t) - wall
<1>1. /\ DayTicks \in Nat \ {0} /\ Change \in Int /\ Before \in Int /\ After \in Int
      /\ zone.before \in Int /\ zone.after \in Int
  BY OffsetsAreNumbers
<1>2. /\ Before - zone.before < DayTicks /\ Before - zone.after < DayTicks
      /\ After - zone.before < DayTicks /\ After - zone.after < DayTicks
  BY DueAssumption
<1>3. wall \in Int
  BY <1>1
<1> HIDE DEF wall
<1>4. t \in Int /\ over \in 0 .. DayTicks - 1
  BY <1>1, <1>2, <1>3 DEF HostInstant, OffsetAt
<1>5. t + OffsetAt(t) = day * DayTicks + over
  BY <1>1, <1>3, <1>4 DEF wall, OffsetAt
<1> HIDE DEF over, t
<1>6. QED
  BY <1>1, <1>4, <1>5, QuotientOf DEF Today, t, wall

(* What is asked for comes to a moment, and unless the code mistakes it,   *)
(* to the one that was meant.                                              *)
LEMMA DueIsMeant ==
    ASSUME zone \in Hosts, NEW ask \in Asks, NEW now \in Nat, NEW target, NEW task
    PROVE  LET r == [ask |-> ask, target |-> target, task |-> task, asked |-> now]
           IN  DueOf(ask, now) \in Int /\ (Mistaken(r) \/ IsMeant(DueOf(ask, now), r))
<1> DEFINE r == [ask |-> ask, target |-> target, task |-> task, asked |-> now]
           due == DueOf(ask, now)
<1>1. /\ DayTicks \in Nat \ {0} /\ Change \in Int /\ Before \in Int /\ After \in Int
      /\ zone.before \in Int /\ zone.after \in Int
      /\ Today(now) \in Int /\ OffsetAt(now) \in Int
  BY OffsetsAreNumbers
<1>2. r.ask = ask /\ r.asked = now
  OBVIOUS
<1> HIDE DEF r
<1>3. /\ ask.form \in {"clock", "dated", "iso", "span", "unclear"}
      /\ ask.form \in {"clock", "dated", "iso"} => ask.time \in Int
      /\ ask.form \in {"dated", "iso"} => ask.day \in Int
      /\ ask.form = "iso" => ask.ahead \in Int \cup {Unsaid}
      /\ ask.form = "span" => ask.span \in Nat
  <2>1. /\ ask.form \in {"clock", "dated", "iso", "span", "unclear"}
        /\ ask.form \in {"clock", "dated", "iso"} => ask.time \in 0 .. DayTicks
        /\ ask.form \in {"dated", "iso"} => ask.day \in Int
        /\ ask.form = "iso" => ask.ahead \in Int \cup {Unsaid}
        /\ ask.form = "span" => ask.span \in Nat
    BY DueAssumption
  <2>2. QED
    BY <1>1, <2>1
<1>4. ASSUME NEW day \in Int, ask.form \in {"clock", "dated"}, NEW wall \in Int,
             Wall(r) = wall, wall = day * DayTicks + ask.time, ~ Mistaken(r)
      PROVE  Shows(Moment(day, ask.time, now), Wall(r))
  <2>1. OffsetAt(wall - OffsetAt(now)) = OffsetAt(now)
    BY <1>2, <1>4 DEF Mistaken
  <2>2. Moment(day, ask.time, now) = wall - OffsetAt(now)
    <3> DEFINE days == day * DayTicks
    <3>1. days \in Int /\ ask.time \in Int
      BY <1>1, <1>3, <1>4
    <3>2. wall = days + ask.time /\ Moment(day, ask.time, now) = days + ask.time - OffsetAt(now)
      BY <1>4, Zenon DEF Moment
    <3> HIDE DEF days
    <3>3. QED
      BY <1>1, <3>1, <3>2
  <2>3. QED
    BY <1>1, <1>4, <2>1, <2>2 DEF Shows
<1>5. CASE ask.form = "clock"
  <2>1. due = Moment(Today(now), ask.time, now)
    BY <1>5 DEF DueOf
  <2>2. Wall(r) = Today(now) * DayTicks + ask.time
    BY <1>2, <1>5 DEF Wall
  <2>3. Today(now) * DayTicks + ask.time \in Int
    BY <1>1, <1>3, <1>5
  <2>4. due \in Int
    <3> DEFINE days == Today(now) * DayTicks
    <3>1. days \in Int /\ ask.time \in Int
      BY <1>1, <1>3, <1>5
    <3>2. due = days + ask.time - OffsetAt(now)
      BY <2>1, Zenon DEF Moment
    <3> HIDE DEF days
    <3>3. QED
      BY <1>1, <3>1, <3>2
  <2>5. ~ Mistaken(r) => IsMeant(due, r)
    BY <1>1, <1>2, <1>4, <1>5, <2>1, <2>2, <2>3 DEF IsMeant
  <2>6. QED
    BY <2>4, <2>5 DEF r
<1>6. CASE ask.form = "dated"
  <2> DEFINE day == Today(HostInstant(ask.day * DayTicks))
  <2>1. due = Moment(day, ask.time, now)
    BY <1>6 DEF DueOf
  <2>2. Wall(r) = ask.day * DayTicks + ask.time
    BY <1>2, <1>6 DEF Wall
  <2>3. ask.day * DayTicks \in Int
    BY <1>1, <1>3, <1>6
  <2>4. day \in Int
    <3>1. HostInstant(ask.day * DayTicks) \in Int
      BY <1>1, <2>3 DEF HostInstant
    <3>2. QED
      BY <3>1, OffsetsAreNumbers
  <2>5. ~ Mistaken(r) => day = ask.day
    BY <1>2, <1>3, <1>6, MidnightIsOnItsDay DEF Mistaken
  <2> HIDE DEF day
  <2>6. due \in Int
    <3>1. day * DayTicks \in Int
      BY <1>1, <2>4
    <3>2. QED
      BY <1>1, <1>3, <1>6, <2>1, <3>1 DEF Moment
  <2>7. ~ Mistaken(r) => IsMeant(due, r)
    <3>1. ask.day * DayTicks + ask.time \in Int /\ ask.day \in Int
      BY <1>3, <1>6, <2>3
    <3>2. ~ Mistaken(r) => Shows(due, Wall(r))
      BY <1>4, <1>6, <2>1, <2>2, <2>5, <3>1
    <3>3. QED
      BY <1>2, <1>6, <3>2 DEF IsMeant
  <2>8. QED
    BY <2>6, <2>7 DEF r
<1>7. CASE ask.form = "iso"
  <2> DEFINE wall == ask.day * DayTicks + ask.time
  <2>1. Wall(r) = wall /\ wall \in Int
    BY <1>1, <1>2, <1>3, <1>7 DEF Wall
  <2>2. due = IF ask.ahead = Unsaid THEN HostInstant(wall) ELSE wall - ask.ahead
    BY <1>7 DEF DueOf
  <2> HIDE DEF wall
  <2>3. CASE ask.ahead # Unsaid
    <3>1. ask.ahead \in Int
      BY <1>3, <1>7, <2>3
    <3>2. due \in Int /\ due + ask.ahead = wall
      BY <2>1, <2>2, <2>3, <3>1
    <3>3. QED
      <4>1. IsMeant(due, r)
        BY <1>2, <1>7, <2>1, <2>3, <3>2 DEF IsMeant
      <4>2. QED
        BY <3>2, <4>1 DEF r
  <2>4. CASE ask.ahead = Unsaid
    <3>1. due = HostInstant(wall) /\ due \in Int
      BY <1>1, <2>1, <2>2, <2>4 DEF HostInstant
    <3>2. ASSUME ~ Mistaken(r) PROVE Shows(due, wall)
      <4>1. /\ zone = [before |-> Before, after |-> After]
            /\ OffsetAt(wall - Before) = OffsetAt(wall - After)
        BY <1>2, <1>7, <2>1, <2>4, <3>2 DEF Mistaken
      <4>2. zone.before = Before /\ zone.after = After
        BY <4>1
      <4>3. QED
        BY <1>1, <2>1, <3>1, <4>1, <4>2 DEF Shows, HostInstant, OffsetAt
    <3>3. QED
      BY <1>2, <1>7, <2>1, <2>4, <3>1, <3>2 DEF IsMeant, r
  <2>5. QED
    BY <2>3, <2>4
<1>8. CASE ask.form = "span"
  <2>1. due = now + ask.span /\ ask.span \in Nat
    BY <1>3, <1>8 DEF DueOf
  <2>2. QED
    BY <1>2, <1>8, <2>1 DEF IsMeant, r
<1>9. CASE ask.form = "unclear"
  <2>1. due = now + DayTicks
    BY <1>9 DEF DueOf
  <2>2. QED
    BY <1>1, <1>2, <1>9, <2>1 DEF IsMeant, r
<1>10. QED
  BY <1>3, <1>5, <1>6, <1>7, <1>8, <1>9 DEF r

-----------------------------------------------------------------------------
(* Adding one, and taking one away *)

(* What serves a reminder, and what is mistaken, is a matter of the zone.  *)
LEMMA ServedAfter ==
    ASSUME UNCHANGED zone,
           \A r \in confirmed' : Mistaken(r) \/ \E k \in DOMAIN pending' : Serves(pending'[k], r)
    PROVE  DueWhenMeant'
  BY DEF DueWhenMeant, Serves, Mistaken

LEMMA AddedIsKept ==
    ASSUME DueInv, NEW entry \in Reminder, AddFollowup(entry), UNCHANGED <<clock, zone>>
    PROVE  /\ pending' \in Seq(Reminder)
           /\ \A r : (\E k \in DOMAIN pending : Serves(pending[k], r)) =>
                       \E k \in DOMAIN pending' : Serves(pending'[k], r)
           /\ Twin(entry) \/ \E k \in DOMAIN pending' : pending'[k] = entry
           /\ Twin(entry) => UNCHANGED pending
<1>1. pending \in Seq(Reminder)
  BY DEF DueInv
<1>2. CASE Twin(entry) /\ pending' = pending
  BY <1>1, <1>2
<1>3. CASE ~ Twin(entry) /\ pending' = Append(pending, entry)
  <2>1. /\ pending' \in Seq(Reminder)
        /\ \A k \in DOMAIN pending : k \in DOMAIN pending' /\ pending'[k] = pending[k]
        /\ Len(pending) + 1 \in DOMAIN pending' /\ pending'[Len(pending) + 1] = entry
    BY <1>1, <1>3
  <2>2. QED
    BY <1>3, <2>1
<1>4. QED
  BY <1>2, <1>3 DEF AddFollowup

LEMMA NotedIsKept ==
    ASSUME DueInv, NEW kind \in DOMAIN Ahead, NEW task \in Tasks,
           AddFollowup(NotedFollowup(kind, <<kind, task>>)), UNCHANGED <<clock, zone, confirmed>>
    PROVE  DueInv'
<1>1. NotedFollowup(kind, <<kind, task>>) \in Reminder
  <2>1. Ahead[kind] \in Nat /\ "owner" \in Targets
    BY DueAssumption
  <2>2. clock + Ahead[kind] \in Int
    BY <2>1 DEF DueInv
  <2>3. <<kind, task>> \in Reasons
    BY DEF Reasons
  <2>4. QED
    BY <2>1, <2>2, <2>3 DEF NotedFollowup, Reminder
<1>2. pending' \in Seq(Reminder)
  BY <1>1, AddedIsKept
<1>3. \A r : (\E k \in DOMAIN pending : Serves(pending[k], r)) =>
               \E k \in DOMAIN pending' : Serves(pending'[k], r)
  BY <1>1, AddedIsKept
<1>4. \A r \in confirmed : Mistaken(r) \/ \E k \in DOMAIN pending' : Serves(pending'[k], r)
  BY <1>3 DEF DueInv, DueWhenMeant
<1>5. DueWhenMeant'
  BY <1>4, ServedAfter
<1>6. QED
  BY <1>2, <1>5 DEF DueInv

LEMMA LeavingKeeps ==
    ASSUME DueInv, NEW p \in DOMAIN pending, Leaves(p)
    PROVE  DueInv'
<1>1. pending \in Seq(Reminder) /\ Len(pending) \in Nat /\ DOMAIN pending = 1 .. Len(pending)
  BY DEF DueInv
<1>2. /\ pending' = [k \in 1 .. Len(pending) - 1 |-> pending[IF k < p THEN k ELSE k + 1]]
      /\ confirmed' = {r \in confirmed : ~ Serves(pending[p], r)}
      /\ UNCHANGED <<clock, zone>>
  BY DEF Leaves
<1>3. ASSUME NEW k \in 1 .. Len(pending) - 1
      PROVE  \E j \in DOMAIN pending : pending'[k] = pending[j]
  <2>1. CASE k < p
    BY <1>1, <1>2, <2>1
  <2>2. CASE ~ (k < p)
    BY <1>1, <1>2, <2>2
  <2>3. QED
    BY <2>1, <2>2
<1>4. pending' \in Seq(Reminder) /\ DOMAIN pending' = 1 .. Len(pending) - 1
  <2>1. \A k \in 1 .. Len(pending) - 1 : pending'[k] \in Reminder
    BY <1>1, <1>3
  <2>2. pending' \in [1 .. Len(pending) - 1 -> Reminder]
    BY <1>2, <2>1
  <2>3. Len(pending) - 1 \in Nat
    BY <1>1
  <2>4. QED
    BY <2>2, <2>3
<1>5. ASSUME NEW j \in DOMAIN pending, j # p
      PROVE  \E k \in DOMAIN pending' : pending'[k] = pending[j]
  <2>1. CASE j < p
    <3>1. j \in 1 .. Len(pending) - 1 /\ pending'[j] = pending[j]
      BY <1>1, <1>2, <2>1
    <3>2. QED
      BY <1>4, <3>1
  <2>2. CASE j > p
    <3>1. j - 1 \in 1 .. Len(pending) - 1 /\ ~ (j - 1 < p) /\ j - 1 + 1 = j
      BY <1>1, <2>2
    <3>2. pending'[j - 1] = pending[j]
      BY <1>2, <3>1
    <3>3. QED
      BY <1>4, <3>1, <3>2
  <2>3. QED
    BY <1>1, <1>5, <2>1, <2>2
<1>6. ASSUME NEW r \in confirmed', ~ Mistaken(r)
      PROVE  \E k \in DOMAIN pending' : Serves(pending'[k], r)
  <2>1. r \in confirmed /\ ~ Serves(pending[p], r)
    BY <1>2, <1>6
  <2>2. PICK j \in DOMAIN pending : Serves(pending[j], r)
    BY <1>6, <2>1 DEF DueInv, DueWhenMeant
  <2>3. PICK k \in DOMAIN pending' : pending'[k] = pending[j]
    BY <1>5, <2>1, <2>2
  <2>4. QED
    BY <2>2, <2>3
<1>7. DueWhenMeant'
  BY <1>2, <1>6, ServedAfter
<1>8. QED
  BY <1>2, <1>4, <1>7 DEF DueInv

LEMMA CreatedIsKept ==
    ASSUME DueInv, NEW ask \in Asks, NEW target \in Targets, NEW task \in Tasks,
           CreateReminder(ask, target, task)
    PROVE  DueInv'
<1> DEFINE new == [ask |-> ask, target |-> target, task |-> task, asked |-> clock]
           due == DueOf(ask, clock)
           entry == [target |-> target, reason |-> <<"asks", task>>, due |-> due]
<1>1. AddFollowup(entry) /\ confirmed' = confirmed \cup {new} /\ UNCHANGED <<clock, zone>>
  BY DEF CreateReminder
<1>2. new \in Confirmation
  BY DEF DueInv, Confirmation
<1>3. due \in Int /\ (Mistaken(new) \/ IsMeant(due, new))
  BY DueIsMeant DEF DueInv
<1> HIDE DEF due
<1>4. entry \in Reminder
  <2>1. <<"asks", task>> \in Reasons
    BY DueAssumption DEF Reasons
  <2>2. QED
    BY <1>3, <2>1 DEF Reminder
<1>5. /\ entry.target = target /\ entry.reason = <<"asks", task>> /\ entry.due = due
      /\ new.target = target /\ new.task = task
  OBVIOUS
<1> HIDE DEF new, entry
<1>6. /\ pending' \in Seq(Reminder)
      /\ \A r : (\E k \in DOMAIN pending : Serves(pending[k], r)) =>
                  \E k \in DOMAIN pending' : Serves(pending'[k], r)
      /\ Twin(entry) \/ \E k \in DOMAIN pending' : pending'[k] = entry
      /\ Twin(entry) => UNCHANGED pending
  BY <1>1, <1>4, AddedIsKept
<1>7. ASSUME ~ Mistaken(new)
      PROVE  \E k \in DOMAIN pending' : Serves(pending'[k], new)
  <2>1. CASE Twin(entry)
    <3>1. PICK k \in DOMAIN pending :
            /\ pending[k].target = entry.target /\ pending[k].reason = entry.reason
            /\ pending[k].due - entry.due \in -1 .. 1
      BY <2>1 DEF Twin
    <3>2. pending[k].due \in Int
      <4>1. pending[k] \in Reminder
        BY <3>1 DEF DueInv
      <4>2. QED
        BY <4>1 DEF Reminder
    <3>3. due \in pending[k].due - 1 .. pending[k].due + 1
      BY <1>3, <1>5, <3>1, <3>2
    <3>4. Serves(pending[k], new)
      BY <1>3, <1>5, <1>7, <3>1, <3>3 DEF Serves
    <3>5. QED
      BY <1>6, <3>4
  <2>2. CASE ~ Twin(entry)
    <3>1. PICK k \in DOMAIN pending' : pending'[k] = entry
      BY <1>6, <2>2
    <3>2. due \in due - 1 .. due + 1
      BY <1>3
    <3>3. Serves(entry, new)
      BY <1>3, <1>5, <1>7, <3>2 DEF Serves
    <3>4. QED
      BY <3>1, <3>3
  <2>3. QED
    BY <2>1, <2>2
<1>8. \A r \in confirmed' : Mistaken(r) \/ \E k \in DOMAIN pending' : Serves(pending'[k], r)
  BY <1>1, <1>6, <1>7 DEF DueInv, DueWhenMeant
<1>9. DueWhenMeant'
  BY <1>1, <1>8, ServedAfter
<1>10. QED
  BY <1>1, <1>2, <1>6, <1>9 DEF DueInv

LEMMA DueInvHolds == DueSpec => []DueInv
<1>1. DueInit => DueInv
  BY DEF DueInit, DueInv, DueWhenMeant
<1>2. DueInv /\ [DueNext]_dueVars => DueInv'
  <2> SUFFICES ASSUME DueInv, [DueNext]_dueVars PROVE DueInv'
    OBVIOUS
  <2>1. ASSUME NEW ask \in Asks, NEW target \in Targets, NEW task \in Tasks,
               CreateReminder(ask, target, task)
        PROVE  DueInv'
    BY <2>1, CreatedIsKept
  <2>2. ASSUME NEW containing \in SUBSET Reasons, DeleteByKeyword(containing) PROVE DueInv'
    <3> DEFINE of == {k \in DOMAIN pending : pending[k].reason \in containing}
               first == CHOOSE k \in of : \A j \in of : k <= j
    <3>1. of # {} /\ Leaves(first)
      BY <2>2 DEF DeleteByKeyword
    <3>2. of \in SUBSET Int /\ IsFiniteSet(of)
      <4>1. DOMAIN pending = 1 .. Len(pending) /\ Len(pending) \in Nat
        BY DEF DueInv
      <4>2. IsFiniteSet(1 .. Len(pending))
        BY <4>1, FS_Interval
      <4>3. QED
        BY <4>1, <4>2, FS_Subset
    <3>3. \E k \in of : \A j \in of : k <= j
      <4> DEFINE key == [m \in of |-> m]
      <4>1. \A m \in of : key[m] = m
        OBVIOUS
      <4> HIDE DEF key, of
      <4>2. \A m \in of : key[m] \in Int
        BY <3>2, <4>1
      <4>3. PICK k \in of : \A j \in of : ~ (key[j] < key[k])
        BY <3>1, <3>2, <4>2, SmallestKey
      <4>4. \A j \in of : k <= j
        BY <3>2, <4>1, <4>3
      <4>5. QED
        BY <4>4
    <3>4. first \in DOMAIN pending
      BY <3>3
    <3> HIDE DEF first, of
    <3>5. QED
      BY <3>1, <3>4, LeavingKeeps
  <2>3. ASSUME NEW exchange \in Exchanges, AnswerGiven(exchange) PROVE DueInv'
    <3>1. exchange.message \in Tasks /\ exchange.reply \in DOMAIN Ahead \cup {Unsaid}
          /\ "asks" \in DOMAIN Ahead
      BY DueAssumption
    <3>2. UNCHANGED <<clock, zone, confirmed>>
      BY <2>3 DEF AnswerGiven
    <3>3. CASE exchange.reply # Unsaid /\ AddFollowup(Promised(exchange))
      <4>1. exchange.reply \in DOMAIN Ahead
        BY <3>1, <3>3
      <4>2. QED
        BY <3>1, <3>2, <3>3, <4>1, NotedIsKept DEF Promised
    <3>4. CASE AddFollowup(NotedFollowup("asks", <<"asks", exchange.message>>))
      BY <3>1, <3>2, <3>4, NotedIsKept
    <3>5. QED
      BY <2>3, <3>3, <3>4 DEF AnswerGiven
  <2>4. ASSUME NEW k, DeleteReminder(k) \/ Reminded(k) PROVE DueInv'
    BY <2>4, LeavingKeeps DEF DeleteReminder, Reminded
  <2>5. CASE TickPasses \/ UNCHANGED dueVars
    <3>1. clock' \in Nat /\ UNCHANGED <<zone, pending, confirmed>>
      BY <2>5 DEF TickPasses, dueVars, DueInv
    <3>2. DueWhenMeant'
      BY <3>1 DEF DueInv, DueWhenMeant, Serves, Mistaken, IsMeant, Wall, Shows
    <3>3. QED
      BY <3>1, <3>2 DEF DueInv
  <2>6. QED
    BY <2>1, <2>2, <2>3, <2>4, <2>5 DEF DueNext
<1>3. QED
  BY <1>1, <1>2, PTL DEF DueSpec

(* A confirmed reminder waits for its person within five minutes of the    *)
(* moment meant until it is told or deleted, unless the code mistakes it:  *)
(* for days of any length, any change of the clocks, any zone of the host  *)
(* and any requests, promises and deletions (DueWhenMeant).                *)
THEOREM DueAsMeant == DueSpec => []DueWhenMeant
<1>1. DueInv => DueWhenMeant
  BY DEF DueInv
<1>2. QED
  BY DueInvHolds, <1>1, PTL

(* Days are read as they are meant, but for the one word that is left out, *)
(* and hours in the forms listed: for weeks and years of any length and    *)
(* any phrasings (WordsAreRead).                                           *)
THEOREM WordsAreAlwaysRead == DueSpec => []WordsAreRead
<1>1. DueInv => WordsAreRead
  <2> SUFFICES ASSUME DueInv PROVE WordsAreRead
    OBVIOUS
  <2>1. HostToday(clock) \in Int
    <3>1. clock \in Int /\ zone.before \in Int /\ zone.after \in Int /\ DayTicks \in Nat \ {0}
      BY OffsetsAreNumbers DEF DueInv
    <3>2. (clock + IF clock < Change THEN zone.before ELSE zone.after) \in Int
      BY <3>1
    <3>3. QED
      BY <3>1, <3>2, Divided DEF HostToday
  <2>2. ASSUME NEW text \in TimeTexts
        PROVE  /\ "day after tomorrow" \notin text.marks =>
                    DateIn(text, HostToday(clock)) = Meant(text, HostToday(clock))
               /\ Listed(text) => TimeIn(text) = HourMeant(text)
    BY <2>1, DaysAreMeant, HoursAreMeant
  <2>3. QED
    BY <2>2, Zenon DEF WordsAreRead
<1>2. QED
  BY DueInvHolds, <1>1, PTL
=============================================================================
