------------------------------ MODULE GroupGate ------------------------------
(***************************************************************************)
(* Which messages of a group reach the model: the tracker of who talks to  *)
(* whom, the list of muted groups and the filter before the model.         *)
(* Followed from whatsapp/thread-tracker.ts, whatsapp/group-classifier.ts, *)
(* muted-groups.ts and handleMessage of whatsapp/index.ts; one group.      *)
(*                                                                         *)
(* Names: a sender counts as a participant under the name he gave himself, *)
(* the author of a quoted message under his number, for the quoted message *)
(* is rebuilt without a name (baileys-adapter.ts).  The two are the same   *)
(* for a member without a name.  The bot's own names are never numbers.    *)
(***************************************************************************)
EXTENDS Integers, Sequences, Functions, Lists

CONSTANTS Members,         \* who writes in the group, the bot apart
          Unnamed,         \* those of them whom WhatsApp knows no name of
          Bots,            \* those whose name ends like a bot's
          Herself,         \* the bot, as the author of a quoted message
          Nobody,          \* no message is quoted
          HerIdShown,      \* WhatsApp shows her id in quotes and mentions as
                           \* the connection knows it, without a device number
          ThreadTimeout,   \* THREAD_TIMEOUT_MS
          ContinuationWindow,  \* CONTINUATION_WINDOW_MS
          MaxThreadTicks,  \* how long it is watched
          MaxGroupTurns    \* how many messages are written

ASSUME GroupAssumption == /\ HerIdShown \in BOOLEAN
                          /\ Unnamed \subseteq Members /\ Bots \subseteq Members
                          /\ Herself \notin Members /\ Nobody \notin Members
                          /\ ContinuationWindow \in Nat /\ ThreadTimeout \in Nat
                          /\ 0 < ContinuationWindow /\ ContinuationWindow < ThreadTimeout

Verdicts == {"must_respond", "must_skip", "let_ai_decide"}

VARIABLES threads,      \* groupThreads of the group: who, and when last
          mutedGroup,   \* the group is in groups.json
          threadClock,
          verdict,      \* of the message just handled: what, why and whose
          said          \* ghost: who wrote, to whom, when

groupVars == <<threads, mutedGroup, threadClock, verdict, said>>

Number(p) == <<"number", p>>
Name(p) == IF p \in Unnamed THEN Number(p) ELSE <<"name", p>>
Names == {Name(p) : p \in Members} \cup {Number(p) : p \in Members \cup {Herself}}
Noted == [what |-> "let_ai_decide", why |-> "no_clear_signal", whose |-> Nobody]

GroupGateTypeOK ==
  /\ \A n \in DOMAIN threads : /\ threads[n].who \subseteq Names
                               /\ threads[n].last \in 0 .. MaxThreadTicks
  /\ mutedGroup \in BOOLEAN
  /\ threadClock \in 0 .. MaxThreadTicks
  /\ verdict.what \in Verdicts \cup {"muted"}
  /\ verdict.whose \in Members \cup {Nobody}
  /\ Len(said) <= MaxGroupTurns

GroupGateInit ==
  /\ threads = <<>> /\ said = <<>>
  /\ mutedGroup = FALSE /\ threadClock = 0
  /\ verdict = Noted

----------------------------------------------------------------------------
\* cleanExpired, before every use of the threads.
NeverExpired(thread) == thread.last <= threadClock    \* a mutant
NotExpired(thread) == threadClock - thread.last < ThreadTimeout
CleanExpired(all) == Keep(all, {thread \in Range(all) : NotExpired(thread)})

\* The first of these threads becomes new.
Touched(all, these) ==
  [n \in DOMAIN all |->
     IF n \in these /\ \A k \in these : n <= k
     THEN [all[n] EXCEPT !.last = threadClock] ELSE all[n]]

\* trackMessage: a reply renews the thread of the two or starts one; any other
\* message renews the first thread of its sender that is not two minutes old.
TrackMessage(sender, quoted) ==
  LET live == CleanExpired(threads)
      two  == {Name(sender), Number(quoted)}
      theirs == {n \in DOMAIN live : two \subseteq live[n].who}
      going  == {n \in DOMAIN live : /\ Name(sender) \in live[n].who
                                    /\ threadClock - live[n].last < ContinuationWindow}
  IN  IF quoted = Nobody \/ Number(quoted) = Name(sender) THEN Touched(live, going)
      ELSE IF theirs # {} THEN Touched(live, theirs)
      ELSE Append(live, [who |-> two, last |-> threadClock])

\* isPartOfOtherThread, of the threads as tracked: none of the bot's names is
\* ever in a thread, for nobody writes under them and quotes carry numbers.
PartOfOtherThread(all, sender) ==
  \E n \in DOMAIN all : Name(sender) \in all[n].who

\* filterGroupMessage.  "named" is her name in the text or the text quoted, "at"
\* who is mentioned by id; "her id" is known as one only if it is shown alike.
FilterGroupMessage(sender, quoted, named, slash, at, other) ==
  IF named \/ (quoted = Herself /\ HerIdShown) \/ slash
  THEN [what |-> "must_respond", why |-> "called"]
  ELSE IF sender \in Bots THEN [what |-> "must_skip", why |-> "sender_is_bot"]
  ELSE IF at = "other" \/ (at = "her" /\ ~HerIdShown)
  THEN [what |-> "must_skip", why |-> "mention_directed_at_other"]
  ELSE IF other THEN [what |-> "must_skip", why |-> "in_other_thread"]
  ELSE IF quoted # Nobody THEN [what |-> "must_skip", why |-> "reply_to_other_person"]
  ELSE [what |-> "let_ai_decide", why |-> "no_clear_signal"]

\* handleMessage up to the filter: the thread is tracked of a muted group's
\* messages, too.  A quote comes before the text, so it is no slash command.
GroupMessage(sender, quoted, named, slash, at) ==
  /\ Len(said) < MaxGroupTurns
  /\ slash => quoted = Nobody
  /\ threads' = TrackMessage(sender, quoted)
  /\ said' = Append(said, [by |-> sender, to |-> quoted, when |-> threadClock])
  /\ verdict' =
       IF mutedGroup
       THEN [what |-> "muted", why |-> "muted_group", whose |-> sender]
       ELSE LET answer == FilterGroupMessage(sender, quoted, named, slash, at,
                                             PartOfOtherThread(threads', sender))
            IN  [what |-> answer.what, why |-> answer.why, whose |-> sender]
  /\ UNCHANGED <<mutedGroup, threadClock>>

\* muteGroup and unmuteGroup, which the owner's tools call.
MuteGroup(on) ==
  /\ mutedGroup # on /\ mutedGroup' = on /\ verdict' = Noted
  /\ UNCHANGED <<threads, threadClock, said>>

\* Threads are kept in memory only, mutes on disk.
GroupRestart ==
  /\ threads' = <<>> /\ verdict' = Noted
  /\ UNCHANGED <<mutedGroup, threadClock, said>>

GroupTime ==
  /\ threadClock < MaxThreadTicks
  /\ threadClock' = threadClock + 1
  /\ verdict' = Noted
  /\ UNCHANGED <<threads, mutedGroup, said>>

GroupGateNext ==
  \/ \E sender \in Members, quoted \in Members \cup {Herself, Nobody},
        named, slash \in BOOLEAN, at \in {"nobody", "her", "other"} :
        GroupMessage(sender, quoted, named, slash, at)
  \/ \E on \in BOOLEAN : MuteGroup(on)
  \/ GroupRestart
  \/ GroupTime

GroupGateSpec == GroupGateInit /\ [][GroupGateNext]_groupVars

----------------------------------------------------------------------------
Skipped == verdict.what = "must_skip" /\ verdict.why = "in_other_thread"

Pair(n) == {said[n].by, said[n].to}

\* The n-th message answers another, and from then to now the two of them are
\* never silent for ThreadTimeout.
TalkGoesOn(n) ==
  /\ said[n].to # Nobody
  /\ \A t \in said[n].when .. threadClock :
       \E k \in n .. Len(said) : /\ said[k].by \in Pair(n)
                                 /\ said[k].when \in (t - (ThreadTimeout - 2)) .. t

(***************************************************************************)
(* Nobody is passed over for a talk he takes no part in, or took part in   *)
(* once: a message skipped as part of a thread comes from one who answered *)
(* another or was answered by him, with the two of them not silent for ten *)
(* minutes since, however messages, mutes and restarts fall between.       *)
(***************************************************************************)
SkipsFollowTalk ==
  Skipped => \E n \in DOMAIN said : verdict.whose \in Pair(n) /\ TalkGoesOn(n)

(***************************************************************************)
(* The tracker's promise, "part of a thread that doesn't include Limor":   *)
(* who is passed over talks to another than her.  It fails even where her  *)
(* id is recognised: having answered her, a member is skipped when he goes *)
(* on, for the thread holds her number, and she is looked for by name.     *)
(***************************************************************************)
OnlyThreadsWithoutHer ==
  Skipped =>
    \E n \in DOMAIN said : /\ verdict.whose \in Pair(n) /\ TalkGoesOn(n)
                           /\ Herself \notin Pair(n)
=============================================================================
