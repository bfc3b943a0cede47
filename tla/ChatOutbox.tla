----------------------------- MODULE ChatOutbox -----------------------------
(***************************************************************************)
(* What the callers of queuedSendMessage may rely on: a line of messages   *)
(* per chat.  An accepted message is answered once, after every message    *)
(* accepted for its chat before it, unless the process dies first.         *)
(***************************************************************************)
EXTENDS Sequences

CONSTANTS Chats, Messages

VARIABLES
    line,       \* the messages accepted and not yet answered, per chat
    fate        \* what became of each message

vars == <<line, fate>>

Fates == {"unsent", "waiting", "resolved", "rejected", "lost"}

Init ==
    /\ line = [c \in Chats |-> <<>>]
    /\ fate = [m \in Messages |-> "unsent"]

Accept(c, m) ==
    /\ fate[m] = "unsent"
    /\ line' = [line EXCEPT ![c] = Append(@, m)]
    /\ fate' = [fate EXCEPT ![m] = "waiting"]

Answer(c) ==
    /\ line[c] # <<>>
    /\ \E how \in {"resolved", "rejected"} :
          fate' = [fate EXCEPT ![Head(line[c])] = how]
    /\ line' = [line EXCEPT ![c] = Tail(@)]

Die ==
    /\ line' = [c \in Chats |-> <<>>]
    /\ fate' = [m \in Messages |-> IF fate[m] = "waiting" THEN "lost" ELSE fate[m]]

Next ==
    \/ \E c \in Chats, m \in Messages : Accept(c, m)
    \/ \E c \in Chats : Answer(c)
    \/ Die

Spec == Init /\ [][Next]_vars

(* With a transport that answers every send, no message waits for ever. *)
LiveSpec == Spec /\ \A c \in Chats : WF_vars(Answer(c))
=============================================================================
