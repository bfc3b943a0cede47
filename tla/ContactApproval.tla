--------------------------- MODULE ContactApproval ---------------------------
(***************************************************************************)
(* Who may talk to the bot: the approval gate of a private chat            *)
(* (src/whatsapp/approval-gate.ts behind src/whatsapp/index.ts), the       *)
(* approved and pending tables (src/stores/sqlite-approval-store.ts), the  *)
(* contact book the gate consults (src/contacts.ts), the owner's answers   *)
(* (src/whatsapp/owner-commands.ts) and what a start of the process does   *)
(* to the tables (src/stores/index.ts).                                    *)
(*                                                                         *)
(* The tables are SQLite: every handler writes them inside one synchronous *)
(* stretch, which only the death of the process can cut short.  The one    *)
(* await of the gate is the message that asks the owner.  approved.json is *)
(* a copy for the dashboard; its write may fail in silence.                *)
(*                                                                         *)
(* The contact book is the set of phone numbers it knows.  A new code is   *)
(* one that was never drawn before.                                        *)
(***************************************************************************)
EXTENDS Naturals, FiniteSets

CONSTANTS
    Chats,          \* private chats of other people than the owner
    Phones,         \* numbers as the adapter resolves them
    RealPhones,     \* those of the form 972XXXXXXXXX
    Blank,          \* the number of a contact saved without any digit
    PhoneOf,        \* the number behind each chat
    Codes,          \* the codes generateCode draws
    None,           \* no chat
    MaxRestarts     \* bound: restarts of the process in a behaviour

ASSUME PhonesAssumption ==
    /\ RealPhones \subseteq Phones /\ Blank \notin Phones
    /\ PhoneOf \in [Chats -> Phones]
ASSUME NoneAssumption == None \notin Chats
ASSUME MaxRestartsAssumption == MaxRestarts \in Nat

VARIABLES
    approved,    \* approved_contacts
    mirror,      \* approved.json
    pending,     \* pending_contacts: the chat each code was drawn for
    book,        \* the phone numbers in contacts
    asking,      \* codes whose message to the owner is awaited
    askedFor,    \* external: the codes the owner was asked about
    drawn,       \* ghost: the codes drawn so far
    granted,     \* ghost: the chats the owner approved and has not blocked
    added,       \* ghost: the numbers the owner added and has not blocked
    talked,      \* ghost: the chats the gate let through since barred
    restarts     \* restarts so far

vars == <<approved, mirror, pending, book, asking, askedFor, drawn, granted,
          added, talked, restarts>>

TypeOK ==
    /\ approved \subseteq Chats
    /\ mirror \subseteq Chats
    /\ pending \in [Codes -> Chats \cup {None}]
    /\ book \subseteq Phones \cup {Blank}
    /\ asking \subseteq Codes
    /\ askedFor \subseteq Codes
    /\ drawn \subseteq Codes
    /\ granted \subseteq Chats
    /\ added \subseteq Phones \cup {Blank}
    /\ talked \subseteq Chats
    /\ restarts \in 0 .. MaxRestarts

Init ==
    /\ approved = {} /\ mirror = {}
    /\ pending = [k \in Codes |-> None]
    /\ book = {}
    /\ asking = {} /\ askedFor = {} /\ drawn = {}
    /\ granted = {} /\ added = {} /\ talked = {}
    /\ restarts = 0

IsPending(c) == \E k \in Codes : pending[k] = c
PendingCodes == {k \in Codes : pending[k] # None}

(* findContactByPhone: the empty number is part of every number.           *)
IsKnown(phone, phones) == phone \in phones \/ Blank \in phones

(* syncApprovedToJson; written: the write came through.                    *)
Sync(chats, written) == mirror' = IF written THEN chats ELSE mirror

-----------------------------------------------------------------------------
(* A message in a private chat: updateContact, then the gate. *)

(***************************************************************************)
(* What updateContact may leave in the book.  A real number is entered; or *)
(* the sender has the name of another entry, with which it is merged: an   *)
(* entry of its own keeps its number and the other's is dropped, and       *)
(* without one the other's number stays the only one.                      *)
(***************************************************************************)
BooksAfter(c) ==
    LET phone == PhoneOf[c]
        others == (book \cap Phones) \ {phone}
    IN  IF phone \notin RealPhones THEN {book}
        ELSE IF phone \in book THEN {book} \cup {book \ {q} : q \in others}
        ELSE {book \cup {phone}} \cup {book : q \in others}

(* Mutants: what a slip in this code would do. *)

GateAsksEveryTime(c, k) ==    \* addPending without looking for a row
    /\ c \notin approved
    /\ book' \in BooksAfter(c) /\ ~IsKnown(PhoneOf[c], book')
    /\ k \notin drawn
    /\ drawn' = drawn \cup {k}
    /\ pending' = [pending EXCEPT ![k] = c]
    /\ asking' = asking \cup {k}
    /\ UNCHANGED <<approved, mirror, askedFor, granted, added, talked,
                   restarts>>

StartTrustsTheCopy(readable, written) ==    \* rebuilt from approved.json
    /\ restarts < MaxRestarts
    /\ restarts' = restarts + 1
    /\ approved' = mirror
    /\ asking' = {}
    /\ UNCHANGED <<mirror, pending, book, askedFor, drawn, granted, added, talked>>

RejectForgetsOthers(k) ==             \* the table is emptied, not the row deleted
    /\ pending[k] # None
    /\ pending' = [j \in Codes |-> None]
    /\ UNCHANGED <<approved, mirror, book, asking, askedFor, drawn, granted,
                   added, talked, restarts>>

(* The contact is approved already. *)
GateOpen(c) ==
    /\ c \in approved
    /\ book' \in BooksAfter(c)
    /\ talked' = talked \cup {c}
    /\ UNCHANGED <<approved, mirror, pending, asking, askedFor, drawn, granted,
                   added, restarts>>

(* The number is in the book by now: approved on the spot. *)
GateKnows(c, written) ==
    /\ c \notin approved
    /\ book' \in BooksAfter(c) /\ IsKnown(PhoneOf[c], book')
    /\ approved' = approved \cup {c}
    /\ Sync(approved', written)
    /\ talked' = talked \cup {c}
    /\ UNCHANGED <<pending, asking, askedFor, drawn, granted, added,
                   restarts>>

(* A stranger: a code is drawn, and the owner is being asked. *)
GateAsks(c, k) ==
    /\ c \notin approved
    /\ book' \in BooksAfter(c) /\ ~IsKnown(PhoneOf[c], book')
    /\ ~IsPending(c)
    /\ k \notin drawn
    /\ drawn' = drawn \cup {k}
    /\ pending' = [pending EXCEPT ![k] = c]
    /\ asking' = asking \cup {k}
    /\ UNCHANGED <<approved, mirror, askedFor, granted, added, talked,
                   restarts>>

(***************************************************************************)
(* The message to the owner left, was dropped because the transport was    *)
(* down, or failed.  Nothing records which, and it is not sent again.  A   *)
(* stranger with a row is only answered, which changes nothing here.       *)
(***************************************************************************)
OwnerAsked(k, sent) ==
    /\ k \in asking
    /\ asking' = asking \ {k}
    /\ askedFor' = IF sent THEN askedFor \cup {k} ELSE askedFor
    /\ UNCHANGED <<approved, mirror, pending, book, drawn, granted, added,
                   talked, restarts>>

-----------------------------------------------------------------------------
(* The owner. *)

(* approveByCode. *)
ApproveByCode(k, written) ==
    /\ pending[k] # None
    /\ approved' = approved \cup {pending[k]}
    /\ Sync(approved', written)
    /\ pending' = [pending EXCEPT ![k] = None]
    /\ granted' = granted \cup {pending[k]}
    /\ UNCHANGED <<book, asking, askedFor, drawn, added, talked, restarts>>

(* approve_contact with a code the owner has received. *)
OwnerApproves(k, written) == k \in askedFor /\ ApproveByCode(k, written)

(* bare_approve: a "yes" while exactly one contact is pending.             *)
OwnerSaysYes(written) ==
    /\ Cardinality(PendingCodes) = 1
    /\ \E k \in PendingCodes : ApproveByCode(k, written)

(* rejectByCode. *)
OwnerRejects(k) ==
    /\ k \in askedFor /\ pending[k] # None
    /\ pending' = [pending EXCEPT ![k] = None]
    /\ UNCHANGED <<approved, mirror, book, asking, askedFor, drawn, granted,
                   added, talked, restarts>>

(***************************************************************************)
(* add_contact, or a contact card.  The manual_ entry it approves is no    *)
(* chat; what lets the contact in is the number in the book.  An entry of  *)
(* that name keeps the number it has, or gets this one if it has none.     *)
(***************************************************************************)
OwnerAddsContact(phone) ==
    /\ \/ book' = book \cup {phone}
       \/ book \cap Phones # {} /\ book' = book
       \/ Blank \in book /\ book' = (book \ {Blank}) \cup {phone}
    /\ added' = added \cup {phone}
    /\ UNCHANGED <<approved, mirror, pending, asking, askedFor, drawn, granted,
                   talked, restarts>>

(* delete_contact takes the entry out of the book; approvals stay. *)
OwnerDeletesContact(phone) ==
    /\ phone \in book
    /\ book' = book \ {phone}
    /\ UNCHANGED <<approved, mirror, pending, asking, askedFor, drawn, granted,
                   added, talked, restarts>>

(* block_contact finds an entry of the book that has the chat's own id;    *)
(* only a real number gives a chat such an entry.                          *)
HasEntry(c) == PhoneOf[c] \in RealPhones /\ book \cap Phones # {}

OwnerBlocks(c, written) ==
    /\ c \in approved /\ HasEntry(c)
    /\ approved' = approved \ {c}
    /\ Sync(approved', written)
    /\ granted' = granted \ {c}
    /\ added' = added \ {PhoneOf[c]}
    /\ talked' = talked \ {c}
    /\ UNCHANGED <<pending, book, asking, askedFor, drawn, restarts>>

-----------------------------------------------------------------------------
(* The process. *)

(***************************************************************************)
(* A start migrates approved.json, if it reads well, into the table and    *)
(* renames it; then it writes the file anew from the table, if it can.     *)
(***************************************************************************)
Started(table, readable, written) ==
    /\ restarts < MaxRestarts
    /\ restarts' = restarts + 1
    /\ approved' = IF readable THEN table \cup mirror ELSE table
    /\ mirror' = IF written THEN approved' ELSE IF readable THEN {} ELSE mirror
    /\ asking' = {}

Restart(readable, written) ==
    /\ Started(approved, readable, written)
    /\ UNCHANGED <<pending, book, askedFor, drawn, granted, added, talked>>

(* Death inside approveByCode, between its INSERT and its DELETE. *)
RestartWhileApproving(k, readable, written) ==
    /\ pending[k] # None
    /\ k \in askedFor \/ PendingCodes = {k}
    /\ Started(approved \cup {pending[k]}, readable, written)
    /\ granted' = granted \cup {pending[k]}
    /\ UNCHANGED <<pending, book, askedFor, drawn, added, talked>>

(* Death inside removeApproved, between the DELETE and the copy. *)
RestartWhileBlocking(c, readable, written) ==
    /\ c \in approved /\ HasEntry(c)
    /\ Started(approved \ {c}, readable, written)
    /\ granted' = granted \ {c}
    /\ added' = added \ {PhoneOf[c]}
    /\ talked' = talked \ {c}
    /\ UNCHANGED <<pending, book, askedFor, drawn>>

Message(c) ==
    \/ GateOpen(c)
    \/ \E written \in BOOLEAN : GateKnows(c, written)
    \/ \E k \in Codes : GateAsks(c, k)

Owner ==
    \/ \E k \in Codes, written \in BOOLEAN : OwnerApproves(k, written)
    \/ \E written \in BOOLEAN : OwnerSaysYes(written)
    \/ \E k \in Codes : OwnerRejects(k)
    \/ \E phone \in Phones \cup {Blank} : OwnerAddsContact(phone)
    \/ \E phone \in Phones \cup {Blank} : OwnerDeletesContact(phone)
    \/ \E c \in Chats, written \in BOOLEAN : OwnerBlocks(c, written)

Process ==
    \E readable, written \in BOOLEAN :
        \/ Restart(readable, written)
        \/ \E k \in Codes : RestartWhileApproving(k, readable, written)
        \/ \E c \in Chats : RestartWhileBlocking(c, readable, written)

Next ==
    \/ \E c \in Chats : Message(c)
    \/ \E k \in Codes, sent \in BOOLEAN : OwnerAsked(k, sent)
    \/ Owner
    \/ Process

Spec == Init /\ [][Next]_vars

-----------------------------------------------------------------------------
(* A contact has one open question at a time: while its row is there,      *)
(* whatever it writes, and after whatever restarts, no second code is drawn *)
(* for it, so each code in the owner's hands names the row it was sent for. *)
OneQuestionPerContact ==
    \A j, k \in Codes : pending[j] # None /\ pending[j] = pending[k] => j = k

(* Whom the owner has approved stays approved until blocked: no failed or  *)
(* unreadable copy, no restart and no death inside a handler takes it back. *)
ApprovalsLast == granted \subseteq approved

(* A question is closed by its own answer only: when a row goes, its chat  *)
(* is approved, or the owner has been asked about that very code.          *)
QuestionsStayOpen ==
    [][\A k \in Codes : pending[k] # None /\ pending'[k] = None =>
          pending[k] \in approved' \/ k \in askedFor]_vars

(* README.md:51, only those the owner has approved can talk.               *)
OnlyApprovedTalk ==
    \A c \in talked : c \in granted \/ PhoneOf[c] \in added
=============================================================================
