------------------------------ MODULE ContactBook ------------------------------
(***************************************************************************)
(* The book of contacts, and what is done by it: everyone who writes is    *)
(* entered or merged with an entry of the same number or of the same name, *)
(* the owner adds and deletes people, and names them to send a message or  *)
(* to let them use a tool.  Followed from contacts.ts,                     *)
(* ai/handlers/contacts.ts and permissions/permission-service.ts.          *)
(***************************************************************************)
EXTENDS Naturals, Sequences, FiniteSets, Lists

CONSTANTS Chats,       \* personal chats, one or two of a person
          NumberOf,    \* the person's number, by chat
          ChatOf,      \* the chat <number>@c.us, by number
          NoPhone,
          PushNames,   \* what a chat may call itself
          Cards,       \* <<name, number or NoPhone>>: what the owner may add
          PersonNames, \* what may be said or stand in the book
          FirstName,   \* the first word, by name
          Variants,    \* a name and its translations, by name
          Alike,       \* <<asked, name>>: one contains the other, in three letters or more
          Sounding,    \* <<asked, name>>: a part of the name sounds like it
          Patterns,    \* what a grant may name
          Covers,      \* the tools of a pattern, by name or by their first letters
          OwnerTools,  \* the patterns of TOOL_PERMISSIONS
          MaxBook

VARIABLES book,        \* contacts, in the order of their rows
          grants,      \* contact_tool_permissions
          trusted,     \* ghost: people the owner granted a tool
          mixed,       \* ghost: people whose entry took in another's by name
          misled       \* ghost: other people that a name led to

bookVars == <<book, grants, trusted, mixed, misled>>

Numbers == {NumberOf[c] : c \in Chats}
Manual(number) == <<"manual", number>>
Keys == Chats \cup {Manual(n) : n \in Numbers \cup {NoPhone}}

ASSUME BookAssumption ==
  /\ \A c \in Chats : /\ NumberOf[c] # NoPhone /\ PushNames[c] \subseteq PersonNames
                       /\ ChatOf[NumberOf[c]] \in Chats
                       /\ NumberOf[ChatOf[NumberOf[c]]] = NumberOf[c]
  /\ Cards \subseteq PersonNames \X (Numbers \cup {NoPhone})
  /\ \A n \in Numbers \cup {NoPhone} : Manual(n) \notin Chats

BookTypeOK ==
  /\ \A i \in DOMAIN book :
       /\ book[i].key \in Keys /\ book[i].name \in PersonNames
       /\ book[i].aliases \subseteq PersonNames \ {book[i].name}
       /\ book[i].phone \in Numbers \cup {NoPhone}
       /\ \A j \in DOMAIN book : book[i].key = book[j].key => i = j
  /\ grants \subseteq Chats \X Patterns

BookInit == book = <<>> /\ grants = {} /\ trusted = {} /\ mixed = {} /\ misled = {}

---------------------------------------------------------------------------
(* Rows *)

NamesOf(entry) == {entry.name} \cup entry.aliases
FirstIn(S) == CHOOSE i \in S : \A j \in S : i <= j
At(key) == {i \in DOMAIN book : book[i].key = key}
Without(rows, key) == Keep(rows, {e \in {rows[i] : i \in DOMAIN rows} : e.key # key})

\* contacts[key] = entry keeps the place of a row there is.
Put(rows, entry) ==
  IF \E i \in DOMAIN rows : rows[i].key = entry.key
  THEN [i \in DOMAIN rows |-> IF rows[i].key = entry.key THEN entry ELSE rows[i]]
  ELSE Append(rows, entry)

\* send_message and the grants: to the chat, or to the number's.
ChatTarget(entry) ==
  IF entry.key \in Chats THEN entry.key
  ELSE IF entry.phone = NoPhone THEN "nobody" ELSE ChatOf[entry.phone]

Person(entry) == IF entry.key \in Chats THEN NumberOf[entry.key] ELSE entry.phone

---------------------------------------------------------------------------
(* updateContact, of every message; resolved: its number is a real one *)

Duplicates(chat, name, resolved) ==
  {i \in DOMAIN book :
     /\ book[i].key # chat
     /\ book[i].phone # NoPhone
     /\ \/ resolved /\ book[i].phone = NumberOf[chat]
        \/ name \in NamesOf(book[i])
        \/ name = FirstName[book[i].name]}

\* Mutants, here and below: what a slip in this code would do.
MergedBeside(chat, name, dup) ==
  LET own == At(chat)
      base == IF own = {} THEN dup ELSE book[FirstIn(own)]
  IN Put(book, [key |-> chat, name |-> base.name, phone |-> base.phone,
                aliases |-> (base.aliases \cup NamesOf(dup) \cup {name}) \ {base.name}])

\* The row of a duplicate goes into the chat's; where the chat had none, it
\* takes the other's name and number too, even those of a namesake.
Merged(chat, name, dup) ==
  LET own == At(chat)
      base == IF own = {} THEN dup ELSE book[FirstIn(own)]
      entry == [key |-> chat, name |-> base.name, phone |-> base.phone,
                aliases |-> (base.aliases \cup NamesOf(dup) \cup {name}) \ {base.name}]
  IN Without(Put(book, entry), dup.key)

\* With no number of its own to go by, a chat only adds its name to the other.
NameAdded(i, name) ==
  IF name \in NamesOf(book[i]) THEN book
  ELSE [book EXCEPT ![i].aliases = @ \cup {name}]

Entered(chat, name, resolved) ==
  IF At(chat) = {}
  THEN Append(book, [key |-> chat, name |-> name, aliases |-> {}, phone |-> NumberOf[chat]])
  ELSE LET i == FirstIn(At(chat))
       IN [book EXCEPT ![i].aliases = (@ \cup {name}) \ {book[i].name},
                       ![i].phone = IF resolved THEN NumberOf[chat] ELSE @]

UpdateContact(chat, name, resolved) ==
  LET found == Duplicates(chat, name, resolved)
      i == FirstIn(found)
  IN /\ At(chat) # {} \/ resolved
     /\ \/ /\ found # {} /\ resolved
           /\ book' = Merged(chat, name, book[i])
           /\ mixed' = IF Person(book[i]) # NumberOf[chat] THEN mixed \cup {NumberOf[chat]} ELSE mixed
        \/ /\ found # {} /\ ~resolved
           /\ book' = NameAdded(i, name)
           /\ mixed' = IF Person(book[i]) # NumberOf[chat] THEN mixed \cup {Person(book[i])} ELSE mixed
        \/ /\ found = {}
           /\ Len(book) < MaxBook
           /\ book' = Entered(chat, name, resolved)
           /\ UNCHANGED mixed
     /\ UNCHANGED <<grants, trusted, misled>>

---------------------------------------------------------------------------
(* The owner's entries *)

\* By number, and then by any name it goes by; a name taken by another number
\* is not entered again.  Without a number there is one key for everybody.
AddManualContact(card) ==
  LET name == card[1]
      number == card[2]
      byPhone == {i \in DOMAIN book : number # NoPhone /\ book[i].phone = number}
      found == IF byPhone # {} THEN byPhone ELSE {i \in DOMAIN book : name \in NamesOf(book[i])}
      old == book[FirstIn(found)]
      moves == number # NoPhone /\ old.key \notin Chats
      entry == [key |-> IF moves THEN Manual(number) ELSE old.key,
                name |-> name, aliases |-> NamesOf(old) \ {name},
                phone |-> IF old.phone = NoPhone THEN number ELSE old.phone]
  IN /\ \/ /\ found # {}
           /\ book' = IF entry.key = old.key THEN Put(book, entry)
                      ELSE Without(Put(book, entry), old.key)
        \/ /\ found = {}
           /\ Len(book) < MaxBook
           /\ book' = Put(book, [key |-> Manual(number), name |-> name, aliases |-> {},
                                 phone |-> number])
     /\ UNCHANGED <<grants, trusted, mixed, misled>>

---------------------------------------------------------------------------
(* findContactByName *)

Match(step, asked, name) ==
  \/ step = 1 /\ name \in Variants[asked]
  \/ step = 2 /\ FirstName[name] \in Variants[asked]
  \/ step = 3 /\ <<asked, name>> \in Alike
  \/ step = 4 /\ <<asked, name>> \in Sounding

\* The sound is compared with the name only.
FoundAt(step, asked) ==
  {i \in DOMAIN book :
     \E name \in (IF step = 4 THEN {book[i].name} ELSE NamesOf(book[i])) : Match(step, asked, name)}

\* The first step that finds anything; chats before entries by hand.
FindContactByName(asked) ==
  LET steps == {k \in 1 .. 4 : FoundAt(k, asked) # {}}
      found == FoundAt(FirstIn(steps), asked)
      personal == {i \in found : book[i].key \in Chats}
  IN IF steps = {} THEN 0 ELSE FirstIn(IF personal # {} THEN personal ELSE found)

\* The row is looked up again, by its name or its key.
RemoveContact(asked) ==
  LET i == FindContactByName(asked)
      j == FirstIn({k \in DOMAIN book : book[k].name = book[i].name \/ k = i})
  IN /\ i # 0
     /\ book' = Without(book, book[j].key)
     /\ UNCHANGED <<grants, trusted, mixed, misled>>

---------------------------------------------------------------------------
(* What a name is used for *)

\* What a person calls himself, or is called by the owner.
KnownAs(number) ==
  {name \in PersonNames : \/ \E c \in Chats : NumberOf[c] = number /\ name \in PushNames[c]
                          \/ <<name, number>> \in Cards}

FitsPerson(asked, number) == \E step \in 1 .. 4, name \in KnownAs(number) : Match(step, asked, name)

\* Ghost: who is reached under a name that is not his.
Reaches(asked, chat) ==
  misled' = IF FitsPerson(asked, NumberOf[chat]) \/ NumberOf[chat] \in mixed THEN misled
            ELSE misled \cup {NumberOf[chat]}

SendMessage(asked) ==
  LET i == FindContactByName(asked)
  IN /\ i # 0
     /\ ChatTarget(book[i]) # "nobody"
     /\ Reaches(asked, ChatTarget(book[i]))
     /\ UNCHANGED <<book, grants, trusted, mixed>>

GrantToolAccess(asked, patterns) ==
  LET i == FindContactByName(asked)
  IN /\ i # 0
     /\ ChatTarget(book[i]) # "nobody"
     /\ grants' = grants \cup ({ChatTarget(book[i])} \X patterns)
     /\ Reaches(asked, ChatTarget(book[i]))
     /\ trusted' = trusted \cup {Person(book[i])}
     /\ UNCHANGED <<book, mixed>>

\* revokeContactTools, of the chat the name leads to now.
RevokeToolAccess(asked, patterns) ==
  LET i == FindContactByName(asked)
  IN /\ i # 0
     /\ ChatTarget(book[i]) # "nobody"
     /\ grants' = grants \ ({ChatTarget(book[i])} \X patterns)
     /\ UNCHANGED <<book, trusted, mixed, misled>>

HasContactGrant(chat, tool) == \E p \in Patterns : <<chat, p>> \in grants /\ tool \in Covers[p]

\* TOOL_PERMISSIONS: everything listed is the owner's alone.
Restricted(tool) == \E p \in OwnerTools : tool \in Covers[p]

\* canUseTool, of a chat that is not the owner's.
CanUseTool(chat, tool) == HasContactGrant(chat, tool) \/ ~Restricted(tool)

BookNext ==
  \/ \E chat \in Chats, resolved \in BOOLEAN : \E name \in PushNames[chat] :
       UpdateContact(chat, name, resolved)
  \/ \E card \in Cards : AddManualContact(card)
  \/ \E asked \in PersonNames :
       \/ RemoveContact(asked) \/ SendMessage(asked)
       \/ \E patterns \in SUBSET Patterns \ {{}} :
            GrantToolAccess(asked, patterns) \/ RevokeToolAccess(asked, patterns)

BookSpec == BookInit /\ [][BookNext]_bookVars

---------------------------------------------------------------------------
(* Properties *)

\* Whatever was merged, added and renamed, a number stands in the book once,
\* and a name leads a message or a grant only to somebody who goes by it; so
\* the owner's tools are open to nobody else.  What is left are the people
\* whose entry was merged with a namesake's.
NamesLeadToTheirPeople ==
  /\ \A i, j \in DOMAIN book :
       i # j => book[i].phone = NoPhone \/ book[i].phone # book[j].phone
  /\ \A i \in DOMAIN book :
       Person(book[i]) = NoPhone \/ Person(book[i]) \in mixed
       \/ (NamesOf(book[i]) \subseteq KnownAs(Person(book[i])) /\ book[i].phone = Person(book[i]))
  /\ misled = {}
  /\ \A c \in Chats : \A t \in UNION {Covers[p] : p \in OwnerTools} :
       CanUseTool(c, t) => NumberOf[c] \in trusted
=============================================================================
