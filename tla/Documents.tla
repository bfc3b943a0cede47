------------------------------ MODULE Documents ------------------------------
(***************************************************************************)
(* What becomes of a document: the cheap filter in front of the model, the *)
(* repair of the model's answer, and the one name per vendor under which   *)
(* the books keep it.  Followed from contracts/contract-detector.ts,       *)
(* contracts/pdf-extractor.ts and the alias tables of the two stores.      *)
(***************************************************************************)
EXTENDS Integers, Sequences

CONSTANTS Papers,      \* what the model may read in a document: records with
                       \* type, signs, name, category, paid, and the dates
                       \* and the number that matter
          Categories,  \* VALID_CATEGORIES: one list for contracts and bills
          Within,      \* <<alias, name>>: the lower-case alias occurs in name
          NoDate,      \* a date or number the document does not give
          Nothing

ASSUME PapersAssumption ==
  Papers \subseteq [type : {"bill", "contract", "neither"},
                    signs : SUBSET {"sender", "subject", "opening"},
                    name : STRING, category : STRING, paid : BOOLEAN,
                    invoice : STRING \cup {NoDate}, period : Int \cup {NoDate},
                    due : Int \cup {NoDate}, ends : Int \cup {NoDate},
                    renews : Int \cup {NoDate}]

Earliest(S) == CHOOSE i \in S : \A j \in S : i <= j

\* normalizeVendor: the first alias of the table that is the name or occurs in it.
Normalised(name, aliases) ==
  LET found == {i \in DOMAIN aliases : <<aliases[i].alias, name>> \in Within}
  IN IF found = {} THEN name ELSE aliases[Earliest(found)].vendor

\* detectDocumentFromText, of an answer that could be parsed: a category the
\* prompt does not offer counts as "other"; anything but a bill or a contract,
\* like a failed call, is nothing.
Detected(paper) ==
  IF paper.type \in {"contract", "bill"}
  THEN [paper EXCEPT !.category = IF @ \in Categories THEN @ ELSE "other"]
  ELSE Nothing

\* isLikelyContract: a known sender's domain, or a subject or first words that
\* speak of bills.
Likely(paper) == {"sender", "subject", "opening"} \cap paper.signs # {}

\* A PDF of twenty characters or more goes to the model as it is ...
FromPdf(paper) == Detected(paper)

\* ... an email if its sender, subject or first words look like billing, and
\* of what comes back only the contracts are kept.
FromEmail(paper) ==
  IF Likely(paper) /\ paper.type = "contract" THEN Detected(paper) ELSE Nothing
=============================================================================
