--------------------------- MODULE LegalDocuments ---------------------------
(***************************************************************************)
(* Terms and privacy policies in several languages.                        *)
(* Source: modules/legal/legal.service.ts, the end of prisma/seed.ts, and  *)
(* the models LegalDocument and LegalTranslation of schema.prisma.         *)
(*                                                                         *)
(* Administrators write a document or one of its translations in one       *)
(* statement that fails if its row is gone.  publicGet reads in two: the   *)
(* newest active document of the type, then its text in the language.  The *)
(* seed deletes the documents of a type and creates one, also in two.      *)
(***************************************************************************)
EXTENDS Naturals

CONSTANTS Topics, Langs,   \* TERMS and PRIVACY; UZ, RU and EN
          LegalReqs, NoTopic,
          MaxDocs          \* bound on the documents ever created

ASSUME NoTopicAssumption == NoTopic \notin Topics \cup Langs
ASSUME DocsAssumption == MaxDocs \in Nat

VARIABLES docs,     \* LegalDocument with its translations, by age
          issued,   \* documents ever created
          seeded,   \* the type the seed has deleted and not yet created, or none
          ask,      \* readers; "open" is history: a text was in force all the time
          lost      \* texts that were taken away (history)

legalVars == <<docs, issued, seeded, ask, lost>>

NoDoc == [topic |-> NoTopic, active |-> FALSE, langs |-> {}]
Docs == [topic : Topics \cup {NoTopic}, active : BOOLEAN, langs : SUBSET Langs]
Asks == [pc : {"idle", "found", "served", "refused"}, topic : Topics \cup {NoTopic},
         lang : Langs \cup {NoTopic}, doc : 0 .. MaxDocs, open : BOOLEAN]

LegalTypeOK ==
    /\ docs \in [1 .. MaxDocs -> Docs]
    /\ issued \in 0 .. MaxDocs
    /\ seeded \in Topics \cup {NoTopic}
    /\ ask \in [LegalReqs -> Asks]
    /\ lost \subseteq (1 .. MaxDocs) \X Langs

LegalInit ==
    /\ docs = [d \in 1 .. MaxDocs |-> NoDoc]
    /\ issued = 0
    /\ seeded = NoTopic
    /\ ask = [r \in LegalReqs |-> [pc |-> "idle", topic |-> NoTopic, lang |-> NoTopic,
                                   doc |-> 0, open |-> FALSE]]
    /\ lost = {}

Stored == {d \in 1 .. MaxDocs : docs[d] # NoDoc}

\* What should be shown: the newest active document has the language.
TextInForce(ds, t, l) ==
    \E d \in 1 .. MaxDocs :
        /\ ds[d].topic = t /\ ds[d].active /\ l \in ds[d].langs
        /\ \A e \in d + 1 .. MaxDocs : ~ (ds[e].topic = t /\ ds[e].active)

\* Administrators and the seed write while readers wait.
Writes(ds) ==
    /\ docs' = ds
    /\ ask' = [r \in LegalReqs |->
                  IF ask[r].pc = "found"
                  THEN [ask[r] EXCEPT !.open = @ /\ TextInForce(ds, ask[r].topic, ask[r].lang)]
                  ELSE ask[r]]
    /\ lost' = lost \cup {p \in (1 .. MaxDocs) \X Langs :
                              p[2] \in docs[p[1]].langs \ ds[p[1]].langs}

-----------------------------------------------------------------------------

CreateDocument(t, active, ls) ==
    /\ issued < MaxDocs
    /\ issued' = issued + 1
    /\ Writes([docs EXCEPT ![issued + 1] = [topic |-> t, active |-> active, langs |-> ls]])
    /\ UNCHANGED seeded

\* The type of a document may change, too.
UpdateDocument(d, t, active) ==
    /\ d \in Stored
    /\ Writes([docs EXCEPT ![d].topic = t, ![d].active = active])
    /\ UNCHANGED <<issued, seeded>>

\* Translations go with their document.
DeleteDocument(d) ==
    /\ d \in Stored
    /\ Writes([docs EXCEPT ![d] = NoDoc])
    /\ UNCHANGED <<issued, seeded>>

\* documentId and language are unique together.
CreateTranslation(d, l) ==
    /\ d \in Stored
    /\ l \notin docs[d].langs
    /\ Writes([docs EXCEPT ![d].langs = @ \cup {l}])
    /\ UNCHANGED <<issued, seeded>>

UpdateTranslation(d, l, m) ==
    /\ d \in Stored
    /\ l \in docs[d].langs /\ m \notin docs[d].langs
    /\ Writes([docs EXCEPT ![d].langs = (@ \ {l}) \cup {m}])
    /\ UNCHANGED <<issued, seeded>>

DeleteTranslation(d, l) ==
    /\ d \in Stored
    /\ l \in docs[d].langs
    /\ Writes([docs EXCEPT ![d].langs = @ \ {l}])
    /\ UNCHANGED <<issued, seeded>>

SeedDeletes(t) ==
    /\ seeded = NoTopic
    /\ seeded' = t
    /\ Writes([d \in 1 .. MaxDocs |-> IF docs[d].topic = t THEN NoDoc ELSE docs[d]])
    /\ UNCHANGED issued

SeedCreates ==
    /\ seeded # NoTopic
    /\ issued < MaxDocs
    /\ issued' = issued + 1
    /\ seeded' = NoTopic
    /\ Writes([docs EXCEPT ![issued + 1] = [topic |-> seeded, active |-> TRUE, langs |-> Langs]])

\* The seed stops in between.
SeedStops ==
    /\ seeded # NoTopic
    /\ seeded' = NoTopic
    /\ UNCHANGED <<docs, issued, ask, lost>>

-----------------------------------------------------------------------------
(* publicGet.                                                              *)

Candidates(t) == {d \in Stored : docs[d].topic = t /\ docs[d].active}

\* No order: any active document of the type.
Newest_Any(d, t) == d \in Candidates(t)

\* orderBy createdAt desc
Newest(d, t) == d \in Candidates(t) /\ \A e \in Candidates(t) : e <= d

ReadsDocument(r, t, l) ==
    /\ ask[r].pc # "found"
    /\ \/ \E d \in Stored :
              /\ Newest(d, t)
              /\ ask' = [ask EXCEPT ![r] = [pc |-> "found", topic |-> t, lang |-> l, doc |-> d,
                                            open |-> TextInForce(docs, t, l)]]
       \/ /\ Candidates(t) = {}
          /\ ask' = [ask EXCEPT ![r] = [pc |-> "refused", topic |-> t, lang |-> l, doc |-> 0,
                                        open |-> TextInForce(docs, t, l)]]
    /\ UNCHANGED <<docs, issued, seeded, lost>>

ReadsTranslation(r) ==
    /\ ask[r].pc = "found"
    /\ ask' = [ask EXCEPT ![r].pc = IF ask[r].lang \in docs[ask[r].doc].langs
                                    THEN "served" ELSE "refused"]
    /\ UNCHANGED <<docs, issued, seeded, lost>>

LegalNext ==
    \/ \E t \in Topics, a \in BOOLEAN, ls \in SUBSET Langs : CreateDocument(t, a, ls)
    \/ \E d \in 1 .. MaxDocs, t \in Topics, a \in BOOLEAN : UpdateDocument(d, t, a)
    \/ \E d \in 1 .. MaxDocs : DeleteDocument(d)
    \/ \E d \in 1 .. MaxDocs, l, m \in Langs : UpdateTranslation(d, l, m)
    \/ \E d \in 1 .. MaxDocs, l \in Langs : CreateTranslation(d, l) \/ DeleteTranslation(d, l)
    \/ \E t \in Topics : SeedDeletes(t)
    \/ SeedCreates \/ SeedStops
    \/ \E r \in LegalReqs, t \in Topics, l \in Langs : ReadsDocument(r, t, l)
    \/ \E r \in LegalReqs : ReadsTranslation(r)

LegalSpec == LegalInit /\ [][LegalNext]_legalVars

-----------------------------------------------------------------------------

UnusedOK == \A d \in 1 .. MaxDocs : d > issued => docs[d] = NoDoc

LegalAsksOK ==
    \A r \in LegalReqs :
        /\ ask[r].pc = "found" => ask[r].doc \in 1 .. issued
        /\ ask[r].pc = "found" /\ ask[r].open =>
               ask[r].lang \in docs[ask[r].doc].langs \/ <<ask[r].doc, ask[r].lang>> \in lost

\* A reader is told that there is no text only if for some time while he waited there
\* was none, or if the text that was in force when he came was taken away before he
\* read it: an administrator who stores a new version and deletes the old one refuses
\* the readers in between, though one of the two was there all the time
\* (legal.service.ts:122-134).
RefusedRightly ==
    \A r \in LegalReqs :
        ask[r].pc = "refused" /\ ask[r].open => <<ask[r].doc, ask[r].lang>> \in lost

LegalInv == LegalTypeOK /\ UnusedOK /\ LegalAsksOK /\ RefusedRightly
=============================================================================
