---------------------------- MODULE ServiceProofs ----------------------------
(***************************************************************************)
(* Four parts of the service, for any instance: legal texts beside their   *)
(* readers, the seed beside administrators, lists that are read page by    *)
(* page, and the way from a request to its handler.  They share no state;  *)
(* each has its own theorem.                                               *)
(***************************************************************************)
EXTENDS LegalDocuments, Seeding, Listing, Dispatch, FiniteSetTheorems, SequenceTheorems, TLAPS

(* Legal texts.                                                            *)

\* What LegalAsksOK and RefusedRightly say of one reader, once ls documents are there.
ReaderFits(q, ds, n, gone) ==
    /\ q.pc = "found" => q.doc \in 1 .. n
    /\ q.pc = "found" /\ q.open => q.lang \in ds[q.doc].langs \/ <<q.doc, q.lang>> \in gone
    /\ q.pc = "refused" /\ q.open => <<q.doc, q.lang>> \in gone

LEMMA ReadersAsOne ==
    LegalAsksOK /\ RefusedRightly <=> \A r \in LegalReqs : ReaderFits(ask[r], docs, issued, lost)
BY DEF LegalAsksOK, RefusedRightly, ReaderFits

LEMMA LegalInitInv == LegalInit => LegalInv
BY DocsAssumption DEF LegalInit, LegalInv, LegalTypeOK, UnusedOK, LegalAsksOK, RefusedRightly,
                      Docs, Asks, NoDoc

\* Whatever is written, a reader who waits still finds his text, or it was taken away.
LEMMA WritesKeep ==
    ASSUME LegalInv, NEW ds \in [1 .. MaxDocs -> Docs], Writes(ds), issued' \in issued .. MaxDocs,
           seeded' \in Topics \cup {NoTopic}, \A d \in 1 .. MaxDocs : d > issued' => ds[d] = NoDoc
    PROVE  LegalInv'
<1> USE DEF LegalInv
<1>1. docs' = ds /\ lost \subseteq lost' /\ lost' \subseteq (1 .. MaxDocs) \X Langs
  BY DEF Writes, LegalTypeOK
<1>2. ASSUME NEW r \in LegalReqs
      PROVE  ask'[r] \in Asks /\ ReaderFits(ask'[r], ds, issued', lost')
  <2>1. ask[r] \in Asks /\ ReaderFits(ask[r], docs, issued, lost)
    BY ReadersAsOne DEF LegalTypeOK
  <2>2. CASE ask[r].pc = "found"
    <3>1. PICK w \in BOOLEAN : w = TextInForce(ds, ask[r].topic, ask[r].lang)
      BY Zenon DEF TextInForce
    <3>2. ask'[r] = [ask[r] EXCEPT !.open = @ /\ TextInForce(ds, ask[r].topic, ask[r].lang)]
      BY <2>2, Zenon DEF Writes
    <3>3. /\ ask'[r].pc = "found" /\ ask'[r].topic = ask[r].topic /\ ask'[r].lang = ask[r].lang
          /\ ask'[r].doc = ask[r].doc /\ ask'[r] \in Asks
          /\ ask'[r].open => ask[r].open
      BY <2>1, <2>2, <3>1, <3>2 DEF Asks
    <3>4. ask[r].doc \in 1 .. issued /\ issued \in 0 .. MaxDocs
      BY <2>1, <2>2 DEF ReaderFits, LegalTypeOK
    <3>5. ask'[r].doc \in 1 .. issued' /\ ask[r].doc \in 1 .. MaxDocs
      BY <3>3, <3>4, DocsAssumption
    <3>6. ASSUME ask[r].open, <<ask[r].doc, ask[r].lang>> \notin lost
          PROVE  ask[r].lang \in ds[ask[r].doc].langs \/ <<ask[r].doc, ask[r].lang>> \in lost'
      <4>1. ask[r].lang \in docs[ask[r].doc].langs
        BY <3>6, <2>1, <2>2 DEF ReaderFits
      <4>2. ask[r].lang \in Langs
        BY <4>1, <3>5 DEF LegalTypeOK, Docs
      <4>3. QED  BY <4>1, <4>2, <3>5 DEF Writes
    <3>7. QED  BY <3>3, <3>5, <3>6, <1>1 DEF ReaderFits
  <2>3. CASE ask[r].pc # "found"
    <3>1. ask'[r] = ask[r]
      BY <2>3 DEF Writes
    <3>2. QED  BY <3>1, <2>1, <2>3, <1>1 DEF ReaderFits
  <2>4. QED  BY <2>2, <2>3
<1>3. ask' \in [LegalReqs -> Asks]
  BY <1>2 DEF Writes
<1>4. LegalTypeOK'
  BY <1>1, <1>3 DEF LegalTypeOK
<1>5. UnusedOK'
  BY <1>1 DEF UnusedOK
<1>6. LegalAsksOK' /\ RefusedRightly'
  BY <1>1, <1>2 DEF LegalAsksOK, RefusedRightly, ReaderFits
<1>7. QED  BY <1>4, <1>5, <1>6
LEMMA TopicsReal == \A t \in Topics : t # NoTopic
BY NoTopicAssumption

LEMMA DocumentWritten ==
    ASSUME LegalInv, NEW e \in Docs, NEW d \in 1 .. issued', issued' \in issued .. MaxDocs,
           seeded' \in Topics \cup {NoTopic}, Writes([docs EXCEPT ![d] = e])
    PROVE  LegalInv'
<1>1. issued' \in 0 .. MaxDocs /\ issued \in 0 .. MaxDocs /\ d \in 1 .. MaxDocs
  BY DocsAssumption DEF LegalInv, LegalTypeOK
<1>2. DEFINE ds == [docs EXCEPT ![d] = e]
<1>3. ds \in [1 .. MaxDocs -> Docs] /\ \A k \in 1 .. MaxDocs : k > issued' => ds[k] = NoDoc
  BY <1>1, DocsAssumption DEF LegalInv, LegalTypeOK, UnusedOK
<1>4. QED  BY <1>3, WritesKeep

LEMMA StoredIssued == LegalInv => Stored \subseteq 1 .. issued
BY DocsAssumption DEF LegalInv, LegalTypeOK, UnusedOK, Stored

LEMMA CreateDocumentInv ==
    ASSUME LegalInv, NEW t \in Topics, NEW a \in BOOLEAN, NEW ls \in SUBSET Langs,
           CreateDocument(t, a, ls)
    PROVE  LegalInv'
<1>1. [topic |-> t, active |-> a, langs |-> ls] \in Docs
  BY DEF Docs
<1>2. issued + 1 \in 1 .. issued' /\ issued' \in issued .. MaxDocs /\ seeded' \in Topics \cup {NoTopic}
  BY DocsAssumption DEF CreateDocument, LegalInv, LegalTypeOK
<1>3. QED  BY <1>1, <1>2, DocumentWritten DEF CreateDocument

\* A row that is there is changed or taken away.
LEMMA RowWritten ==
    ASSUME LegalInv, NEW d \in Stored, NEW e \in Docs, Writes([docs EXCEPT ![d] = e]),
           UNCHANGED <<issued, seeded>>
    PROVE  LegalInv'
<1>1. d \in 1 .. issued' /\ issued' \in issued .. MaxDocs /\ seeded' \in Topics \cup {NoTopic}
  BY StoredIssued, DocsAssumption DEF LegalInv, LegalTypeOK
<1>2. QED  BY <1>1, DocumentWritten

LEMMA RowType ==
    ASSUME LegalInv, NEW d \in Stored
    PROVE  d \in 1 .. MaxDocs /\ docs[d] \in Docs /\ docs[d].langs \in SUBSET Langs
BY DEF LegalInv, LegalTypeOK, Stored, Docs

LEMMA UpdateDocumentInv ==
    ASSUME LegalInv, NEW d \in 1 .. MaxDocs, NEW t \in Topics, NEW a \in BOOLEAN,
           UpdateDocument(d, t, a)
    PROVE  LegalInv'
<1>1. d \in Stored
  BY DEF UpdateDocument
<1>2. PICK e : e = [docs[d] EXCEPT !.topic = t, !.active = a]
  OBVIOUS
<1>3. e \in Docs
  BY <1>1, <1>2, RowType DEF Docs
<1>4. [docs EXCEPT ![d].topic = t, ![d].active = a] = [docs EXCEPT ![d] = e]
  BY <1>1, <1>2, RowType DEF LegalInv, LegalTypeOK, Docs
<1>5. QED  BY <1>1, <1>3, <1>4, RowWritten DEF UpdateDocument

LEMMA DeleteDocumentInv ==
    ASSUME LegalInv, NEW d \in 1 .. MaxDocs, DeleteDocument(d)
    PROVE  LegalInv'
<1>1. d \in Stored /\ NoDoc \in Docs
  BY DEF DeleteDocument, NoDoc, Docs
<1>2. QED  BY <1>1, RowWritten DEF DeleteDocument

LEMMA LangsWritten ==
    ASSUME LegalInv, NEW d \in Stored, NEW ls \in SUBSET Langs,
           Writes([docs EXCEPT ![d].langs = ls]), UNCHANGED <<issued, seeded>>
    PROVE  LegalInv'
<1>1. PICK e : e = [docs[d] EXCEPT !.langs = ls]
  OBVIOUS
<1>2. e \in Docs
  BY <1>1, RowType DEF Docs
<1>3. [docs EXCEPT ![d].langs = ls] = [docs EXCEPT ![d] = e]
  BY <1>1, RowType DEF LegalInv, LegalTypeOK, Docs
<1>4. QED  BY <1>2, <1>3, RowWritten

LEMMA TranslationInv ==
    ASSUME LegalInv, NEW d \in 1 .. MaxDocs, NEW l \in Langs, NEW m \in Langs,
           CreateTranslation(d, l) \/ UpdateTranslation(d, l, m) \/ DeleteTranslation(d, l)
    PROVE  LegalInv'
<1>1. d \in Stored /\ docs[d].langs \in SUBSET Langs /\ UNCHANGED <<issued, seeded>>
  BY RowType DEF CreateTranslation, UpdateTranslation, DeleteTranslation
<1>2. PICK ls \in SUBSET Langs : Writes([docs EXCEPT ![d].langs = ls])
  <2>1. CASE CreateTranslation(d, l)
    <3>1. docs[d].langs \cup {l} \in SUBSET Langs
      BY <1>1
    <3>2. QED  BY <2>1, <3>1 DEF CreateTranslation
  <2>2. CASE UpdateTranslation(d, l, m)
    <3>1. (docs[d].langs \ {l}) \cup {m} \in SUBSET Langs
      BY <1>1
    <3>2. QED  BY <2>2, <3>1 DEF UpdateTranslation
  <2>3. CASE DeleteTranslation(d, l)
    <3>1. docs[d].langs \ {l} \in SUBSET Langs
      BY <1>1
    <3>2. QED  BY <2>3, <3>1 DEF DeleteTranslation
  <2>4. QED  BY <2>1, <2>2, <2>3
<1>3. QED  BY <1>1, <1>2, LangsWritten
LEMMA SeedDocumentsInv ==
    ASSUME LegalInv, SeedCreates \/ SeedStops \/ \E t \in Topics : SeedDeletes(t)
    PROVE  LegalInv'
<1>1. ASSUME NEW t \in Topics, SeedDeletes(t) PROVE LegalInv'
  <2>1. PICK ds : ds = [d \in 1 .. MaxDocs |-> IF docs[d].topic = t THEN NoDoc ELSE docs[d]]
    OBVIOUS
  <2>2. ds \in [1 .. MaxDocs -> Docs]
    BY <2>1 DEF LegalInv, LegalTypeOK, Docs, NoDoc
  <2>3. issued' = issued /\ issued' \in issued .. MaxDocs /\ seeded' \in Topics \cup {NoTopic}
    BY <1>1, DocsAssumption DEF SeedDeletes, LegalInv, LegalTypeOK
  <2>4. \A d \in 1 .. MaxDocs : d > issued' => ds[d] = NoDoc
    BY <2>1, <2>3 DEF LegalInv, UnusedOK
  <2>5. QED  BY <1>1, <2>1, <2>2, <2>3, <2>4, WritesKeep DEF SeedDeletes
<1>2. CASE SeedCreates
  <2>1. seeded \in Topics /\ [topic |-> seeded, active |-> TRUE, langs |-> Langs] \in Docs
    BY <1>2 DEF SeedCreates, LegalInv, LegalTypeOK, Docs
  <2>2. /\ issued + 1 \in 1 .. issued' /\ issued' \in issued .. MaxDocs
        /\ seeded' \in Topics \cup {NoTopic}
    BY <1>2, DocsAssumption DEF SeedCreates, LegalInv, LegalTypeOK
  <2>3. QED  BY <1>2, <2>1, <2>2, DocumentWritten DEF SeedCreates
<1>3. CASE SeedStops
  BY <1>3 DEF SeedStops, LegalInv, LegalTypeOK, UnusedOK, LegalAsksOK, RefusedRightly
<1>4. QED  BY <1>1, <1>2, <1>3

\* One reader goes on; nothing else changes.
LEMMA ReaderMoves ==
    ASSUME LegalInv, NEW r \in LegalReqs, NEW q \in Asks, ReaderFits(q, docs, issued, lost),
           ask' = [ask EXCEPT ![r] = q], UNCHANGED <<docs, issued, seeded, lost>>
    PROVE  LegalInv'
<1>1. LegalTypeOK' /\ UnusedOK'
  BY DEF LegalInv, LegalTypeOK, UnusedOK
<1>2. \A n \in LegalReqs : ReaderFits(ask'[n], docs, issued, lost)
  BY ReadersAsOne DEF LegalInv, LegalTypeOK
<1>3. LegalAsksOK' /\ RefusedRightly'
  BY <1>2 DEF LegalAsksOK, RefusedRightly, ReaderFits
<1>4. QED  BY <1>1, <1>3 DEF LegalInv

\* The text in force is that of the newest active document.
LEMMA NewestIsInForce ==
    ASSUME LegalInv, NEW t \in Topics, NEW l \in Langs, TextInForce(docs, t, l)
    PROVE  \E d \in Candidates(t) : \A e \in Candidates(t) : Newest(e, t) => l \in docs[e].langs
<1>1. PICK d \in 1 .. MaxDocs :
        /\ docs[d].topic = t /\ docs[d].active /\ l \in docs[d].langs
        /\ \A e \in d + 1 .. MaxDocs : ~ (docs[e].topic = t /\ docs[e].active)
  BY DEF TextInForce
<1>2. d \in Candidates(t)
  BY <1>1, NoTopicAssumption DEF Candidates, Stored, NoDoc
<1>3. ASSUME NEW e \in Candidates(t), Newest(e, t) PROVE l \in docs[e].langs
  <2>1. d <= e /\ e \in 1 .. MaxDocs /\ docs[e].topic = t /\ docs[e].active
    BY <1>2, <1>3 DEF Newest, Candidates, Stored
  <2>2. e = d
    BY <2>1, <1>1, DocsAssumption
  <2>3. QED  BY <2>2, <1>1
<1>4. QED  BY <1>2, <1>3

LEMMA ReadsDocumentInv ==
    ASSUME LegalInv, NEW r \in LegalReqs, NEW t \in Topics, NEW l \in Langs, ReadsDocument(r, t, l)
    PROVE  LegalInv'
<1>1. PICK w \in BOOLEAN : w = TextInForce(docs, t, l)
  BY Zenon DEF TextInForce
<1>2. CASE \E d \in Stored :
              /\ Newest(d, t)
              /\ ask' = [ask EXCEPT ![r] = [pc |-> "found", topic |-> t, lang |-> l, doc |-> d,
                                            open |-> TextInForce(docs, t, l)]]
  <2>1. PICK d \in Stored :
              /\ Newest(d, t)
              /\ ask' = [ask EXCEPT ![r] = [pc |-> "found", topic |-> t, lang |-> l, doc |-> d,
                                            open |-> w]]
    BY <1>1, <1>2, Zenon
  <2>2. DEFINE q == [pc |-> "found", topic |-> t, lang |-> l, doc |-> d, open |-> w]
  <2>3. d \in 1 .. issued /\ d \in 0 .. MaxDocs
    BY StoredIssued, RowType, DocsAssumption DEF LegalInv, LegalTypeOK
  <2>4. q \in Asks
    BY <2>3 DEF Asks
  <2>5. w => l \in docs[d].langs
    BY <1>1, <2>1, NewestIsInForce DEF Newest
  <2>6. ReaderFits(q, docs, issued, lost)
    BY <2>3, <2>5 DEF ReaderFits
  <2>7. QED  BY <2>1, <2>4, <2>6, ReaderMoves DEF ReadsDocument
<1>3. CASE /\ Candidates(t) = {}
           /\ ask' = [ask EXCEPT ![r] = [pc |-> "refused", topic |-> t, lang |-> l, doc |-> 0,
                                         open |-> TextInForce(docs, t, l)]]
  <2>1. w = FALSE
    BY <1>1, <1>3, NewestIsInForce
  <2>2. DEFINE q == [pc |-> "refused", topic |-> t, lang |-> l, doc |-> 0, open |-> w]
  <2>3. q \in Asks /\ ReaderFits(q, docs, issued, lost)
    BY <2>1, DocsAssumption DEF Asks, ReaderFits
  <2>4. ask' = [ask EXCEPT ![r] = q]
    BY <1>1, <1>3, Zenon
  <2>5. QED  BY <2>3, <2>4, ReaderMoves DEF ReadsDocument
<1>4. QED  BY <1>2, <1>3 DEF ReadsDocument

LEMMA ReadsTranslationInv ==
    ASSUME LegalInv, NEW r \in LegalReqs, ReadsTranslation(r)
    PROVE  LegalInv'
<1>1. PICK p \in {"served", "refused"} :
         p = IF ask[r].lang \in docs[ask[r].doc].langs THEN "served" ELSE "refused"
  OBVIOUS
<1>2. PICK q : q = [ask[r] EXCEPT !.pc = p]
  OBVIOUS
<1>3. ask[r] \in Asks /\ ask[r].pc = "found" /\ ReaderFits(ask[r], docs, issued, lost)
  BY ReadersAsOne DEF ReadsTranslation, LegalInv, LegalTypeOK
<1>4. q \in Asks /\ q.pc = p /\ q.doc = ask[r].doc /\ q.lang = ask[r].lang /\ q.open = ask[r].open
  BY <1>1, <1>2, <1>3 DEF Asks
<1>5. ReaderFits(q, docs, issued, lost)
  BY <1>1, <1>3, <1>4 DEF ReaderFits
<1>6. ask' = [ask EXCEPT ![r] = q]
  BY <1>1, <1>2 DEF ReadsTranslation, LegalInv, LegalTypeOK
<1>7. QED  BY <1>4, <1>5, <1>6, ReaderMoves DEF ReadsTranslation

\* While he waits, a reader loses his text only if there was none in force for some time,
\* or it was taken away (legal.service.ts:122-134).
THEOREM LegalTextsFit == LegalSpec => []LegalInv
<1>1. ASSUME LegalInv, [LegalNext]_legalVars PROVE LegalInv'
  <2>1. CASE UNCHANGED legalVars
    BY <1>1, <2>1
       DEF legalVars, LegalInv, LegalTypeOK, UnusedOK, LegalAsksOK, RefusedRightly
  <2>2. CASE LegalNext
    BY <1>1, <2>2, CreateDocumentInv, UpdateDocumentInv, DeleteDocumentInv, TranslationInv,
       SeedDocumentsInv, ReadsDocumentInv, ReadsTranslationInv
       DEF LegalNext
  <2>3. QED  BY <1>1, <2>1, <2>2
<1>2. QED  BY <1>1, LegalInitInv, PTL DEF LegalSpec
-----------------------------------------------------------------------------
(* The seed.                                                               *)

\* The list of types is there under its own ids, or the seed is at the next of it.
Written ==
    /\ Len(TypeOrder) <= drawnTypes
    /\ \A j \in 1 .. Len(TypeOrder) : types[j] = TypeOrder[j]

Writing ==
    /\ drawnTypes < Len(TypeOrder)
    /\ \A i \in 1 .. MaxId : types[i] = IF i <= drawnTypes THEN TypeOrder[i] ELSE NoName
    /\ at = SeedOps + drawnTypes + 1 \/ (drawnTypes = 0 /\ at <= SeedOps)
    /\ \A c \in 1 .. Len(TypeIds) : plugs[c] = 0

PlugsNamed == \A c \in 1 .. Len(TypeIds) : plugs[c] \in {0, TypeIds[c]}

SeedOrder == PlugsNamed /\ (tidy => Written \/ Writing)

SeedInd == SeedTypeOK /\ RefusedOnce /\ SeedOrder

LEMMA SeedConstants ==
    /\ MaxId \in Nat /\ SeedOps \in 1 .. MaxId /\ Len(TypeOrder) \in 0 .. MaxId /\ Len(TypeIds) \in Nat
    /\ \A j \in 1 .. Len(TypeOrder) : TypeOrder[j] \in Names /\ TypeOrder[j] # NoName
    /\ \A c \in 1 .. Len(TypeIds) : TypeIds[c] \in 1 .. Len(TypeOrder)
    /\ Last \in Nat /\ SeedOps + Len(TypeOrder) <= Last
    /\ Last = SeedOps + Len(TypeOrder) + Len(TypeIds)
BY NamesAssumption, IdsAssumption, LenProperties, ElementOfSeq DEF Last

LEMMA SeedInitInd == SeedInit => SeedInd
<1> SUFFICES ASSUME SeedInit PROVE SeedInd
  OBVIOUS
<1>1. SeedTypeOK
  BY SeedConstants DEF SeedInit, SeedTypeOK
<1>2. RefusedOnce
  BY SeedConstants DEF SeedInit, RefusedOnce
<1>3. SeedOrder
  <2>1. CASE Len(TypeOrder) = 0
    BY <2>1, SeedConstants DEF SeedInit, SeedOrder, Written, PlugsNamed
  <2>2. CASE Len(TypeOrder) # 0
    BY <2>2, SeedConstants DEF SeedInit, SeedOrder, Writing, PlugsNamed
  <2>3. QED  BY <2>1, <2>2
<1>4. QED  BY <1>1, <1>2, <1>3 DEF SeedInd

LEMMA PlugsMeant == SeedInd => SeedInv
<1> SUFFICES ASSUME SeedInd, tidy, NEW c \in 1 .. Len(TypeIds), plugs[c] # 0
             PROVE  types[plugs[c]] = TypeOrder[TypeIds[c]]
  BY DEF SeedInd, SeedInv, PlugsAsMeant
<1>1. Written /\ plugs[c] = TypeIds[c]
  BY DEF SeedInd, SeedOrder, PlugsNamed, Writing
<1>2. QED  BY <1>1, SeedConstants DEF Written

\* The statement that the seed comes to next.
LEMMA NextStatement == SeedInd /\ at # 0 /\ Proceeds => at' \in 0 .. Last
BY SeedConstants DEF SeedInd, SeedTypeOK, Proceeds

LEMMA SeedRunsInd ==
    ASSUME SeedInd, SeedStarts \/ SeedsOperator
    PROVE  SeedInd'
<1>1. /\ at' \in 0 .. Last
      /\ operators' \subseteq 1 .. MaxId /\ operators' \subseteq operators \cup 1 .. SeedOps
  <2>1. CASE SeedStarts
    BY <2>1, SeedConstants DEF SeedStarts, SeedInd, SeedTypeOK
  <2>2. CASE SeedsOperator
    <3>1. at' \in 0 .. Last
      BY <2>2, NextStatement DEF SeedsOperator
    <3>2. QED  BY <2>2, <3>1, SeedConstants DEF SeedsOperator, SeedInd, SeedTypeOK
  <2>3. QED  BY <2>1, <2>2
<1>2. UNCHANGED <<drawnOps, refusals, types, drawnTypes, plugs, tidy>>
  BY DEF SeedStarts, SeedsOperator
<1>3. SeedTypeOK'
  BY <1>1, <1>2 DEF SeedInd, SeedTypeOK
<1>4. RefusedOnce'
  BY <1>1, <1>2 DEF SeedInd, RefusedOnce
<1>5. Written => Written'
  BY <1>2 DEF Written
<1>6. Writing => Writing'
  <2>1. SUFFICES ASSUME Writing PROVE at' = SeedOps + drawnTypes + 1 \/ (drawnTypes = 0 /\ at' <= SeedOps)
    BY <1>2 DEF Writing
  <2>2. CASE SeedStarts
    BY <2>1, <2>2, SeedConstants DEF SeedStarts, Writing, SeedInd, SeedTypeOK
  <2>3. CASE SeedsOperator
    BY <2>1, <2>3, SeedConstants DEF SeedsOperator, Proceeds, Writing, SeedInd, SeedTypeOK
  <2>4. QED  BY <2>2, <2>3
<1>7. QED  BY <1>2, <1>3, <1>4, <1>5, <1>6 DEF SeedInd, SeedOrder, PlugsNamed

\* In a list that is being written the next type is missing.
LEMMA NextIsMissing ==
    ASSUME SeedInd, Writing
    PROVE  ~ Known(TypeOrder[drawnTypes + 1])
<1>1. drawnTypes + 1 \in 1 .. Len(TypeOrder)
  BY DEF Writing, SeedInd, SeedTypeOK
<1>2. ASSUME NEW i \in 1 .. MaxId, types[i] = TypeOrder[drawnTypes + 1] PROVE FALSE
  <2>1. i <= drawnTypes /\ TypeOrder[i] = TypeOrder[drawnTypes + 1]
    BY <1>1, <1>2, SeedConstants DEF Writing
  <2>2. QED  BY <1>1, <2>1, OrderAssumption DEF SeedInd, SeedTypeOK
<1>3. QED  BY <1>2 DEF Known

LEMMA SeedsTypeInd ==
    ASSUME SeedInd, SeedsType
    PROVE  SeedInd'
<1>1. PICK j : j = at - SeedOps
  OBVIOUS
<1>2. j \in 1 .. Len(TypeOrder) /\ at = SeedOps + j /\ TypeOrder[j] \in Names /\ TypeOrder[j] # NoName
  BY <1>1, SeedConstants DEF SeedsType, SeedInd, SeedTypeOK
<1>3. at' \in 0 .. Last /\ UNCHANGED <<operators, drawnOps, refusals, plugs, tidy>>
  BY <1>2, NextStatement, SeedConstants DEF SeedsType
<1>4. drawnTypes \in 0 .. MaxId /\ drawnTypes' \in drawnTypes .. MaxId
  BY SeedConstants DEF SeedsType, SeedInd, SeedTypeOK
<1>5. types' \in [1 .. MaxId -> Names \cup {NoName}]
  BY <1>1, <1>2 DEF SeedsType, SeedInd, SeedTypeOK
<1>6. SeedTypeOK' /\ RefusedOnce'
  BY <1>3, <1>4, <1>5 DEF SeedInd, SeedTypeOK, RefusedOnce
<1>7. CASE Written
  <2>1. Known(TypeOrder[j])
    BY <1>2, <1>7, SeedConstants DEF Written, Known
  <2>2. types' = types
    BY <1>1, <2>1 DEF SeedsType
  <2>3. Written'
    BY <1>4, <1>7, <2>2, SeedConstants DEF Written
  <2>4. QED  BY <1>3, <1>6, <2>3 DEF SeedInd, SeedOrder, PlugsNamed
<1>8. CASE Writing
  <2>1. j = drawnTypes + 1
    BY <1>2, <1>4, <1>8, SeedConstants DEF Writing
  <2>2. drawnTypes' = drawnTypes + 1 /\ types' = [types EXCEPT ![drawnTypes + 1] = TypeOrder[j]]
    BY <1>1, <1>8, <2>1, NextIsMissing DEF SeedsType
  <2>3. \A i \in 1 .. MaxId : types'[i] = IF i <= drawnTypes' THEN TypeOrder[i] ELSE NoName
    BY <1>4, <1>8, <2>1, <2>2 DEF Writing, SeedInd, SeedTypeOK
  <2>4. CASE j = Len(TypeOrder)
    <3>1. Written'
      BY <1>4, <2>1, <2>2, <2>3, <2>4, SeedConstants DEF Written
    <3>2. QED  BY <1>3, <1>6, <3>1 DEF SeedInd, SeedOrder, PlugsNamed
  <2>5. CASE j # Len(TypeOrder)
    <3>1. drawnTypes' < Len(TypeOrder)
      BY <1>2, <1>4, <2>1, <2>2, <2>5, SeedConstants
    <3>2. at' = SeedOps + drawnTypes' + 1
      BY <1>2, <1>4, <2>1, <2>2, <2>5, SeedConstants DEF SeedsType, Proceeds
    <3>3. Writing'
      BY <1>3, <1>8, <2>3, <3>1, <3>2 DEF Writing
    <3>4. QED  BY <1>3, <1>6, <3>3 DEF SeedInd, SeedOrder, PlugsNamed
  <2>6. QED  BY <2>4, <2>5
<1>9. CASE ~ tidy
  BY <1>3, <1>6, <1>9 DEF SeedInd, SeedOrder, PlugsNamed
<1>10. QED  BY <1>7, <1>8, <1>9 DEF SeedInd, SeedOrder

LEMMA SeedsConnectorInd ==
    ASSUME SeedInd, SeedsConnector
    PROVE  SeedInd'
<1>1. PICK c : c = at - SeedOps - Len(TypeOrder)
  OBVIOUS
<1>2. c \in 1 .. Len(TypeIds) /\ at = SeedOps + Len(TypeOrder) + c /\ at # 0
  BY <1>1, SeedConstants DEF SeedsConnector, SeedInd, SeedTypeOK
<1>3. at' \in 0 .. Last /\ UNCHANGED <<operators, drawnOps, refusals, types, drawnTypes, tidy>>
  BY <1>2, NextStatement, SeedConstants DEF SeedsConnector
<1>4. plugs' = plugs \/ plugs' = [plugs EXCEPT ![c] = TypeIds[c]]
  BY <1>1 DEF SeedsConnector, Named
<1>5. plugs' \in [1 .. Len(TypeIds) -> 0 .. MaxId] /\ PlugsNamed'
  BY <1>2, <1>4, SeedConstants DEF SeedInd, SeedTypeOK, SeedOrder, PlugsNamed
<1>6. ~ Writing
  BY <1>2, SeedConstants DEF Writing, SeedInd, SeedTypeOK
<1>7. Written => Written'
  BY <1>3 DEF Written
<1>8. SeedTypeOK' /\ RefusedOnce'
  BY <1>3, <1>5 DEF SeedInd, SeedTypeOK, RefusedOnce
<1>9. QED  BY <1>3, <1>5, <1>6, <1>7, <1>8 DEF SeedInd, SeedOrder

LEMMA SeedEndsInd ==
    ASSUME SeedInd, SeedEnds
    PROVE  SeedInd'
<1>1. at' = 0 /\ UNCHANGED <<operators, drawnOps, refusals, types, drawnTypes, plugs>>
  BY DEF SeedEnds
<1>2. SeedTypeOK' /\ RefusedOnce'
  BY <1>1, SeedConstants DEF SeedInd, SeedTypeOK, RefusedOnce, SeedEnds
<1>3. Written => Written'
  BY <1>1 DEF Written
<1>4. ASSUME Writing, AllKnown \/ NoneKnown PROVE Writing'
  <2>1. drawnTypes + 1 \in 1 .. Len(TypeOrder) /\ drawnTypes \in Nat
    BY <1>4 DEF Writing, SeedInd, SeedTypeOK
  <2>2. NoneKnown
    BY <1>4, <2>1, NextIsMissing DEF AllKnown
  <2>3. drawnTypes = 0
    <3>1. SUFFICES ASSUME drawnTypes # 0 PROVE FALSE
      OBVIOUS
    <3>2. 1 \in 1 .. MaxId /\ 1 \in 1 .. Len(TypeOrder) /\ types[1] = TypeOrder[1]
      BY <1>4, <2>1, <3>1, SeedConstants DEF Writing
    <3>3. QED  BY <2>2, <3>2 DEF NoneKnown, Known
  <2>4. QED  BY <1>1, <1>4, <2>3, SeedConstants DEF Writing
<1>5. tidy' => tidy /\ (AllKnown \/ NoneKnown)
  BY DEF SeedEnds
<1>6. QED  BY <1>1, <1>2, <1>3, <1>4, <1>5 DEF SeedInd, SeedOrder, PlugsNamed

LEMMA OperatorsInd ==
    ASSUME SeedInd, CreateOperator \/ \E i \in 1 .. MaxId : RemoveOperator(i)
    PROVE  SeedInd'
<1>1. UNCHANGED <<types, drawnTypes, plugs, at, tidy>>
  BY DEF CreateOperator, RemoveOperator
<1>2. SeedTypeOK' /\ RefusedOnce'
  <2>1. CASE CreateOperator
    BY <1>1, <2>1, SeedConstants DEF CreateOperator, SeedInd, SeedTypeOK, RefusedOnce
  <2>2. CASE \E i \in 1 .. MaxId : RemoveOperator(i)
    BY <1>1, <2>2, SeedConstants DEF RemoveOperator, SeedInd, SeedTypeOK, RefusedOnce
  <2>3. QED  BY <2>1, <2>2
<1>3. QED  BY <1>1, <1>2 DEF SeedInd, SeedOrder, PlugsNamed, Written, Writing

LEMMA TypesInd ==
    ASSUME SeedInd,
           \/ \E n \in Names : CreateType(n)
           \/ \E i \in 1 .. MaxId : RemoveType(i) \/ \E n \in Names : RenameType(i, n)
    PROVE  SeedInd'
<1>1. CASE \E n \in Names : CreateType(n)
  <2>1. PICK n \in Names : CreateType(n)
    BY <1>1
  <2>2. drawnTypes' \in 0 .. MaxId /\ types' \in [1 .. MaxId -> Names \cup {NoName}]
    BY <2>1, SeedConstants DEF CreateType, SeedInd, SeedTypeOK
  <2>3. tidy' \in BOOLEAN
    BY <2>1, Zenon DEF CreateType, AllKnown
  <2>4. SeedTypeOK' /\ RefusedOnce'
    BY <2>1, <2>2, <2>3 DEF CreateType, SeedInd, SeedTypeOK, RefusedOnce
  <2>5. ASSUME tidy' PROVE Written'
    <3>1. tidy /\ AllKnown
      BY <2>1, <2>5 DEF CreateType
    <3>2. ~ Writing
      <4>1. ASSUME Writing PROVE FALSE
        <5>1. drawnTypes + 1 \in 1 .. Len(TypeOrder)
          BY <4>1 DEF Writing, SeedInd, SeedTypeOK
        <5>2. QED  BY <3>1, <4>1, <5>1, NextIsMissing DEF AllKnown
      <4>2. QED  BY <4>1
    <3>3. QED
      BY <2>1, <3>1, <3>2, SeedConstants
         DEF CreateType, SeedInd, SeedTypeOK, SeedOrder, Written
  <2>6. PlugsNamed'
    BY <2>1 DEF CreateType, SeedInd, SeedOrder, PlugsNamed
  <2>7. QED  BY <2>4, <2>5, <2>6 DEF SeedInd, SeedOrder
<1>2. CASE \E i \in 1 .. MaxId : RemoveType(i) \/ \E n \in Names : RenameType(i, n)
  <2>1. PICK i \in 1 .. MaxId : RemoveType(i) \/ \E n \in Names : RenameType(i, n)
    BY <1>2
  <2>2. UNCHANGED <<operators, drawnOps, refusals, drawnTypes, at>> /\ tidy' = FALSE
    BY <2>1 DEF RemoveType, RenameType
  <2>3. types' \in [1 .. MaxId -> Names \cup {NoName}]
    BY <2>1 DEF RemoveType, RenameType, SeedInd, SeedTypeOK
  <2>4. plugs' \in [1 .. Len(TypeIds) -> 0 .. MaxId] /\ PlugsNamed'
    BY <2>1, SeedConstants
       DEF RemoveType, RenameType, SeedInd, SeedTypeOK, SeedOrder, PlugsNamed
  <2>5. SeedTypeOK' /\ RefusedOnce'
    BY <2>2, <2>3, <2>4 DEF SeedInd, SeedTypeOK, RefusedOnce
  <2>6. QED  BY <2>2, <2>4, <2>5 DEF SeedInd, SeedOrder
<1>3. QED  BY <1>1, <1>2

\* Connectors of a seed that wrote its list of types in one go have the types meant
\* (seed.ts:139-218), and an operator is refused once for each id the seed took (41-82).
THEOREM SeedsAsMeant == SeedSpec => []SeedInv
<1>1. ASSUME SeedInd, [SeedNext]_seedVars PROVE SeedInd'
  <2>1. CASE UNCHANGED seedVars
    BY <1>1, <2>1
       DEF seedVars, SeedInd, SeedTypeOK, RefusedOnce, SeedOrder, PlugsNamed, Written, Writing
  <2>2. CASE SeedNext
    BY <1>1, <2>2, SeedRunsInd, SeedsTypeInd, SeedsConnectorInd, SeedEndsInd, OperatorsInd, TypesInd
       DEF SeedNext
  <2>3. QED  BY <1>1, <2>1, <2>2
<1>2. QED  BY <1>1, SeedInitInd, PlugsMeant, PTL DEF SeedSpec
-----------------------------------------------------------------------------
(* Lists.                                                                  *)

\* The rows ahead of a row, and its place, counted from 0.
Ahead(x) == {y \in There : Before(y, x)}

Rank(x) == Cardinality(Ahead(x))

\* The rows a client has, those of a statement he waits on included, and how far he is.
Got == walk.seen \cup walk.items
Upto == IF walk.pc = "rest" /\ walk.first = "rows" THEN walk.page * walk.limit
        ELSE Skip(walk.page, walk.limit)

\* The column sorts the rows without ties.
Sorted == walk.even /\ walk.column # "none"

\* He has every row that was there from the beginning and is not further on than he is; and
\* no row that is.
NoneBehind == Sorted /\ ~ walk.left => \A x \in walk.all : Rank(x) < Upto => x \in Got
NoneAhead == Sorted /\ ~ walk.came => \A x \in Got \cap There : Rank(x) < Upto
NoneAgain == Sorted /\ ~ walk.came => ~ walk.again /\ walk.items \cap walk.seen = {}

WalkFits ==
    /\ walk.all \subseteq There
    /\ walk.even => Even(key)
    /\ walk.pc = "rest" /\ walk.first = "number" /\ ~ walk.late /\ ~ walk.left =>
           walk.number = Cardinality(There)
    /\ NoneBehind
    /\ NoneAhead

NotYet == \A x \in Rows : x > inserted => key[x] = 0

NoItems == ~ (walk.pc = "rest" /\ walk.first = "rows") => walk.items = {}

ListInd == ListTypeOK /\ NotYet /\ NoItems /\ (Busy => WalkFits) /\ NoneAgain /\ NothingMissed

LEMMA RowsFinite ==
    ASSUME NEW S \in SUBSET Rows
    PROVE  IsFiniteSet(S) /\ Cardinality(S) \in 0 .. MaxRows
<1>1. IsFiniteSet(Rows) /\ Cardinality(Rows) = MaxRows
  BY FS_Interval, RowsAssumption DEF Rows
<1>2. QED  BY <1>1, FS_Subset, FS_CardinalityType

LEMMA Smaller ==
    ASSUME NEW S \in SUBSET Rows, NEW T \in SUBSET S
    PROVE  Cardinality(T) <= Cardinality(S)
BY RowsFinite, FS_Subset

LEMMA Without ==
    ASSUME NEW S \in SUBSET Rows, NEW x \in S
    PROVE  Cardinality(S \ {x}) = Cardinality(S) - 1
BY RowsFinite, FS_RemoveElement

LEMMA Together ==
    ASSUME NEW S \in SUBSET Rows, NEW T \in SUBSET Rows, S \cap T = {}
    PROVE  Cardinality(S \cup T) = Cardinality(S) + Cardinality(T)
<1>1. IsFiniteSet(S) /\ IsFiniteSet(T) /\ Cardinality(S) \in Nat /\ Cardinality(T) \in Nat
  BY RowsFinite
<1>2. Cardinality(S \cap T) = 0
  BY FS_EmptySet
<1>3. Cardinality(S \cup T) = Cardinality(S) + Cardinality(T) - Cardinality(S \cap T)
  BY <1>1, FS_Union, Zenon
<1>4. QED  BY <1>1, <1>2, <1>3

LEMMA ListTypes ==
    ASSUME ListTypeOK
    PROVE  /\ There \in SUBSET Rows
           /\ \A x \in Rows : key[x] \in Nat
           /\ walk.limit \in Nat \ {0} /\ walk.page \in Nat \ {0} /\ walk.number \in 0 .. MaxRows
           /\ walk.dir \in BothDirs /\ walk.items \in SUBSET Rows /\ walk.seen \in SUBSET Rows
           /\ walk.all \in SUBSET Rows
<1>1. Limits \cup {1} \subseteq Nat \ {0} /\ 1 .. 2 * MaxRows + 1 \subseteq Nat \ {0}
  BY RowsAssumption DEF Limits
<1>2. key \in [Rows -> 0 .. MaxRows] /\ 0 .. MaxRows \subseteq Nat /\ walk \in Walks
  BY RowsAssumption DEF ListTypeOK
<1>3. There \in SUBSET Rows /\ \A x \in Rows : key[x] \in Nat
  BY <1>2 DEF There
<1>4. QED  BY <1>1, <1>2, <1>3 DEF Walks

LEMMA RankType ==
    ASSUME ListTypeOK, NEW x
    PROVE  Ahead(x) \in SUBSET There /\ Rank(x) \in Nat
BY RowsFinite, ListTypes DEF Ahead, Rank

LEMMA PageEnds ==
    \A p, l \in Nat \ {0} : /\ Skip(p, l) \in Nat /\ p * l \in Nat /\ Skip(p, l) + l = p * l
                            /\ Skip(p + 1, l) = p * l /\ p <= p * l /\ Skip(1, l) = 0
<1>1. \A p \in Int, l \in Int : (p - 1) * l \in Int /\ (p - 1) * l + l = p * l
  OBVIOUS
<1>2. \A p \in Nat \ {0}, l \in Nat \ {0} : (p - 1) * l >= 0
  OBVIOUS
<1>3. \A p \in Nat \ {0} : (p + 1) - 1 = p
  OBVIOUS
<1>4. \A p \in Nat \ {0}, l \in Nat \ {0} : p * l \in Nat /\ p <= p * l /\ (1 - 1) * l = 0
  OBVIOUS
<1>5. QED  BY <1>1, <1>2, <1>3, <1>4 DEF Skip

\* Without ties one of two rows is before the other, and not the other before it.
LEMMA Strict ==
    ASSUME ListTypeOK, Even(key), walk.column # "none", NEW x \in There, NEW y \in There
    PROVE  /\ ~ Before(x, x)
           /\ ~ (Before(x, y) /\ Before(y, x))
           /\ x # y => Before(x, y) \/ Before(y, x)
<1>1. x \in Rows /\ y \in Rows /\ key[x] \in Nat /\ key[y] \in Nat /\ (key[x] = key[y] => x = y)
  BY ListTypes DEF Even, There
<1>2. walk.dir = "asc" \/ walk.dir = "desc"
  BY ListTypes DEF BothDirs
<1>3. CASE walk.dir = "asc"
  <2>1. \A a, b \in {x, y} : Before(a, b) <=> key[a] < key[b]
    BY <1>3 DEF Before
  <2>2. QED  BY <1>1, <2>1
<1>4. CASE walk.dir = "desc"
  <2>1. \A a, b \in {x, y} : Before(a, b) <=> key[a] > key[b]
    BY <1>4 DEF Before
  <2>2. QED  BY <1>1, <2>1
<1>5. QED  BY <1>2, <1>3, <1>4

\* A page holds the rows of its places.
LEMMA PageIs ==
    ASSUME ListTypeOK, Even(key), walk.column # "none", NEW items \in SUBSET There, IsPage(items)
    PROVE  items = {x \in There : /\ Skip(walk.page, walk.limit) <= Rank(x)
                                  /\ Rank(x) < walk.page * walk.limit}
<1>1. PICK s \in Nat, l \in Nat \ {0} :
         s = Skip(walk.page, walk.limit) /\ l = walk.limit /\ s + l = walk.page * walk.limit
  BY ListTypes, PageEnds
<1>2. PICK n \in Nat : n = Cardinality(There)
  BY RowsFinite, ListTypes
<1>3. PICK before \in SUBSET There :
         LET after == There \ (before \cup items) IN
         /\ Cardinality(before) = Least(s, n)
         /\ items \cap before = {}
         /\ Cardinality(items) = Least(l, n - Cardinality(before))
         /\ \A b \in before, x \in items \cup after : ~ Before(x, b)
         /\ \A x \in items, a \in after : ~ Before(a, x)
  BY <1>1, <1>2 DEF IsPage
<1>4. PICK after \in SUBSET There : after = There \ (before \cup items)
  OBVIOUS
<1>5. /\ Cardinality(before) = Least(s, n)
      /\ items \cap before = {}
      /\ Cardinality(items) = Least(l, n - Cardinality(before))
      /\ \A b \in before, x \in items \cup after : ~ Before(x, b)
      /\ \A x \in items, a \in after : ~ Before(a, x)
  BY <1>3, <1>4
<1>6. PICK b \in Nat, i \in Nat : b = Cardinality(before) /\ i = Cardinality(items)
  BY RowsFinite, ListTypes
<1>7. b = Least(s, n) /\ i = Least(l, n - b)
  BY <1>5, <1>6
<1>8. before \cup items \in SUBSET There /\ Cardinality(before \cup items) = b + i
  BY <1>5, <1>6, Together, ListTypes
<1>9. b < n => b = s
  BY <1>7 DEF Least
<1>10. b <= s /\ b <= n /\ b + i <= n
  BY <1>7 DEF Least
<1>11. b + i < n => b + i = s + l
  BY <1>7, <1>9, <1>10 DEF Least
<1>12. ASSUME NEW x \in items PROVE s <= Rank(x) /\ Rank(x) < s + l
  <2>1. x \notin before
    BY <1>5
  <2>2. before \subseteq Ahead(x)
    BY <1>5, <2>1, Strict DEF Ahead
  <2>3. Ahead(x) \subseteq (before \cup items) \ {x}
    BY <1>4, <1>5, Strict DEF Ahead
  <2>4. Cardinality((before \cup items) \ {x}) = b + i - 1
    BY <1>8, Without, ListTypes
  <2>5. Rank(x) <= b + i - 1
    BY <1>8, <2>3, <2>4, Smaller, ListTypes DEF Rank
  <2>6. b <= Rank(x)
    BY <1>6, <2>2, Smaller, RankType, ListTypes DEF Rank
  <2>7. i # 0
    BY <2>5, <2>6, RankType
  <2>8. b = s /\ i <= l
    BY <1>7, <1>9, <1>10, <2>7 DEF Least
  <2>9. QED  BY <2>5, <2>6, <2>8, RankType
<1>13. ASSUME NEW x \in before PROVE Rank(x) < s
  <2>1. Ahead(x) \subseteq before \ {x}
    BY <1>4, <1>5, Strict DEF Ahead
  <2>2. Cardinality(before \ {x}) = b - 1
    BY <1>6, Without, ListTypes
  <2>3. Rank(x) <= b - 1
    BY <2>1, <2>2, Smaller, ListTypes DEF Rank
  <2>4. QED  BY <1>10, <2>3, RankType
<1>14. ASSUME NEW x \in after PROVE s + l <= Rank(x)
  <2>1. x \notin before \cup items
    BY <1>4
  <2>2. before \cup items \subseteq Ahead(x)
    BY <1>5, <1>8, <2>1, Strict DEF Ahead
  <2>3. Ahead(x) \subseteq There \ {x}
    BY Strict DEF Ahead
  <2>4. b + i <= Rank(x)
    BY <1>8, <2>2, Smaller, RankType, ListTypes DEF Rank
  <2>5. Rank(x) <= n - 1
    <3>1. There \ {x} \in SUBSET Rows /\ Cardinality(There \ {x}) = n - 1
      BY <1>2, Without, ListTypes
    <3>2. QED  BY <2>3, <3>1, Smaller DEF Rank
  <2>6. QED  BY <1>11, <2>4, <2>5, RankType
<1>15. \A x \in There : x \in before \/ x \in items \/ x \in after
  BY <1>4
<1>16. \A x \in There : x \in items <=> s <= Rank(x) /\ Rank(x) < s + l
  BY <1>12, <1>13, <1>14, <1>15, RankType
<1>17. QED  BY <1>1, <1>16
LEMMA ListInitInd == ListInit => ListInd
<1> SUFFICES ASSUME ListInit PROVE ListInd
  OBVIOUS
<1>1. ListTypeOK
  BY RowsAssumption DEF ListInit, ListTypeOK, Walks, Idle, BothDirs
<1>2. QED
  BY <1>1 DEF ListInit, ListInd, NotYet, NoItems, Busy, NoneAgain, NothingMissed, Idle

\* Between rows that keep their value the order stays.
LEMMA SameOrder ==
    ASSUME ListTypeOK, walk.column # "none", walk'.column = walk.column, walk'.dir = walk.dir,
           NEW x, NEW y, key'[x] = key[x], key'[y] = key[y]
    PROVE  Before(x, y)' <=> Before(x, y)
<1>1. walk.dir = "asc" \/ walk.dir = "desc"
  BY ListTypes DEF BothDirs
<1>2. QED  BY <1>1 DEF Before

LEMMA UptoType == ListTypeOK => Upto \in Nat
<1> SUFFICES ASSUME ListTypeOK PROVE Upto \in Nat
  OBVIOUS
<1>1. PICK p \in Nat \ {0}, l \in Nat \ {0} : p = walk.page /\ l = walk.limit
  BY ListTypes
<1>2. Skip(p, l) \in Nat /\ p * l \in Nat
  BY PageEnds
<1>3. QED  BY <1>1, <1>2 DEF Upto

\* A row that comes puts others further on.
LEMMA InsertInd ==
    ASSUME ListInd, NEW v \in Rows, Insert(v)
    PROVE  ListInd'
<1>1. PICK x : x = inserted + 1
  OBVIOUS
<1>2. /\ x \in Rows /\ inserted' = x /\ inserted \in 0 .. MaxRows /\ ListTypeOK
      /\ key' = [key EXCEPT ![x] = v] /\ x \notin There
  BY <1>1, RowsAssumption DEF Insert, ListInd, ListTypeOK, NotYet, There, Rows
<1>3. /\ key' \in [Rows -> 0 .. MaxRows] /\ inserted' \in 0 .. MaxRows /\ NotYet'
      /\ There' = There \cup {x} /\ \A y \in There : key'[y] = key[y]
  BY <1>1, <1>2, RowsAssumption DEF ListInd, ListTypeOK, NotYet, There, Rows
<1>4. CASE ~ Busy
  <2>1. walk' = walk
    BY <1>4 DEF Insert
  <2>2. ~ Busy'
    BY <1>4, <2>1 DEF Busy
  <2>3. QED
    BY <1>2, <1>3, <2>1, <2>2
       DEF ListInd, ListTypeOK, NoItems, NoneAgain, Sorted, NothingMissed
<1>5. CASE Busy
  <2>1. PICK e \in BOOLEAN, f \in BOOLEAN :
           e = (walk.even /\ Even(key')) /\ f = (walk.late \/ walk.pc = "rest")
    BY Zenon
  <2>2. walk' = [walk EXCEPT !.came = TRUE, !.late = walk.late \/ walk.pc = "rest",
                             !.even = walk.even /\ Even(key')]
    BY <1>5, Zenon DEF Insert
  <2>3. walk' = [walk EXCEPT !.came = TRUE, !.late = f, !.even = e]
    BY <2>1, <2>2, Zenon
  <2>4. walk' \in Walks
    BY <1>2, <2>3 DEF ListTypeOK, Walks
  <2>5. /\ walk'.came = TRUE /\ walk'.late = f /\ walk'.even = e
        /\ UNCHANGED <<walk.pc, walk.column, walk.dir, walk.first, walk.limit, walk.page, walk.items,
                       walk.number, walk.all, walk.seen, walk.again, walk.left>>
    BY <1>2, <2>3 DEF ListTypeOK, Walks
  <2>6. Upto' = Upto /\ Got' = Got
    BY <2>5 DEF Upto, Got
  <2>7. NoneBehind'
    <3>1. SUFFICES ASSUME Sorted', ~ walk.left, NEW y \in walk.all, Rank(y)' < Upto
                   PROVE  y \in Got
      BY <2>5, <2>6 DEF NoneBehind
    <3>2. Sorted /\ y \in There
      BY <1>5, <2>1, <2>5, <3>1 DEF Sorted, ListInd, WalkFits
    <3>3. Ahead(y) \subseteq Ahead(y)'
      BY <1>2, <1>3, <2>5, <3>2, SameOrder DEF Ahead, Sorted
    <3>4. Ahead(y)' \in SUBSET Rows
      BY DEF Ahead, There
    <3>5. Rank(y) <= Rank(y)' /\ Rank(y) \in Nat /\ Rank(y)' \in Nat
      BY <1>2, <3>3, <3>4, Smaller, RankType, RowsFinite DEF Rank
    <3>6. Upto \in Int
      BY <1>2, UptoType
    <3>7. Rank(y) < Upto
      BY <3>1, <3>5, <3>6
    <3>8. QED  BY <1>5, <3>1, <3>2, <3>7 DEF ListInd, WalkFits, NoneBehind
  <2>8. WalkFits'
    BY <1>3, <1>5, <2>1, <2>5, <2>7 DEF ListInd, WalkFits, NoneAhead, Even
  <2>9. NoneAgain' /\ NoItems' /\ NothingMissed'
    BY <1>5, <2>5 DEF ListInd, NoneAgain, NoItems, NothingMissed, Busy
  <2>10. QED  BY <1>3, <2>4, <2>8, <2>9 DEF ListInd, ListTypeOK
<1>6. QED  BY <1>4, <1>5

\* A row that goes pulls others back.
LEMMA DeleteInd ==
    ASSUME ListInd, NEW x \in Rows, Delete(x)
    PROVE  ListInd'
<1>1. x \in There /\ key' = [key EXCEPT ![x] = 0] /\ inserted' = inserted /\ ListTypeOK
  BY DEF Delete, ListInd
<1>2. /\ key' \in [Rows -> 0 .. MaxRows] /\ inserted' \in 0 .. MaxRows /\ NotYet'
      /\ There' = There \ {x} /\ \A y \in There \ {x} : key'[y] = key[y]
  BY <1>1, RowsAssumption DEF ListInd, ListTypeOK, NotYet, There, Rows
<1>3. CASE ~ Busy
  <2>1. walk' = walk
    BY <1>3 DEF Delete
  <2>2. ~ Busy'
    BY <1>3, <2>1 DEF Busy
  <2>3. QED
    BY <1>1, <1>2, <2>1, <2>2
       DEF ListInd, ListTypeOK, NoItems, NoneAgain, Sorted, NothingMissed
<1>4. CASE Busy
  <2>1. walk' = [walk EXCEPT !.left = TRUE, !.all = @ \ {x}]
    BY <1>4 DEF Delete
  <2>2. walk' \in Walks
    BY <1>1, <2>1 DEF ListTypeOK, Walks
  <2>3. /\ walk'.left = TRUE /\ walk'.all = walk.all \ {x}
        /\ UNCHANGED <<walk.pc, walk.column, walk.dir, walk.first, walk.limit, walk.page, walk.items,
                       walk.number, walk.came, walk.seen, walk.again, walk.late, walk.even>>
    BY <1>1, <2>1 DEF ListTypeOK, Walks
  <2>4. Upto' = Upto /\ Got' = Got
    BY <2>3 DEF Upto, Got
  <2>5. NoneAhead'
    <3>1. SUFFICES ASSUME Sorted', ~ walk.came, NEW y \in Got, y \in There'
                   PROVE  Rank(y)' < Upto
      BY <2>3, <2>4 DEF NoneAhead
    <3>2. Sorted /\ y \in There /\ y # x
      BY <1>2, <2>3, <3>1 DEF Sorted
    <3>3. Ahead(y)' \subseteq Ahead(y)
      BY <1>1, <1>2, <2>3, <3>2, SameOrder DEF Ahead, Sorted
    <3>4. Ahead(y) \in SUBSET Rows
      BY DEF Ahead, There
    <3>5. Rank(y)' <= Rank(y) /\ Rank(y) \in Nat /\ Rank(y)' \in Nat
      BY <1>1, <3>3, <3>4, Smaller, RankType, RowsFinite DEF Rank
    <3>6. Upto \in Int
      BY <1>1, UptoType
    <3>7. Rank(y) < Upto
      BY <1>4, <3>1, <3>2 DEF ListInd, WalkFits, NoneAhead
    <3>8. QED  BY <3>5, <3>6, <3>7
  <2>6. Even(key) => Even(key')
    BY <1>1, <1>2 DEF Even, There
  <2>7. WalkFits'
    BY <1>2, <1>4, <2>3, <2>5, <2>6 DEF ListInd, WalkFits, NoneBehind, Even
  <2>8. NoneAgain' /\ NoItems' /\ NothingMissed'
    BY <1>4, <2>3 DEF ListInd, NoneAgain, Sorted, NoItems, NothingMissed, Busy
  <2>9. QED  BY <1>2, <2>2, <2>7, <2>8 DEF ListInd, ListTypeOK
<1>5. QED  BY <1>3, <1>4

LEMMA EditInd ==
    ASSUME ListInd, NEW x \in Rows, NEW v \in Rows, Edit(x, v)
    PROVE  ListInd'
<1>1. x \in There /\ key' = [key EXCEPT ![x] = v] /\ inserted' = inserted /\ ListTypeOK
  BY DEF Edit, ListInd
<1>2. /\ key' \in [Rows -> 0 .. MaxRows] /\ inserted' \in 0 .. MaxRows /\ NotYet' /\ There' = There
  BY <1>1, RowsAssumption DEF ListInd, ListTypeOK, NotYet, There, Rows
<1>3. CASE ~ Busy
  <2>1. walk' = walk
    BY <1>3 DEF Edit
  <2>2. ~ Busy'
    BY <1>3, <2>1 DEF Busy
  <2>3. QED
    BY <1>1, <1>2, <2>1, <2>2
       DEF ListInd, ListTypeOK, NoItems, NoneAgain, Sorted, NothingMissed
<1>4. CASE Busy
  <2>1. PICK e \in BOOLEAN, f \in BOOLEAN :
           e = (walk.even /\ Even(key')) /\ f = (walk.late \/ walk.pc = "rest")
    BY Zenon
  <2>2. walk' = [walk EXCEPT !.came = TRUE, !.left = TRUE, !.late = walk.late \/ walk.pc = "rest",
                             !.even = walk.even /\ Even(key')]
    BY <1>4, Zenon DEF Edit
  <2>3. walk' = [walk EXCEPT !.came = TRUE, !.left = TRUE, !.late = f, !.even = e]
    BY <2>1, <2>2, Zenon
  <2>4. walk' \in Walks
    BY <1>1, <2>3 DEF ListTypeOK, Walks
  <2>5. /\ walk'.came = TRUE /\ walk'.left = TRUE /\ walk'.even = e
        /\ UNCHANGED <<walk.pc, walk.first, walk.items, walk.all>>
    BY <1>1, <2>3 DEF ListTypeOK, Walks
  <2>6. WalkFits'
    BY <1>2, <1>4, <2>1, <2>5 DEF ListInd, WalkFits, NoneBehind, NoneAhead, Even
  <2>7. NoneAgain' /\ NoItems' /\ NothingMissed'
    BY <1>4, <2>5 DEF ListInd, NoneAgain, NoItems, NothingMissed, Busy
  <2>8. QED  BY <1>2, <2>4, <2>6, <2>7 DEF ListInd, ListTypeOK
<1>5. QED  BY <1>3, <1>4
LEMMA WalkBeginsInd ==
    ASSUME ListInd, NEW e \in Endpoints, NEW c \in {"kept", "free", "none"}, NEW d \in BothDirs,
           NEW l \in Limits, WalkBegins(e, c, d, l)
    PROVE  ListInd'
<1>1. ListTypeOK /\ UNCHANGED <<key, inserted>> /\ There' = There
  BY DEF ListInd, WalkBegins, There
<1>2. e.first \in {"rows", "number", "both"}
  BY DEF Endpoints, Endpoint, ConnectorList, OperatorList, LegalList, DiscountList, CarList,
         LikeList, NotificationList, PaymentList, PayoutList, TransactionList, PricingList,
         StatusLogList, SessionList, AdminSessionList, WalletList, StationList
<1>3. PICK f \in {"rows", "number", "both"} : f = e.first
  BY <1>2
<1>4. PICK w \in BOOLEAN : w = Even(key)
  BY Zenon DEF Even
<1>5. walk' = [Idle EXCEPT !.pc = "ask", !.column = c, !.dir = d, !.first = f,
                           !.limit = l, !.all = There, !.even = w]
  BY <1>3, <1>4, Zenon DEF WalkBegins
<1>6. /\ walk'.pc = "ask" /\ walk'.column = c /\ walk'.all = There /\ walk'.even = w
      /\ walk'.limit = l /\ walk'.page = 1 /\ walk'.items = {} /\ walk'.seen = {}
      /\ walk'.again = FALSE
  BY <1>5 DEF Idle
<1>7. walk' \in Walks
  <2>1. 1 \in 1 .. 2 * MaxRows + 1 /\ 0 \in 0 .. MaxRows /\ There \in SUBSET Rows
    BY RowsAssumption DEF There
  <2>2. QED  BY <1>5, <2>1 DEF Idle, Walks
<1>8. Upto' = 0
  <2>1. l \in Nat \ {0}
    BY RowsAssumption DEF Limits
  <2>2. Skip(1, l) = 0
    BY <2>1, PageEnds
  <2>3. QED  BY <1>6, <2>2 DEF Upto
<1>9. NoneBehind'
  <2>1. SUFFICES ASSUME NEW x \in There', Rank(x)' < 0 PROVE FALSE
    BY <1>1, <1>6, <1>8 DEF NoneBehind
  <2>2. Ahead(x)' \in SUBSET Rows
    BY DEF Ahead, There
  <2>3. QED  BY <2>1, <2>2, RowsFinite, RowsAssumption DEF Rank
<1>10. NoneAhead' /\ NoneAgain' /\ NoItems' /\ NothingMissed'
  BY <1>6 DEF NoneAhead, NoneAgain, NoItems, NothingMissed, Got
<1>11. WalkFits'
  BY <1>1, <1>4, <1>6, <1>9, <1>10 DEF WalkFits, Even
<1>12. QED
  BY <1>1, <1>7, <1>10, <1>11 DEF ListInd, ListTypeOK, NotYet

\* While rows and order stay, so do places.
LEMMA SamePlaces ==
    ASSUME ListTypeOK, walk.column # "none", walk'.column = walk.column, walk'.dir = walk.dir,
           key' = key, NEW x
    PROVE  There' = There /\ Rank(x)' = Rank(x)
<1>1. There' = There
  BY DEF There
<1>2. \A y : Before(y, x)' <=> Before(y, x)
  BY SameOrder
<1>3. Ahead(x)' = Ahead(x)
  BY <1>1, <1>2 DEF Ahead
<1>4. QED  BY <1>1, <1>3 DEF Rank

\* The last row has the highest place.
LEMMA PlacesEnd ==
    ASSUME ListTypeOK, Even(key), walk.column # "none", NEW x \in There
    PROVE  Rank(x) < Cardinality(There)
<1>1. Ahead(x) \subseteq There \ {x}
  BY Strict DEF Ahead
<1>2. There \ {x} \in SUBSET Rows /\ Cardinality(There \ {x}) = Cardinality(There) - 1
  BY Without, ListTypes
<1>3. Rank(x) <= Cardinality(There) - 1
  BY <1>1, <1>2, Smaller DEF Rank
<1>4. QED  BY <1>3, RankType, RowsFinite, ListTypes

\* The answer of a page: the rows up to its end are those he has then.
LEMMA AnsweredInd ==
    ASSUME ListInd, Busy, NEW items \in SUBSET Rows, NEW number \in 0 .. MaxRows,
           Answered(items, number), UNCHANGED <<key, inserted>>,
           Sorted /\ ~ walk.left => \A x \in walk.all :
               Rank(x) < walk.page * walk.limit => x \in walk.seen \cup items,
           Sorted /\ ~ walk.came => \A x \in (walk.seen \cup items) \cap There :
               Rank(x) < walk.page * walk.limit,
           Sorted /\ ~ walk.came => items \cap walk.seen = {},
           ~ walk.left /\ (walk.first = "number" => ~ walk.late) => number = Cardinality(There)
    PROVE  ListInd'
<1>1. ListTypeOK /\ There' = There /\ WalkFits /\ NotYet' /\ walk \in Walks
  BY DEF ListInd, There, NotYet, ListTypeOK
<1>2. PICK p \in Nat \ {0}, l \in Nat \ {0} : p = walk.page /\ l = walk.limit
  BY <1>1, ListTypes
<1>3. p * l \in Nat /\ Skip(p + 1, l) = p * l /\ p <= p * l
  BY PageEnds
<1>4. PICK g \in BOOLEAN : g = (walk.again \/ items \cap walk.seen # {})
  BY Zenon
<1>5. PICK got \in SUBSET Rows : got = walk.seen \cup items
  BY <1>1, ListTypes
<1>6. 0 \in 0 .. MaxRows /\ p \in 1 .. 2 * MaxRows + 1
  BY <1>1, <1>2, RowsAssumption DEF Walks
<1>7. CASE p * l >= number
  <2>1. walk' = [walk EXCEPT !.pc = "done", !.page = p, !.again = g, !.seen = got,
                             !.items = {}, !.number = 0, !.late = walk.late]
    BY <1>2, <1>4, <1>5, <1>7 DEF Answered
  <2>2. walk' \in Walks
    BY <1>1, <1>6, <2>1 DEF Walks
  <2>3. /\ walk'.pc = "done" /\ walk'.again = g /\ walk'.seen = got
        /\ walk'.items = {} /\ walk'.late = walk.late
        /\ UNCHANGED <<walk.column, walk.first, walk.all, walk.came, walk.left, walk.even>>
    BY <1>1, <2>1 DEF Walks
  <2>4. NothingMissed'
    <3>1. SUFFICES ASSUME Sorted, ~ walk.left, walk.first = "number" => ~ walk.late,
                          NEW x \in walk.all
                   PROVE  x \in got
      BY <2>3 DEF NothingMissed, Sorted
    <3>2. x \in There /\ Rank(x) < number
      BY <1>1, <3>1, PlacesEnd DEF Sorted, WalkFits
    <3>3. Rank(x) < p * l
      BY <1>1, <1>3, <1>7, <3>2, RankType, RowsAssumption
    <3>4. QED  BY <1>2, <1>5, <3>1, <3>3
  <2>5. NoneAgain'
    BY <1>4, <2>3 DEF ListInd, NoneAgain, Sorted
  <2>6. QED  BY <1>1, <2>2, <2>3, <2>4, <2>5 DEF ListInd, ListTypeOK, NoItems, Busy
<1>8. CASE p * l < number
  <2>1. ~ (walk.page * walk.limit >= number) /\ p + 1 \in 1 .. 2 * MaxRows + 1
    BY <1>2, <1>3, <1>8, RowsAssumption
  <2>2. walk' = [walk EXCEPT !.pc = "ask", !.page = p + 1, !.again = g, !.seen = got,
                             !.items = {}, !.number = 0, !.late = FALSE]
    BY <1>2, <1>4, <1>5, <2>1 DEF Answered
  <2>3. walk' \in Walks
    BY <1>1, <1>2, <1>6, <2>1, <2>2 DEF Walks
  <2>4. /\ walk'.pc = "ask" /\ walk'.again = g /\ walk'.seen = got
        /\ walk'.items = {} /\ walk'.page = p + 1 /\ walk'.limit = l
        /\ UNCHANGED <<walk.column, walk.dir, walk.all, walk.came, walk.left, walk.even>>
    BY <1>1, <1>2, <2>2 DEF Walks
  <2>5. Upto' = p * l /\ Got' = got /\ Sorted' = Sorted
    BY <1>3, <2>4 DEF Upto, Got, Sorted
  <2>6. Sorted => \A x : Rank(x)' = Rank(x)
    BY <1>1, <2>4, SamePlaces DEF Sorted
  <2>7. NoneBehind' /\ NoneAhead'
    BY <1>1, <1>2, <1>5, <2>4, <2>5, <2>6 DEF NoneBehind, NoneAhead
  <2>8. NoneAgain'
    BY <1>4, <2>4 DEF ListInd, NoneAgain, Sorted
  <2>9. WalkFits'
    BY <1>1, <2>4, <2>7 DEF WalkFits, Even
  <2>10. NoItems' /\ NothingMissed'
    BY <2>4 DEF NoItems, NothingMissed
  <2>11. QED  BY <1>1, <2>3, <2>8, <2>9, <2>10 DEF ListInd, ListTypeOK
<1>9. QED  BY <1>3, <1>7, <1>8, RowsAssumption
\* A query at page p: what the client has, with the page, are the rows up to its end.
LEMMA PageAdds ==
    ASSUME ListInd, Busy, walk.items = {}, Upto = Skip(walk.page, walk.limit),
           NEW items \in SUBSET There, IsPage(items)
    PROVE  /\ Sorted /\ ~ walk.left => \A x \in walk.all :
                  Rank(x) < walk.page * walk.limit => x \in walk.seen \cup items
           /\ Sorted /\ ~ walk.came => \A x \in (walk.seen \cup items) \cap There :
                  Rank(x) < walk.page * walk.limit
           /\ Sorted /\ ~ walk.came => items \cap walk.seen = {}
<1>1. ListTypeOK /\ WalkFits /\ Got = walk.seen
  BY DEF ListInd, Got
<1>2. PICK s \in Nat, e \in Nat : s = Skip(walk.page, walk.limit) /\ e = walk.page * walk.limit /\ s <= e
  <2>1. PICK p \in Nat \ {0}, l \in Nat \ {0} : p = walk.page /\ l = walk.limit
    BY <1>1, ListTypes
  <2>2. Skip(p, l) \in Nat /\ p * l \in Nat /\ Skip(p, l) + l = p * l
    BY PageEnds
  <2>3. Skip(p, l) <= p * l
    BY <2>2
  <2>4. QED  BY <2>1, <2>2, <2>3
<1>3. Sorted => items = {x \in There : s <= Rank(x) /\ Rank(x) < e}
  BY <1>1, <1>2, PageIs DEF Sorted, WalkFits
<1>4. Sorted /\ ~ walk.left => \A x \in walk.all : Rank(x) < s => x \in walk.seen
  BY <1>1, <1>2 DEF WalkFits, NoneBehind
<1>5. Sorted /\ ~ walk.came => \A x \in walk.seen \cap There : Rank(x) < s
  BY <1>1, <1>2 DEF WalkFits, NoneAhead
<1>6. walk.all \subseteq There /\ \A x : Rank(x) \in Nat
  BY <1>1, RankType DEF WalkFits
<1>7. ASSUME Sorted, ~ walk.left, NEW x \in walk.all, Rank(x) < e PROVE x \in walk.seen \cup items
  BY <1>2, <1>3, <1>4, <1>6, <1>7
<1>8. ASSUME Sorted, ~ walk.came, NEW x \in (walk.seen \cup items) \cap There PROVE Rank(x) < e
  BY <1>2, <1>3, <1>5, <1>6, <1>8
<1>9. ASSUME Sorted, ~ walk.came, NEW x \in items \cap walk.seen PROVE FALSE
  BY <1>2, <1>3, <1>5, <1>6, <1>9
<1>10. QED  BY <1>2, <1>7, <1>8, <1>9

LEMMA FirstStatementInd ==
    ASSUME ListInd, FirstStatement
    PROVE  ListInd'
<1>1. /\ ListTypeOK /\ UNCHANGED <<key, inserted>> /\ There' = There /\ Busy /\ walk.pc = "ask"
      /\ walk.items = {} /\ Upto = Skip(walk.page, walk.limit) /\ There \in SUBSET Rows
      /\ WalkFits /\ walk \in Walks /\ Cardinality(There) \in 0 .. MaxRows
  BY RowsFinite, ListTypes DEF ListInd, ListTypeOK, FirstStatement, Busy, NoItems, Upto, There
<1>2. ASSUME walk.first = "rows", NEW items \in SUBSET There, IsPage(items),
             walk' = [walk EXCEPT !.pc = "rest", !.items = items]
      PROVE  ListInd'
  <2>1. walk' \in Walks
    BY <1>1, <1>2 DEF Walks
  <2>2. /\ walk'.pc = "rest" /\ walk'.items = items
        /\ UNCHANGED <<walk.column, walk.dir, walk.first, walk.limit, walk.page, walk.number,
                       walk.all, walk.seen, walk.again, walk.came, walk.late, walk.left, walk.even>>
    BY <1>1, <1>2 DEF Walks
  <2>3. Upto' = walk.page * walk.limit /\ Got' = walk.seen \cup items /\ Sorted' = Sorted
    BY <1>2, <2>2 DEF Upto, Got, Sorted
  <2>4. Sorted => \A x : Rank(x)' = Rank(x)
    BY <1>1, <2>2, SamePlaces DEF Sorted
  <2>5. NoneBehind' /\ NoneAhead'
    BY <1>1, <1>2, <2>2, <2>3, <2>4, PageAdds DEF NoneBehind, NoneAhead
  <2>6. NoneAgain'
    BY <1>1, <1>2, <2>2, <2>3, PageAdds DEF ListInd, NoneAgain
  <2>7. WalkFits'
    BY <1>1, <1>2, <2>2, <2>5 DEF WalkFits, Even
  <2>8. NoItems' /\ NothingMissed' /\ NotYet'
    BY <1>1, <1>2, <2>2 DEF ListInd, NoItems, NothingMissed, NotYet
  <2>9. QED  BY <1>1, <2>1, <2>6, <2>7, <2>8 DEF ListInd, ListTypeOK
<1>3. ASSUME walk.first = "number", walk' = [walk EXCEPT !.pc = "rest", !.number = Cardinality(There)]
      PROVE  ListInd'
  <2>1. walk' \in Walks
    BY <1>1, <1>3 DEF Walks
  <2>2. /\ walk'.pc = "rest" /\ walk'.number = Cardinality(There)
        /\ UNCHANGED <<walk.column, walk.dir, walk.first, walk.limit, walk.page, walk.items,
                       walk.all, walk.seen, walk.again, walk.came, walk.late, walk.left, walk.even>>
    BY <1>1, <1>3 DEF Walks
  <2>3. Upto' = Upto /\ Got' = Got /\ Sorted' = Sorted
    BY <1>1, <1>3, <2>2 DEF Upto, Got, Sorted
  <2>4. Sorted => \A x : Rank(x)' = Rank(x)
    BY <1>1, <2>2, SamePlaces DEF Sorted
  <2>5. NoneBehind' /\ NoneAhead'
    BY <1>1, <2>2, <2>3, <2>4 DEF WalkFits, NoneBehind, NoneAhead
  <2>6. WalkFits'
    BY <1>1, <2>2, <2>5 DEF WalkFits, Even
  <2>7. NoneAgain' /\ NoItems' /\ NothingMissed' /\ NotYet'
    BY <1>1, <2>2, <2>3 DEF ListInd, NoneAgain, NoItems, NothingMissed, NotYet
  <2>8. QED  BY <1>1, <2>1, <2>6, <2>7 DEF ListInd, ListTypeOK
<1>4. ASSUME walk.first = "both", NEW items \in SUBSET There, IsPage(items),
             Answered(items, Cardinality(There))
      PROVE  ListInd'
  <2>1. items \in SUBSET Rows
    BY <1>1
  <2>2. PICK number \in 0 .. MaxRows : number = Cardinality(There)
    BY <1>1
  <2>3. Answered(items, number)
    BY <1>4, <2>2
  <2>4. /\ Sorted /\ ~ walk.left => \A x \in walk.all :
               Rank(x) < walk.page * walk.limit => x \in walk.seen \cup items
        /\ Sorted /\ ~ walk.came => \A x \in (walk.seen \cup items) \cap There :
               Rank(x) < walk.page * walk.limit
        /\ Sorted /\ ~ walk.came => items \cap walk.seen = {}
    BY <1>1, <1>4, PageAdds
  <2>5. QED  BY <1>1, <2>1, <2>2, <2>3, <2>4, AnsweredInd
<1>5. QED  BY <1>2, <1>3, <1>4 DEF FirstStatement

LEMMA SecondStatementInd ==
    ASSUME ListInd, SecondStatement
    PROVE  ListInd'
<1>1. /\ ListTypeOK /\ UNCHANGED <<key, inserted>> /\ Busy /\ walk.pc = "rest" /\ WalkFits
      /\ There \in SUBSET Rows /\ Cardinality(There) \in 0 .. MaxRows /\ walk \in Walks
      /\ walk.items \in SUBSET Rows /\ walk.number \in 0 .. MaxRows
  BY RowsFinite, ListTypes DEF ListInd, ListTypeOK, SecondStatement, Busy, There
<1>2. ASSUME walk.first = "rows", Answered(walk.items, Cardinality(There)) PROVE ListInd'
  <2>1. PICK items \in SUBSET Rows, number \in 0 .. MaxRows :
           items = walk.items /\ number = Cardinality(There)
    BY <1>1
  <2>2. Upto = walk.page * walk.limit /\ Got = walk.seen \cup items
    BY <1>1, <1>2, <2>1 DEF Upto, Got
  <2>3. /\ Sorted /\ ~ walk.left => \A x \in walk.all :
               Rank(x) < walk.page * walk.limit => x \in walk.seen \cup items
        /\ Sorted /\ ~ walk.came => \A x \in (walk.seen \cup items) \cap There :
               Rank(x) < walk.page * walk.limit
        /\ Sorted /\ ~ walk.came => items \cap walk.seen = {}
    BY <1>1, <2>1, <2>2 DEF ListInd, WalkFits, NoneBehind, NoneAhead, NoneAgain
  <2>4. Answered(items, number)
    BY <1>2, <2>1
  <2>5. QED  BY <1>1, <2>1, <2>3, <2>4, AnsweredInd
<1>3. ASSUME walk.first = "number", NEW items \in SUBSET There, IsPage(items),
             Answered(items, walk.number)
      PROVE  ListInd'
  <2>1. items \in SUBSET Rows
    BY <1>1
  <2>2. PICK number \in 0 .. MaxRows : number = walk.number
    BY <1>1
  <2>3. walk.items = {} /\ Upto = Skip(walk.page, walk.limit)
    BY <1>1, <1>3 DEF ListInd, NoItems, Upto
  <2>4. /\ Sorted /\ ~ walk.left => \A x \in walk.all :
               Rank(x) < walk.page * walk.limit => x \in walk.seen \cup items
        /\ Sorted /\ ~ walk.came => \A x \in (walk.seen \cup items) \cap There :
               Rank(x) < walk.page * walk.limit
        /\ Sorted /\ ~ walk.came => items \cap walk.seen = {}
    BY <1>1, <1>3, <2>3, PageAdds
  <2>5. ~ walk.left /\ (walk.first = "number" => ~ walk.late) => number = Cardinality(There)
    BY <1>1, <1>3, <2>2 DEF WalkFits
  <2>6. Answered(items, number)
    BY <1>3, <2>2
  <2>7. QED  BY <1>1, <2>1, <2>4, <2>5, <2>6, AnsweredInd
<1>4. QED  BY <1>2, <1>3 DEF SecondStatement

\* Who reads a list page after page misses nothing that is there all the time, if rows only
\* come, and gets nothing twice, if rows only go (the list methods, with skip, take and
\* orderBy): for any number of rows, any size of page and any column without ties.
THEOREM ListsArePagedThrough == ListSpec => []ListInv
<1>1. ASSUME ListInd, [ListNext]_listVars PROVE ListInd'
  <2>1. CASE UNCHANGED listVars
    <3>1. There' = There /\ Upto' = Upto /\ Got' = Got /\ Sorted' = Sorted /\ walk' = walk
      BY <2>1 DEF listVars, There, Upto, Got, Sorted
    <3>2. Sorted => \A x : Rank(x)' = Rank(x)
      BY <1>1, <2>1, SamePlaces DEF listVars, Sorted, ListInd
    <3>3. Busy => NoneBehind' /\ NoneAhead'
      BY <1>1, <3>1, <3>2 DEF ListInd, WalkFits, NoneBehind, NoneAhead
    <3>4. QED
      BY <1>1, <2>1, <3>1, <3>3
         DEF listVars, ListInd, ListTypeOK, NotYet, NoItems, Busy, WalkFits, Even, NoneAgain,
             NothingMissed
  <2>2. CASE ListNext
    BY <1>1, <2>2, InsertInd, DeleteInd, EditInd, WalkBeginsInd, FirstStatementInd,
       SecondStatementInd
       DEF ListNext
  <2>3. QED  BY <1>1, <2>1, <2>2
<1>2. ListInd => ListInv
  BY DEF ListInd, ListInv, NoneAgain, NothingTwice, Sorted
<1>3. QED  BY <1>1, <1>2, ListInitInd, PTL DEF ListSpec
-----------------------------------------------------------------------------
(* Routing.                                                                *)

GuardNames == {"jwt", "optional", "roles"}

IsList(s) == \E S : s \in Seq(S)

IsRoute(r) ==
    /\ r = [method |-> r.method, path |-> r.path, roles |-> r.roles, caller |-> r.caller,
            guards |-> r.guards]
    /\ IsList(r.path)

\* The path that a pattern suggests.
OwnPath(path) == [i \in 1 .. Len(path) |-> IF path[i] \in Parameters THEN "7" ELSE path[i]]

\* Whether the second route never gets the requests it is meant for.
Hides(a, b) == a.method = b.method /\ Fits(a.path, OwnPath(b.path))

Ordered(s) == \A j \in 1 .. Len(s) : \A i \in 1 .. j - 1 : ~ Hides(s[i], s[j])

\* Whether a route with these guards lets an administrator pass, and nobody without a
\* token if it reads the user.
GuardsFit(guards, roles, caller) ==
    /\ guards \in Seq(GuardNames)
    /\ Len(guards) \in 0 .. 3
    /\ \A g \in 1 .. Len(guards) :
           guards[g] = "roles" =>
               roles = {} \/ ("ADMIN" \in roles /\ \E h \in 1 .. g - 1 : guards[h] = "jwt")
    /\ caller => \E g \in 1 .. Len(guards) : guards[g] = "jwt"

\* A route of a controller with these guards.
Drafted(r, guards) ==
    /\ IsRoute(r)
    /\ GuardsFit(guards \o r.guards, r.roles, r.caller)

RouteOK(r, prefixes) ==
    /\ IsList(r.path)
    /\ Len(r.path) # 0
    /\ r.path[1] \in prefixes
    /\ GuardsFit(r.guards, r.roles, r.caller)

TableOK(s, prefixes) ==
    /\ IsList(s)
    /\ \A i \in 1 .. Len(s) : RouteOK(s[i], prefixes)
    /\ Ordered(s)

LEMMA ShortLists ==
    /\ IsList(<<>>)
    /\ \A a : IsList(<<a>>)
    /\ \A a, b : IsList(<<a, b>>)
    /\ \A a, b, c : IsList(<<a, b, c>>)
<1>1. <<>> \in Seq({})
  OBVIOUS
<1>2. ASSUME NEW a PROVE <<a>> \in Seq({a})
  OBVIOUS
<1>3. ASSUME NEW a, NEW b PROVE <<a, b>> \in Seq({a, b})
  OBVIOUS
<1>4. ASSUME NEW a, NEW b, NEW c PROVE <<a, b, c>> \in Seq({a, b, c})
  OBVIOUS
<1> QED
  BY <1>1, <1>2, <1>3, <1>4 DEF IsList

LEMMA Prefixed ==
    ASSUME NEW prefix, NEW s, IsList(s)
    PROVE  LET p == <<prefix>> \o s IN
           /\ IsList(p)
           /\ Len(s) \in Nat
           /\ Len(p) = Len(s) + 1
           /\ p[1] = prefix
           /\ \A i \in 1 .. Len(s) : p[i + 1] = s[i]
<1>1. PICK S : s \in Seq(S)
  BY DEF IsList
<1> DEFINE T == S \cup {prefix}
<1>2. s \in Seq(T) /\ <<prefix>> \in Seq(T)
  BY <1>1
<1>3. <<prefix>> \o s \in Seq(T)
  BY <1>2, ConcatProperties
<1>4. Len(<<prefix>>) = 1 /\ <<prefix>>[1] = prefix
  OBVIOUS
<1>5. Len(s) \in Nat
  BY <1>2, LenProperties
<1>6. Len(<<prefix>> \o s) = Len(s) + 1
  BY <1>2, <1>4, <1>5, ConcatProperties
<1>7. (<<prefix>> \o s)[1] = prefix
  BY <1>2, <1>4, <1>5, ConcatProperties
<1>8. \A i \in 1 .. Len(s) : (<<prefix>> \o s)[i + 1] = s[i]
  <2> TAKE i \in 1 .. Len(s)
  <2>1. i + 1 > 1 /\ i + 1 <= 1 + Len(s) /\ (i + 1) - 1 = i /\ i + 1 \in Nat
    BY <1>5
  <2> QED
    BY <2>1, <1>2, <1>4, <1>5, ConcatProperties
<1> QED
  BY <1>3, <1>5, <1>6, <1>7, <1>8 DEF IsList

LEMMA HidesBehindPrefix ==
    ASSUME NEW prefix, prefix \notin Parameters,
           NEW a, IsList(a), NEW b, IsList(b),
           Fits(<<prefix>> \o a, OwnPath(<<prefix>> \o b))
    PROVE  Fits(a, OwnPath(b))
<1> DEFINE p == <<prefix>> \o a
           q == <<prefix>> \o b
<1>1. /\ Len(a) \in Nat /\ Len(p) = Len(a) + 1
      /\ \A i \in 1 .. Len(a) : p[i + 1] = a[i]
  BY Prefixed
<1>2. /\ Len(b) \in Nat /\ Len(q) = Len(b) + 1
      /\ \A i \in 1 .. Len(b) : q[i + 1] = b[i]
  BY Prefixed
<1>3. Len(OwnPath(q)) = Len(b) + 1 /\ Len(OwnPath(b)) = Len(b)
  BY <1>2 DEF OwnPath
<1>4. Fits(p, OwnPath(q))
  OBVIOUS
<1> HIDE DEF p, q
<1>5. Len(a) = Len(b)
  BY <1>1, <1>3, <1>4 DEF Fits
<1>6. ASSUME NEW i \in 1 .. Len(b)
      PROVE  a[i] \in Parameters \/ a[i] = OwnPath(b)[i]
  <2>1. i + 1 \in 1 .. Len(b) + 1
    BY <1>2
  <2>2. p[i + 1] \in Parameters \/ p[i + 1] = OwnPath(q)[i + 1]
    BY <2>1, <1>3, <1>4 DEF Fits
  <2>3. OwnPath(q)[i + 1] = IF q[i + 1] \in Parameters THEN "7" ELSE q[i + 1]
    BY <2>1, <1>2 DEF OwnPath
  <2>4. OwnPath(b)[i] = IF b[i] \in Parameters THEN "7" ELSE b[i]
    BY DEF OwnPath
  <2>5. p[i + 1] = a[i] /\ q[i + 1] = b[i]
    BY <1>1, <1>2, <1>5
  <2> QED
    BY <2>2, <2>3, <2>4, <2>5
<1> QED
  BY <1>3, <1>5, <1>6 DEF Fits
\* A controller adds its prefix and its guards to its routes.
LEMMA ControllerOK ==
    ASSUME NEW prefix, prefix \notin Parameters, NEW guards, NEW routes, IsList(routes),
           \A i \in 1 .. Len(routes) : Drafted(routes[i], guards),
           Ordered(routes)
    PROVE  TableOK(Controller(prefix, guards, routes), {prefix})
<1> DEFINE s == Controller(prefix, guards, routes)
<1>1. Len(routes) \in Nat
  <2>1. PICK S : routes \in Seq(S)
    BY DEF IsList
  <2> QED
    BY <2>1, LenProperties
<1>2. /\ IsList(s)
      /\ Len(s) = Len(routes)
      /\ \A i \in 1 .. Len(routes) :
             s[i] = With(guards, [routes[i] EXCEPT !.path = <<prefix>> \o @])
  <2> DEFINE S == {s[i] : i \in 1 .. Len(routes)}
  <2>1. s \in Seq(S)
    <3> DEFINE F(i) == With(guards, [routes[i] EXCEPT !.path = <<prefix>> \o @])
    <3>1. s = [i \in 1 .. Len(routes) |-> F(i)]
      BY DEF Controller
    <3>2. S = {F(i) : i \in 1 .. Len(routes)}
      BY <3>1
    <3> HIDE DEF s, S, F
    <3>3. s \in [1 .. Len(routes) -> S]
      BY <3>1, <3>2
    <3> QED
      BY <3>3, <1>1
  <2>2. Len(s) = Len(routes)
    BY <1>1 DEF Controller
  <2> QED
    BY <2>1, <2>2 DEF Controller, IsList
<1>3. ASSUME NEW i \in 1 .. Len(routes)
      PROVE  /\ s[i].method = routes[i].method
             /\ s[i].path = <<prefix>> \o routes[i].path
             /\ s[i].roles = routes[i].roles
             /\ s[i].caller = routes[i].caller
             /\ s[i].guards = guards \o routes[i].guards
  <2> DEFINE p == <<prefix>> \o routes[i].path
  <2>1. IsRoute(routes[i])
    BY DEF Drafted
  <2>2. s[i] = With(guards, [routes[i] EXCEPT !.path = p])
    BY <1>2
  <2>3. PICK r : r = routes[i]
    OBVIOUS
  <2>4. r = [method |-> r.method, path |-> r.path, roles |-> r.roles, caller |-> r.caller,
             guards |-> r.guards]
    BY <2>1, <2>3 DEF IsRoute
  <2> HIDE DEF p
  <2>5. PICK x : x = s[i]
    OBVIOUS
  <2>6. x = With(guards, [r EXCEPT !.path = p])
    BY <2>2, <2>3, <2>5
  <2>7. /\ x.method = r.method
        /\ x.path = p
        /\ x.roles = r.roles
        /\ x.caller = r.caller
        /\ x.guards = guards \o r.guards
    BY <2>4, <2>6 DEF With
  <2> QED
    BY <2>3, <2>5, <2>7 DEF p
<1> HIDE DEF s
<1>4. ASSUME NEW i \in 1 .. Len(s) PROVE RouteOK(s[i], {prefix})
  <2>1. i \in 1 .. Len(routes)
    BY <1>2
  <2>2. /\ IsList(routes[i].path)
        /\ GuardsFit(guards \o routes[i].guards, routes[i].roles, routes[i].caller)
    BY <2>1 DEF Drafted, IsRoute
  <2>3. s[i].path = <<prefix>> \o routes[i].path
    BY <2>1, <1>3
  <2>4. PICK p : p = <<prefix>> \o routes[i].path
    OBVIOUS
  <2>5. IsList(p) /\ Len(p) # 0 /\ p[1] = prefix
    BY <2>2, <2>4, Prefixed
  <2>6. IsList(s[i].path) /\ Len(s[i].path) # 0 /\ s[i].path[1] = prefix
    BY <2>3, <2>4, <2>5
  <2> QED
    BY <2>1, <2>2, <2>6, <1>3 DEF RouteOK
<1>5. ASSUME NEW j \in 1 .. Len(s), NEW i \in 1 .. j - 1, Hides(s[i], s[j]) PROVE FALSE
  <2>1. i \in 1 .. Len(routes) /\ j \in 1 .. Len(routes)
    BY <1>1, <1>2
  <2>2. IsList(routes[i].path) /\ IsList(routes[j].path)
    BY <2>1 DEF Drafted, IsRoute
  <2>3. /\ routes[i].method = routes[j].method
        /\ Fits(<<prefix>> \o routes[i].path, OwnPath(<<prefix>> \o routes[j].path))
    BY <2>1, <1>3, <1>5 DEF Hides
  <2>4. Fits(routes[i].path, OwnPath(routes[j].path))
    BY <2>2, <2>3, HidesBehindPrefix
  <2> QED
    BY <2>1, <2>3, <2>4 DEF Ordered, Hides
<1> QED
  BY <1>2, <1>4, <1>5 DEF TableOK, Ordered, s

\* Controllers with other prefixes hide nothing from each other.
LEMMA Joined ==
    ASSUME NEW P, NEW Q, P \cap Q = {}, P \cap Parameters = {}, Q \cap Parameters = {},
           NEW s, TableOK(s, P), NEW t, TableOK(t, Q)
    PROVE  TableOK(s \o t, P \cup Q)
<1>1. PICK S : s \in Seq(S)
  BY DEF TableOK, IsList
<1>2. PICK T : t \in Seq(T)
  BY DEF TableOK, IsList
<1> DEFINE U == S \cup T
           w == s \o t
<1>3. s \in Seq(U) /\ t \in Seq(U)
  BY <1>1, <1>2
<1>4. Len(s) \in Nat /\ Len(t) \in Nat
  BY <1>3, LenProperties
<1>5. /\ w \in Seq(U)
      /\ Len(w) = Len(s) + Len(t)
      /\ \A i \in 1 .. Len(s) + Len(t) : w[i] = IF i <= Len(s) THEN s[i] ELSE t[i - Len(s)]
  BY <1>3, ConcatProperties
<1> HIDE DEF w
<1>6. ASSUME NEW i \in 1 .. Len(w)
      PROVE  \/ i \in 1 .. Len(s) /\ w[i] = s[i]
             \/ i > Len(s) /\ i - Len(s) \in 1 .. Len(t) /\ w[i] = t[i - Len(s)]
  BY <1>4, <1>5
<1>7. ASSUME NEW i \in 1 .. Len(w) PROVE RouteOK(w[i], P \cup Q)
  <2>1. CASE i \in 1 .. Len(s) /\ w[i] = s[i]
    BY <2>1 DEF TableOK, RouteOK
  <2>2. CASE i > Len(s) /\ i - Len(s) \in 1 .. Len(t) /\ w[i] = t[i - Len(s)]
    BY <2>2 DEF TableOK, RouteOK
  <2> QED
    BY <1>6, <2>1, <2>2
<1>8. ASSUME NEW j \in 1 .. Len(w), NEW i \in 1 .. j - 1, Hides(w[i], w[j]) PROVE FALSE
  <2>1. i \in 1 .. Len(w) /\ i < j
    BY <1>4, <1>5
  <2>2. CASE j \in 1 .. Len(s) /\ w[j] = s[j]
    <3>1. i \in 1 .. Len(s) /\ w[i] = s[i]
      BY <2>1, <2>2, <1>4, <1>6
    <3> QED
      BY <3>1, <2>2, <1>8 DEF TableOK, Ordered
  <2>3. CASE j > Len(s) /\ j - Len(s) \in 1 .. Len(t) /\ w[j] = t[j - Len(s)]
    <3>1. CASE i \in 1 .. Len(s) /\ w[i] = s[i]
      <4>1. RouteOK(s[i], P) /\ RouteOK(t[j - Len(s)], Q)
        BY <2>3, <3>1 DEF TableOK
      <4> DEFINE a == s[i].path
                 b == t[j - Len(s)].path
      <4>2. Len(b) \in Nat \ {0}
        <5>1. PICK B : b \in Seq(B)
          BY <4>1 DEF RouteOK, IsList
        <5> QED
          BY <5>1, <4>1, LenProperties DEF RouteOK
      <4>3. a[1] \in P /\ b[1] \in Q
        BY <4>1 DEF RouteOK
      <4>4. Fits(a, OwnPath(b))
        BY <2>3, <3>1, <1>8 DEF Hides
      <4> HIDE DEF a, b
      <4>5. Len(OwnPath(b)) = Len(b) /\ OwnPath(b)[1] = b[1]
        BY <4>2, <4>3 DEF OwnPath
      <4>6. a[1] \in Parameters \/ a[1] = b[1]
        BY <4>2, <4>4, <4>5 DEF Fits
      <4> QED
        BY <4>3, <4>6
    <3>2. CASE i > Len(s) /\ i - Len(s) \in 1 .. Len(t) /\ w[i] = t[i - Len(s)]
      <4>1. i - Len(s) \in 1 .. (j - Len(s)) - 1
        BY <3>2, <2>1, <2>3, <1>4
      <4> QED
        BY <4>1, <3>2, <2>3, <1>8 DEF TableOK, Ordered
    <3> QED
      BY <2>1, <1>6, <3>1, <3>2
  <2> QED
    BY <1>6, <2>2, <2>3
<1> QED
  BY <1>5, <1>7, <1>8 DEF TableOK, IsList, Ordered, w
LEMMA GuardLists ==
    /\ \A roles : GuardsFit(<<>>, roles, FALSE)
    /\ \A roles : GuardsFit(<<"optional">>, roles, FALSE)
    /\ \A roles : \A caller \in BOOLEAN : GuardsFit(Jwt, roles, caller)
    /\ \A roles : \A caller \in BOOLEAN :
           roles = {} \/ "ADMIN" \in roles => GuardsFit(JwtRoles, roles, caller)
<1>1. ASSUME NEW roles PROVE GuardsFit(<<>>, roles, FALSE)
  BY DEF GuardsFit, GuardNames
<1>2. ASSUME NEW roles PROVE GuardsFit(<<"optional">>, roles, FALSE)
  BY DEF GuardsFit, GuardNames
<1>3. ASSUME NEW roles, NEW caller \in BOOLEAN PROVE GuardsFit(Jwt, roles, caller)
  BY DEF GuardsFit, GuardNames, Jwt
<1>4. ASSUME NEW roles, NEW caller \in BOOLEAN, roles = {} \/ "ADMIN" \in roles
      PROVE  GuardsFit(JwtRoles, roles, caller)
  <2>1. JwtRoles \in Seq(GuardNames) /\ Len(JwtRoles) = 2
    BY DEF GuardNames, JwtRoles
  <2>2. JwtRoles[1] = "jwt" /\ JwtRoles[2] = "roles"
    BY DEF JwtRoles
  <2> QED
    BY <2>1, <2>2, <1>4 DEF GuardsFit
<1> QED
  BY <1>1, <1>2, <1>3, <1>4

LEMMA GuardsJoined ==
    /\ <<>> \o <<>> = <<>>
    /\ Jwt \o <<>> = Jwt /\ <<>> \o Jwt = Jwt
    /\ JwtRoles \o <<>> = JwtRoles /\ <<>> \o JwtRoles = JwtRoles
    /\ <<"optional">> \o <<>> = <<"optional">> /\ <<>> \o <<"optional">> = <<"optional">>
    /\ <<"roles">> \o <<>> = <<"roles">>
    /\ Jwt \o <<"roles">> = JwtRoles
<1>1. /\ Jwt \in Seq(GuardNames) /\ JwtRoles \in Seq(GuardNames)
      /\ <<"optional">> \in Seq(GuardNames) /\ <<"roles">> \in Seq(GuardNames)
      /\ <<>> \in Seq(GuardNames)
  BY DEF GuardNames, Jwt, JwtRoles
<1>2. \A g \in Seq(GuardNames) : g \o <<>> = g /\ <<>> \o g = g
  BY ConcatEmptySeq
<1>3. Jwt \o <<"roles">> = JwtRoles
  <2> DEFINE g == Jwt \o <<"roles">>
  <2>1. Len(Jwt) = 1 /\ Len(<<"roles">>) = 1 /\ Len(JwtRoles) = 2
    BY DEF Jwt, JwtRoles
  <2>2. g \in Seq(GuardNames) /\ Len(g) = 2
    BY <1>1, <2>1, ConcatProperties
  <2>3. g[1] = Jwt[1] /\ g[2] = <<"roles">>[1]
    <3>1. \A i \in 1 .. 2 : g[i] = IF i <= 1 THEN Jwt[i] ELSE <<"roles">>[i - 1]
      BY <1>1, <2>1, ConcatProperties
    <3> HIDE DEF g
    <3> QED
      BY <3>1
  <2> HIDE DEF g
  <2>4. Jwt[1] = JwtRoles[1] /\ <<"roles">>[1] = JwtRoles[2]
    BY DEF Jwt, JwtRoles
  <2>5. g = JwtRoles
    BY <1>1, <2>1, <2>2, <2>3, <2>4, SeqEqual
  <2> QED
    BY <2>5 DEF g
<1> QED
  BY <1>1, <1>2, <1>3

\* The routes of the table, in the controllers they can be in.
LEMMA Drafts ==
    ASSUME NEW m, NEW p, IsList(p)
    PROVE  /\ Drafted(Plain(m, p), <<>>)
           /\ Drafted(Plain(m, p), Jwt)
           /\ Drafted(Plain(m, p), JwtRoles)
           /\ Drafted(Admins(m, p), <<>>)
           /\ Drafted(Admins(m, p), JwtRoles)
           /\ Drafted(Mine(m, p), Jwt)
           /\ Drafted(Mine(m, p), JwtRoles)
           /\ Drafted(Users(m, p), JwtRoles)
           /\ Drafted(Route(m, p, {"ADMIN"}, TRUE), JwtRoles)
           /\ Drafted(With(<<"optional">>, Plain(m, p)), <<>>)
           /\ Drafted(With(Jwt, Mine(m, p)), <<>>)
           /\ Drafted(With(JwtRoles, Admins(m, p)), <<>>)
           /\ Drafted(With(<<"roles">>, Admins(m, p)), Jwt)
<1>1. ASSUME NEW roles, NEW caller \in BOOLEAN
      PROVE  LET r == Route(m, p, roles, caller) IN
             /\ IsRoute(r) /\ r.roles = roles /\ r.caller = caller /\ r.guards = <<>>
  BY DEF Route, IsRoute
<1>2. ASSUME NEW r, IsRoute(r), NEW g, NEW before, NEW guards, r.guards = g,
             before \o g = guards, GuardsFit(guards, r.roles, r.caller)
      PROVE  Drafted(r, before)
  BY <1>2 DEF Drafted
<1>3. ASSUME NEW roles
      PROVE  Drafted(Route(m, p, roles, FALSE), <<>>)
  <2>1. PICK r : r = Route(m, p, roles, FALSE)
    OBVIOUS
  <2>2. IsRoute(r) /\ r.guards = <<>> /\ r.roles = roles /\ r.caller = FALSE
    BY <1>1, <2>1
  <2>3. GuardsFit(<<>>, r.roles, r.caller)
    BY <2>2, GuardLists
  <2> QED
    BY <2>1, <2>2, <2>3, <1>2, GuardsJoined
<1>4. ASSUME NEW roles, NEW caller \in BOOLEAN
      PROVE  Drafted(Route(m, p, roles, caller), Jwt)
  <2>1. PICK r : r = Route(m, p, roles, caller)
    OBVIOUS
  <2>2. IsRoute(r) /\ r.guards = <<>> /\ r.caller \in BOOLEAN
    BY <1>1, <2>1
  <2>3. GuardsFit(Jwt, r.roles, r.caller)
    BY <2>2, GuardLists
  <2> QED
    BY <2>1, <2>2, <2>3, <1>2, GuardsJoined
<1>5. ASSUME NEW roles, NEW caller \in BOOLEAN, roles = {} \/ "ADMIN" \in roles
      PROVE  Drafted(Route(m, p, roles, caller), JwtRoles)
  <2>1. PICK r : r = Route(m, p, roles, caller)
    OBVIOUS
  <2>2. IsRoute(r) /\ r.guards = <<>> /\ r.roles = roles /\ r.caller \in BOOLEAN
    BY <1>1, <2>1
  <2>3. GuardsFit(JwtRoles, r.roles, r.caller)
    BY <2>2, <1>5, GuardLists
  <2> QED
    BY <2>1, <2>2, <2>3, <1>2, GuardsJoined
<1>6. Drafted(With(<<"optional">>, Route(m, p, {}, FALSE)), <<>>)
  <2>1. PICK r : r = With(<<"optional">>, Route(m, p, {}, FALSE))
    OBVIOUS
  <2>2. IsRoute(r) /\ r.guards = <<"optional">> \o <<>> /\ r.caller = FALSE
    BY <2>1 DEF With, Route, IsRoute
  <2>3. GuardsFit(<<"optional">>, r.roles, r.caller)
    BY <2>2, GuardLists
  <2> QED
    BY <2>1, <2>2, <2>3, <1>2, GuardsJoined
<1>7. Drafted(With(Jwt, Route(m, p, {}, TRUE)), <<>>)
  <2>1. PICK r : r = With(Jwt, Route(m, p, {}, TRUE))
    OBVIOUS
  <2>2. IsRoute(r) /\ r.guards = Jwt \o <<>> /\ r.caller = TRUE
    BY <2>1 DEF With, Route, IsRoute
  <2>3. GuardsFit(Jwt, r.roles, r.caller)
    BY <2>2, GuardLists
  <2>4. r.guards = Jwt /\ <<>> \o Jwt = Jwt
    BY <2>2, GuardsJoined
  <2> QED
    BY <2>1, <2>2, <2>3, <2>4, <1>2
<1>8. Drafted(With(JwtRoles, Route(m, p, {"ADMIN"}, FALSE)), <<>>)
  <2>1. PICK r : r = With(JwtRoles, Route(m, p, {"ADMIN"}, FALSE))
    OBVIOUS
  <2>2. /\ IsRoute(r) /\ r.guards = JwtRoles \o <<>>
        /\ r.roles = {"ADMIN"} /\ r.caller = FALSE
    BY <2>1 DEF With, Route, IsRoute
  <2>3. GuardsFit(JwtRoles, r.roles, r.caller)
    BY <2>2, GuardLists
  <2>4. r.guards = JwtRoles /\ <<>> \o JwtRoles = JwtRoles
    BY <2>2, GuardsJoined
  <2> QED
    BY <2>1, <2>2, <2>3, <2>4, <1>2
<1>9. Drafted(With(<<"roles">>, Route(m, p, {"ADMIN"}, FALSE)), Jwt)
  <2>1. PICK r : r = With(<<"roles">>, Route(m, p, {"ADMIN"}, FALSE))
    OBVIOUS
  <2>2. /\ IsRoute(r) /\ r.guards = <<"roles">> \o <<>>
        /\ r.roles = {"ADMIN"} /\ r.caller = FALSE
    BY <2>1 DEF With, Route, IsRoute
  <2>3. GuardsFit(JwtRoles, r.roles, r.caller)
    BY <2>2, GuardLists
  <2>4. r.guards = <<"roles">> /\ Jwt \o <<"roles">> = JwtRoles
    BY <2>2, GuardsJoined
  <2> QED
    BY <2>1, <2>2, <2>3, <2>4, <1>2
<1>10. "ADMIN" \in {"ADMIN"} /\ "ADMIN" \in {"USER", "ADMIN"}
  OBVIOUS
<1>11. /\ Drafted(Plain(m, p), <<>>)
       /\ Drafted(Plain(m, p), Jwt)
       /\ Drafted(Plain(m, p), JwtRoles)
  BY <1>3, <1>4, <1>5 DEF Plain
<1>12. Drafted(Admins(m, p), <<>>) /\ Drafted(Admins(m, p), JwtRoles)
  BY <1>3, <1>5, <1>10 DEF Admins
<1>13. Drafted(Mine(m, p), Jwt) /\ Drafted(Mine(m, p), JwtRoles)
  BY <1>4, <1>5 DEF Mine
<1>14. Drafted(Users(m, p), JwtRoles) /\ Drafted(Route(m, p, {"ADMIN"}, TRUE), JwtRoles)
  BY <1>5, <1>10 DEF Users
<1> QED
  BY <1>6, <1>7, <1>8, <1>9, <1>11, <1>12, <1>13, <1>14 DEF Plain, Mine, Admins
\* Lists as long as those of the controllers.
LEMMA LongLists ==
    /\ \A a, b : IsList(<<a, b>>) /\ Len(<<a, b>>) = 2
    /\ \A a, b, c : IsList(<<a, b, c>>) /\ Len(<<a, b, c>>) = 3
    /\ \A a, b, c, d : IsList(<<a, b, c, d>>) /\ Len(<<a, b, c, d>>) = 4
    /\ \A a, b, c, d, e : IsList(<<a, b, c, d, e>>) /\ Len(<<a, b, c, d, e>>) = 5
    /\ \A a, b, c, d, e, f : IsList(<<a, b, c, d, e, f>>) /\ Len(<<a, b, c, d, e, f>>) = 6
    /\ \A a, b, c, d, e, f, g :
           IsList(<<a, b, c, d, e, f, g>>) /\ Len(<<a, b, c, d, e, f, g>>) = 7
    /\ \A a, b, c, d, e, f, g, h :
           IsList(<<a, b, c, d, e, f, g, h>>) /\ Len(<<a, b, c, d, e, f, g, h>>) = 8
    /\ \A a, b, c, d, e, f, g, h, i, j :
           IsList(<<a, b, c, d, e, f, g, h, i, j>>) /\ Len(<<a, b, c, d, e, f, g, h, i, j>>) = 10
<1>1. ASSUME NEW a, NEW b
      PROVE  IsList(<<a, b>>) /\ Len(<<a, b>>) = 2
  <2>1. <<a, b>> \in Seq({a, b})
    OBVIOUS
  <2> QED
    BY <2>1 DEF IsList
<1>2. ASSUME NEW a, NEW b, NEW c
      PROVE  IsList(<<a, b, c>>) /\ Len(<<a, b, c>>) = 3
  <2>1. <<a, b, c>> \in Seq({a, b, c})
    OBVIOUS
  <2> QED
    BY <2>1 DEF IsList
<1>3. ASSUME NEW a, NEW b, NEW c, NEW d
      PROVE  IsList(<<a, b, c, d>>) /\ Len(<<a, b, c, d>>) = 4
  <2>1. <<a, b, c, d>> \in Seq({a, b, c, d})
    OBVIOUS
  <2> QED
    BY <2>1 DEF IsList
<1>4. ASSUME NEW a, NEW b, NEW c, NEW d, NEW e
      PROVE  IsList(<<a, b, c, d, e>>) /\ Len(<<a, b, c, d, e>>) = 5
  <2>1. <<a, b, c, d, e>> \in Seq({a, b, c, d, e})
    OBVIOUS
  <2> QED
    BY <2>1 DEF IsList
<1>5. ASSUME NEW a, NEW b, NEW c, NEW d, NEW e, NEW f
      PROVE  IsList(<<a, b, c, d, e, f>>) /\ Len(<<a, b, c, d, e, f>>) = 6
  <2>1. <<a, b, c, d, e, f>> \in Seq({a, b, c, d, e, f})
    OBVIOUS
  <2> QED
    BY <2>1 DEF IsList
<1>6. ASSUME NEW a, NEW b, NEW c, NEW d, NEW e, NEW f, NEW g
      PROVE  IsList(<<a, b, c, d, e, f, g>>) /\ Len(<<a, b, c, d, e, f, g>>) = 7
  <2>1. <<a, b, c, d, e, f, g>> \in Seq({a, b, c, d, e, f, g})
    OBVIOUS
  <2> QED
    BY <2>1 DEF IsList
<1>7. ASSUME NEW a, NEW b, NEW c, NEW d, NEW e, NEW f, NEW g, NEW h
      PROVE  IsList(<<a, b, c, d, e, f, g, h>>) /\ Len(<<a, b, c, d, e, f, g, h>>) = 8
  <2>1. <<a, b, c, d, e, f, g, h>> \in Seq({a, b, c, d, e, f, g, h})
    OBVIOUS
  <2> QED
    BY <2>1 DEF IsList
<1>8. ASSUME NEW a, NEW b, NEW c, NEW d, NEW e, NEW f, NEW g, NEW h, NEW i, NEW j
      PROVE  /\ IsList(<<a, b, c, d, e, f, g, h, i, j>>)
             /\ Len(<<a, b, c, d, e, f, g, h, i, j>>) = 10
  <2>1. <<a, b, c, d, e, f, g, h, i, j>> \in Seq({a, b, c, d, e, f, g, h, i, j})
    OBVIOUS
  <2> QED
    BY <2>1 DEF IsList
<1> QED
  BY <1>1, <1>2, <1>3, <1>4, <1>5, <1>6, <1>7, <1>8

\* The method and the path of each kind of route.
LEMMA Shapes ==
    /\ \A m, p : Plain(m, p).method = m /\ Plain(m, p).path = p
    /\ \A m, p : Admins(m, p).method = m /\ Admins(m, p).path = p
    /\ \A m, p : Mine(m, p).method = m /\ Mine(m, p).path = p
    /\ \A m, p : Users(m, p).method = m /\ Users(m, p).path = p
    /\ \A g, m, p : With(g, Plain(m, p)).method = m /\ With(g, Plain(m, p)).path = p
    /\ \A g, m, p : With(g, Admins(m, p)).method = m /\ With(g, Admins(m, p)).path = p
    /\ \A g, m, p : With(g, Mine(m, p)).method = m /\ With(g, Mine(m, p)).path = p
BY DEF Route, With, Plain, Admins, Mine, Users

\* One part of a pattern against one of the path that another suggests.
Covers(a, b) == a \in Parameters \/ a = b \/ (a = "7" /\ b \in Parameters)

LEMMA ShortFits ==
    /\ \A a : ~ Fits(<<>>, OwnPath(<<a>>)) /\ ~ Fits(<<a>>, OwnPath(<<>>))
    /\ \A a, b : ~ Fits(<<>>, OwnPath(<<a, b>>)) /\ ~ Fits(<<a, b>>, OwnPath(<<>>))
    /\ \A a, b, c : ~ Fits(<<>>, OwnPath(<<a, b, c>>)) /\ ~ Fits(<<a, b, c>>, OwnPath(<<>>))
    /\ \A a, b, x : ~ Fits(<<a, b>>, OwnPath(<<x>>)) /\ ~ Fits(<<x>>, OwnPath(<<a, b>>))
    /\ \A a, b, c, x : /\ ~ Fits(<<a, b, c>>, OwnPath(<<x>>))
                       /\ ~ Fits(<<x>>, OwnPath(<<a, b, c>>))
    /\ \A a, b, c, x, y : /\ ~ Fits(<<a, b, c>>, OwnPath(<<x, y>>))
                          /\ ~ Fits(<<x, y>>, OwnPath(<<a, b, c>>))
    /\ \A a, x : Fits(<<a>>, OwnPath(<<x>>)) => Covers(a, x)
    /\ \A a, b, x, y : Fits(<<a, b>>, OwnPath(<<x, y>>)) => Covers(a, x) /\ Covers(b, y)
    /\ \A a, b, c, x, y, z :
           Fits(<<a, b, c>>, OwnPath(<<x, y, z>>)) => Covers(a, x) /\ Covers(b, y) /\ Covers(c, z)
<1>1. \A q : Len(q) \in Nat => Len(OwnPath(q)) = Len(q)
  BY DEF OwnPath
<1>2. /\ Len(<<>>) = 0 /\ \A a : Len(<<a>>) = 1 /\ \A b : Len(<<a, b>>) = 2
      /\ \A a, b, c : Len(<<a, b, c>>) = 3
  OBVIOUS
<1>3. ASSUME NEW p, NEW q, Len(q) \in Nat, Fits(p, OwnPath(q)), NEW i \in 1 .. Len(q)
      PROVE  Len(p) = Len(q) /\ Covers(p[i], q[i])
  <2>1. /\ Len(p) = Len(q)
        /\ p[i] \in Parameters \/ p[i] = OwnPath(q)[i]
    BY <1>1, <1>3 DEF Fits
  <2>2. OwnPath(q)[i] = IF q[i] \in Parameters THEN "7" ELSE q[i]
    BY DEF OwnPath
  <2> QED
    BY <2>1, <2>2 DEF Covers
<1>4. ASSUME NEW p, NEW q, Len(q) \in Nat, Fits(p, OwnPath(q)) PROVE Len(p) = Len(q)
  BY <1>1, <1>4 DEF Fits
<1>5. ASSUME NEW a, NEW x, Fits(<<a>>, OwnPath(<<x>>)) PROVE Covers(a, x)
  <2>1. Covers(<<a>>[1], <<x>>[1])
    BY <1>2, <1>3, <1>5
  <2> QED
    BY <2>1
<1>6. ASSUME NEW a, NEW b, NEW x, NEW y, Fits(<<a, b>>, OwnPath(<<x, y>>))
      PROVE  Covers(a, x) /\ Covers(b, y)
  <2>1. Covers(<<a, b>>[1], <<x, y>>[1]) /\ Covers(<<a, b>>[2], <<x, y>>[2])
    BY <1>2, <1>3, <1>6
  <2> QED
    BY <2>1
<1>7. ASSUME NEW a, NEW b, NEW c, NEW x, NEW y, NEW z, Fits(<<a, b, c>>, OwnPath(<<x, y, z>>))
      PROVE  Covers(a, x) /\ Covers(b, y) /\ Covers(c, z)
  <2>1. /\ Covers(<<a, b, c>>[1], <<x, y, z>>[1]) /\ Covers(<<a, b, c>>[2], <<x, y, z>>[2])
        /\ Covers(<<a, b, c>>[3], <<x, y, z>>[3])
    BY <1>2, <1>3, <1>7
  <2> QED
    BY <2>1
<1> QED
  BY <1>2, <1>4, <1>5, <1>6, <1>7

LEMMA VehicleTable ==
    TableOK(Controller("cars", JwtRoles, VehicleController), {"cars"})
<1>1. IsList(VehicleController) /\ Len(VehicleController) = 10
  BY LongLists DEF VehicleController
<1>2. \A i \in 1 .. 10 : Drafted(VehicleController[i], JwtRoles)
  <2>1. Drafted(VehicleController[1], JwtRoles)
    BY Drafts, ShortLists DEF VehicleController
  <2>2. Drafted(VehicleController[2], JwtRoles)
    BY Drafts, ShortLists DEF VehicleController
  <2>3. Drafted(VehicleController[3], JwtRoles)
    BY Drafts, ShortLists DEF VehicleController
  <2>4. Drafted(VehicleController[4], JwtRoles)
    BY Drafts, ShortLists DEF VehicleController
  <2>5. Drafted(VehicleController[5], JwtRoles)
    BY Drafts, ShortLists DEF VehicleController
  <2>6. Drafted(VehicleController[6], JwtRoles)
    BY Drafts, ShortLists DEF VehicleController
  <2>7. Drafted(VehicleController[7], JwtRoles)
    BY Drafts, ShortLists DEF VehicleController
  <2>8. Drafted(VehicleController[8], JwtRoles)
    BY Drafts, ShortLists DEF VehicleController
  <2>9. Drafted(VehicleController[9], JwtRoles)
    BY Drafts, ShortLists DEF VehicleController
  <2>10. Drafted(VehicleController[10], JwtRoles)
    BY Drafts, ShortLists DEF VehicleController
  <2> QED
    BY <2>1, <2>2, <2>3, <2>4, <2>5, <2>6, <2>7, <2>8, <2>9, <2>10
<1>3. \A i \in 1 .. 1 : ~ Hides(VehicleController[i], VehicleController[2])
  BY Shapes, ShortFits DEF VehicleController, Hides, Covers, Parameters, Route
<1>4. \A i \in 1 .. 2 : ~ Hides(VehicleController[i], VehicleController[3])
  BY Shapes, ShortFits DEF VehicleController, Hides, Covers, Parameters, Route
<1>5. \A i \in 1 .. 3 : ~ Hides(VehicleController[i], VehicleController[4])
  BY Shapes, ShortFits DEF VehicleController, Hides, Covers, Parameters, Route
<1>6. \A i \in 1 .. 4 : ~ Hides(VehicleController[i], VehicleController[5])
  BY Shapes, ShortFits DEF VehicleController, Hides, Covers, Parameters, Route
<1>7. \A i \in 1 .. 5 : ~ Hides(VehicleController[i], VehicleController[6])
  BY Shapes, ShortFits DEF VehicleController, Hides, Covers, Parameters, Route
<1>8. \A i \in 1 .. 6 : ~ Hides(VehicleController[i], VehicleController[7])
  BY Shapes, ShortFits DEF VehicleController, Hides, Covers, Parameters, Route
<1>9. \A i \in 1 .. 7 : ~ Hides(VehicleController[i], VehicleController[8])
  BY Shapes, ShortFits DEF VehicleController, Hides, Covers, Parameters, Route
<1>10. \A i \in 1 .. 8 : ~ Hides(VehicleController[i], VehicleController[9])
  BY Shapes, ShortFits DEF VehicleController, Hides, Covers, Parameters, Route
<1>11. \A i \in 1 .. 9 : ~ Hides(VehicleController[i], VehicleController[10])
  BY Shapes, ShortFits DEF VehicleController, Hides, Covers, Parameters, Route
<1>12. Ordered(VehicleController)
  BY <1>1, <1>3, <1>4, <1>5, <1>6, <1>7, <1>8, <1>9, <1>10, <1>11 DEF Ordered
<1> QED
  BY <1>1, <1>2, <1>12, ControllerOK DEF Parameters

LEMMA AuthTable ==
    TableOK(Controller("auth", <<>>, AuthController), {"auth"})
<1>1. IsList(AuthController) /\ Len(AuthController) = 6
  BY LongLists DEF AuthController
<1>2. \A i \in 1 .. 6 : Drafted(AuthController[i], <<>>)
  <2>1. Drafted(AuthController[1], <<>>)
    BY Drafts, ShortLists DEF AuthController
  <2>2. Drafted(AuthController[2], <<>>)
    BY Drafts, ShortLists DEF AuthController
  <2>3. Drafted(AuthController[3], <<>>)
    BY Drafts, ShortLists DEF AuthController
  <2>4. Drafted(AuthController[4], <<>>)
    BY Drafts, ShortLists DEF AuthController
  <2>5. Drafted(AuthController[5], <<>>)
    BY Drafts, ShortLists DEF AuthController
  <2>6. Drafted(AuthController[6], <<>>)
    BY Drafts, ShortLists DEF AuthController
  <2> QED
    BY <2>1, <2>2, <2>3, <2>4, <2>5, <2>6
<1>3. \A i \in 1 .. 1 : ~ Hides(AuthController[i], AuthController[2])
  BY Shapes, ShortFits DEF AuthController, Hides, Covers, Parameters
<1>4. \A i \in 1 .. 2 : ~ Hides(AuthController[i], AuthController[3])
  BY Shapes, ShortFits DEF AuthController, Hides, Covers, Parameters
<1>5. \A i \in 1 .. 3 : ~ Hides(AuthController[i], AuthController[4])
  BY Shapes, ShortFits DEF AuthController, Hides, Covers, Parameters
<1>6. \A i \in 1 .. 4 : ~ Hides(AuthController[i], AuthController[5])
  BY Shapes, ShortFits DEF AuthController, Hides, Covers, Parameters
<1>7. \A i \in 1 .. 5 : ~ Hides(AuthController[i], AuthController[6])
  BY Shapes, ShortFits DEF AuthController, Hides, Covers, Parameters
<1>8. Ordered(AuthController)
  BY <1>1, <1>3, <1>4, <1>5, <1>6, <1>7 DEF Ordered
<1> QED
  BY <1>1, <1>2, <1>8, ControllerOK DEF Parameters

LEMMA AdminTable ==
    TableOK(Controller("admin", <<>>, AdminController), {"admin"})
<1>1. IsList(AdminController) /\ Len(AdminController) = 2
  BY LongLists DEF AdminController
<1>2. \A i \in 1 .. 2 : Drafted(AdminController[i], <<>>)
  <2>1. Drafted(AdminController[1], <<>>)
    BY Drafts, ShortLists DEF AdminController
  <2>2. Drafted(AdminController[2], <<>>)
    BY Drafts, ShortLists DEF AdminController
  <2> QED
    BY <2>1, <2>2
<1>3. \A i \in 1 .. 1 : ~ Hides(AdminController[i], AdminController[2])
  BY Shapes, ShortFits DEF AdminController, Hides, Covers, Parameters
<1>4. Ordered(AdminController)
  BY <1>1, <1>3 DEF Ordered
<1> QED
  BY <1>1, <1>2, <1>4, ControllerOK DEF Parameters

LEMMA OperatorTable ==
    TableOK(Controller("operators", <<>>, OperatorController), {"operators"})
<1>1. IsList(OperatorController) /\ Len(OperatorController) = 5
  BY LongLists DEF OperatorController
<1>2. \A i \in 1 .. 5 : Drafted(OperatorController[i], <<>>)
  <2>1. Drafted(OperatorController[1], <<>>)
    BY Drafts, ShortLists DEF OperatorController
  <2>2. Drafted(OperatorController[2], <<>>)
    BY Drafts, ShortLists DEF OperatorController
  <2>3. Drafted(OperatorController[3], <<>>)
    BY Drafts, ShortLists DEF OperatorController
  <2>4. Drafted(OperatorController[4], <<>>)
    BY Drafts, ShortLists DEF OperatorController
  <2>5. Drafted(OperatorController[5], <<>>)
    BY Drafts, ShortLists DEF OperatorController
  <2> QED
    BY <2>1, <2>2, <2>3, <2>4, <2>5
<1>3. \A i \in 1 .. 1 : ~ Hides(OperatorController[i], OperatorController[2])
  BY Shapes, ShortFits DEF OperatorController, Hides, Covers, Parameters
<1>4. \A i \in 1 .. 2 : ~ Hides(OperatorController[i], OperatorController[3])
  BY Shapes, ShortFits DEF OperatorController, Hides, Covers, Parameters
<1>5. \A i \in 1 .. 3 : ~ Hides(OperatorController[i], OperatorController[4])
  BY Shapes, ShortFits DEF OperatorController, Hides, Covers, Parameters
<1>6. \A i \in 1 .. 4 : ~ Hides(OperatorController[i], OperatorController[5])
  BY Shapes, ShortFits DEF OperatorController, Hides, Covers, Parameters
<1>7. Ordered(OperatorController)
  BY <1>1, <1>3, <1>4, <1>5, <1>6 DEF Ordered
<1> QED
  BY <1>1, <1>2, <1>7, ControllerOK DEF Parameters

LEMMA ChargingStationTable ==
    TableOK(Controller("stations", <<>>, ChargingStationController), {"stations"})
<1>1. IsList(ChargingStationController) /\ Len(ChargingStationController) = 5
  BY LongLists DEF ChargingStationController
<1>2. \A i \in 1 .. 5 : Drafted(ChargingStationController[i], <<>>)
  <2>1. Drafted(ChargingStationController[1], <<>>)
    BY Drafts, ShortLists DEF ChargingStationController
  <2>2. Drafted(ChargingStationController[2], <<>>)
    BY Drafts, ShortLists DEF ChargingStationController
  <2>3. Drafted(ChargingStationController[3], <<>>)
    BY Drafts, ShortLists DEF ChargingStationController
  <2>4. Drafted(ChargingStationController[4], <<>>)
    BY Drafts, ShortLists DEF ChargingStationController
  <2>5. Drafted(ChargingStationController[5], <<>>)
    BY Drafts, ShortLists DEF ChargingStationController
  <2> QED
    BY <2>1, <2>2, <2>3, <2>4, <2>5
<1>3. \A i \in 1 .. 1 : ~ Hides(ChargingStationController[i], ChargingStationController[2])
  BY Shapes, ShortFits DEF ChargingStationController, Hides, Covers, Parameters
<1>4. \A i \in 1 .. 2 : ~ Hides(ChargingStationController[i], ChargingStationController[3])
  BY Shapes, ShortFits DEF ChargingStationController, Hides, Covers, Parameters
<1>5. \A i \in 1 .. 3 : ~ Hides(ChargingStationController[i], ChargingStationController[4])
  BY Shapes, ShortFits DEF ChargingStationController, Hides, Covers, Parameters
<1>6. \A i \in 1 .. 4 : ~ Hides(ChargingStationController[i], ChargingStationController[5])
  BY Shapes, ShortFits DEF ChargingStationController, Hides, Covers, Parameters
<1>7. Ordered(ChargingStationController)
  BY <1>1, <1>3, <1>4, <1>5, <1>6 DEF Ordered
<1> QED
  BY <1>1, <1>2, <1>7, ControllerOK DEF Parameters

LEMMA ConnectorTable ==
    TableOK(Controller("connectors", <<>>, ConnectorController), {"connectors"})
<1>1. IsList(ConnectorController) /\ Len(ConnectorController) = 8
  BY LongLists DEF ConnectorController
<1>2. \A i \in 1 .. 8 : Drafted(ConnectorController[i], <<>>)
  <2>1. Drafted(ConnectorController[1], <<>>)
    BY Drafts, ShortLists DEF ConnectorController
  <2>2. Drafted(ConnectorController[2], <<>>)
    BY Drafts, ShortLists DEF ConnectorController
  <2>3. Drafted(ConnectorController[3], <<>>)
    BY Drafts, ShortLists DEF ConnectorController
  <2>4. Drafted(ConnectorController[4], <<>>)
    BY Drafts, ShortLists DEF ConnectorController
  <2>5. Drafted(ConnectorController[5], <<>>)
    BY Drafts, ShortLists DEF ConnectorController
  <2>6. Drafted(ConnectorController[6], <<>>)
    BY Drafts, ShortLists DEF ConnectorController
  <2>7. Drafted(ConnectorController[7], <<>>)
    BY Drafts, ShortLists DEF ConnectorController
  <2>8. Drafted(ConnectorController[8], <<>>)
    BY Drafts, ShortLists DEF ConnectorController
  <2> QED
    BY <2>1, <2>2, <2>3, <2>4, <2>5, <2>6, <2>7, <2>8
<1>3. \A i \in 1 .. 1 : ~ Hides(ConnectorController[i], ConnectorController[2])
  BY Shapes, ShortFits DEF ConnectorController, Hides, Covers, Parameters
<1>4. \A i \in 1 .. 2 : ~ Hides(ConnectorController[i], ConnectorController[3])
  BY Shapes, ShortFits DEF ConnectorController, Hides, Covers, Parameters
<1>5. \A i \in 1 .. 3 : ~ Hides(ConnectorController[i], ConnectorController[4])
  BY Shapes, ShortFits DEF ConnectorController, Hides, Covers, Parameters
<1>6. \A i \in 1 .. 4 : ~ Hides(ConnectorController[i], ConnectorController[5])
  BY Shapes, ShortFits DEF ConnectorController, Hides, Covers, Parameters
<1>7. \A i \in 1 .. 5 : ~ Hides(ConnectorController[i], ConnectorController[6])
  BY Shapes, ShortFits DEF ConnectorController, Hides, Covers, Parameters
<1>8. \A i \in 1 .. 6 : ~ Hides(ConnectorController[i], ConnectorController[7])
  BY Shapes, ShortFits DEF ConnectorController, Hides, Covers, Parameters
<1>9. \A i \in 1 .. 7 : ~ Hides(ConnectorController[i], ConnectorController[8])
  BY Shapes, ShortFits DEF ConnectorController, Hides, Covers, Parameters
<1>10. Ordered(ConnectorController)
  BY <1>1, <1>3, <1>4, <1>5, <1>6, <1>7, <1>8, <1>9 DEF Ordered
<1> QED
  BY <1>1, <1>2, <1>10, ControllerOK DEF Parameters

LEMMA ConnectorTypeTable ==
    TableOK(Controller("connector-types", <<>>, ConnectorTypeController), {"connector-types"})
<1>1. IsList(ConnectorTypeController) /\ Len(ConnectorTypeController) = 5
  BY LongLists DEF ConnectorTypeController
<1>2. \A i \in 1 .. 5 : Drafted(ConnectorTypeController[i], <<>>)
  <2>1. Drafted(ConnectorTypeController[1], <<>>)
    BY Drafts, ShortLists DEF ConnectorTypeController
  <2>2. Drafted(ConnectorTypeController[2], <<>>)
    BY Drafts, ShortLists DEF ConnectorTypeController
  <2>3. Drafted(ConnectorTypeController[3], <<>>)
    BY Drafts, ShortLists DEF ConnectorTypeController
  <2>4. Drafted(ConnectorTypeController[4], <<>>)
    BY Drafts, ShortLists DEF ConnectorTypeController
  <2>5. Drafted(ConnectorTypeController[5], <<>>)
    BY Drafts, ShortLists DEF ConnectorTypeController
  <2> QED
    BY <2>1, <2>2, <2>3, <2>4, <2>5
<1>3. \A i \in 1 .. 1 : ~ Hides(ConnectorTypeController[i], ConnectorTypeController[2])
  BY Shapes, ShortFits DEF ConnectorTypeController, Hides, Covers, Parameters
<1>4. \A i \in 1 .. 2 : ~ Hides(ConnectorTypeController[i], ConnectorTypeController[3])
  BY Shapes, ShortFits DEF ConnectorTypeController, Hides, Covers, Parameters
<1>5. \A i \in 1 .. 3 : ~ Hides(ConnectorTypeController[i], ConnectorTypeController[4])
  BY Shapes, ShortFits DEF ConnectorTypeController, Hides, Covers, Parameters
<1>6. \A i \in 1 .. 4 : ~ Hides(ConnectorTypeController[i], ConnectorTypeController[5])
  BY Shapes, ShortFits DEF ConnectorTypeController, Hides, Covers, Parameters
<1>7. Ordered(ConnectorTypeController)
  BY <1>1, <1>3, <1>4, <1>5, <1>6 DEF Ordered
<1> QED
  BY <1>1, <1>2, <1>7, ControllerOK DEF Parameters

LEMMA ConnectorStatusLogTable ==
    TableOK(Controller("connector-status-logs", JwtRoles, ConnectorStatusLogController),
            {"connector-status-logs"})
<1>1. IsList(ConnectorStatusLogController) /\ Len(ConnectorStatusLogController) = 3
  BY LongLists DEF ConnectorStatusLogController
<1>2. \A i \in 1 .. 3 : Drafted(ConnectorStatusLogController[i], JwtRoles)
  <2>1. Drafted(ConnectorStatusLogController[1], JwtRoles)
    BY Drafts, ShortLists DEF ConnectorStatusLogController
  <2>2. Drafted(ConnectorStatusLogController[2], JwtRoles)
    BY Drafts, ShortLists DEF ConnectorStatusLogController
  <2>3. Drafted(ConnectorStatusLogController[3], JwtRoles)
    BY Drafts, ShortLists DEF ConnectorStatusLogController
  <2> QED
    BY <2>1, <2>2, <2>3
<1>3. \A i \in 1 .. 1 : ~ Hides(ConnectorStatusLogController[i], ConnectorStatusLogController[2])
  BY Shapes, ShortFits DEF ConnectorStatusLogController, Hides, Covers, Parameters
<1>4. \A i \in 1 .. 2 : ~ Hides(ConnectorStatusLogController[i], ConnectorStatusLogController[3])
  BY Shapes, ShortFits DEF ConnectorStatusLogController, Hides, Covers, Parameters
<1>5. Ordered(ConnectorStatusLogController)
  BY <1>1, <1>3, <1>4 DEF Ordered
<1> QED
  BY <1>1, <1>2, <1>5, ControllerOK DEF Parameters

LEMMA StationPricingTable ==
    TableOK(Controller("pricing", JwtRoles, StationPricingController), {"pricing"})
<1>1. IsList(StationPricingController) /\ Len(StationPricingController) = 5
  BY LongLists DEF StationPricingController
<1>2. \A i \in 1 .. 5 : Drafted(StationPricingController[i], JwtRoles)
  <2>1. Drafted(StationPricingController[1], JwtRoles)
    BY Drafts, ShortLists DEF StationPricingController
  <2>2. Drafted(StationPricingController[2], JwtRoles)
    BY Drafts, ShortLists DEF StationPricingController
  <2>3. Drafted(StationPricingController[3], JwtRoles)
    BY Drafts, ShortLists DEF StationPricingController
  <2>4. Drafted(StationPricingController[4], JwtRoles)
    BY Drafts, ShortLists DEF StationPricingController
  <2>5. Drafted(StationPricingController[5], JwtRoles)
    BY Drafts, ShortLists DEF StationPricingController
  <2> QED
    BY <2>1, <2>2, <2>3, <2>4, <2>5
<1>3. \A i \in 1 .. 1 : ~ Hides(StationPricingController[i], StationPricingController[2])
  BY Shapes, ShortFits DEF StationPricingController, Hides, Covers, Parameters
<1>4. \A i \in 1 .. 2 : ~ Hides(StationPricingController[i], StationPricingController[3])
  BY Shapes, ShortFits DEF StationPricingController, Hides, Covers, Parameters
<1>5. \A i \in 1 .. 3 : ~ Hides(StationPricingController[i], StationPricingController[4])
  BY Shapes, ShortFits DEF StationPricingController, Hides, Covers, Parameters
<1>6. \A i \in 1 .. 4 : ~ Hides(StationPricingController[i], StationPricingController[5])
  BY Shapes, ShortFits DEF StationPricingController, Hides, Covers, Parameters
<1>7. Ordered(StationPricingController)
  BY <1>1, <1>3, <1>4, <1>5, <1>6 DEF Ordered
<1> QED
  BY <1>1, <1>2, <1>7, ControllerOK DEF Parameters

LEMMA ChargingSessionTable ==
    TableOK(Controller("sessions", JwtRoles, ChargingSessionController), {"sessions"})
<1>1. IsList(ChargingSessionController) /\ Len(ChargingSessionController) = 10
  BY LongLists DEF ChargingSessionController
<1>2. \A i \in 1 .. 10 : Drafted(ChargingSessionController[i], JwtRoles)
  <2>1. Drafted(ChargingSessionController[1], JwtRoles)
    BY Drafts, ShortLists DEF ChargingSessionController
  <2>2. Drafted(ChargingSessionController[2], JwtRoles)
    BY Drafts, ShortLists DEF ChargingSessionController
  <2>3. Drafted(ChargingSessionController[3], JwtRoles)
    BY Drafts, ShortLists DEF ChargingSessionController
  <2>4. Drafted(ChargingSessionController[4], JwtRoles)
    BY Drafts, ShortLists DEF ChargingSessionController
  <2>5. Drafted(ChargingSessionController[5], JwtRoles)
    BY Drafts, ShortLists DEF ChargingSessionController
  <2>6. Drafted(ChargingSessionController[6], JwtRoles)
    BY Drafts, ShortLists DEF ChargingSessionController
  <2>7. Drafted(ChargingSessionController[7], JwtRoles)
    BY Drafts, ShortLists DEF ChargingSessionController
  <2>8. Drafted(ChargingSessionController[8], JwtRoles)
    BY Drafts, ShortLists DEF ChargingSessionController
  <2>9. Drafted(ChargingSessionController[9], JwtRoles)
    BY Drafts, ShortLists DEF ChargingSessionController
  <2>10. Drafted(ChargingSessionController[10], JwtRoles)
    BY Drafts, ShortLists DEF ChargingSessionController
  <2> QED
    BY <2>1, <2>2, <2>3, <2>4, <2>5, <2>6, <2>7, <2>8, <2>9, <2>10
<1>3. \A i \in 1 .. 1 : ~ Hides(ChargingSessionController[i], ChargingSessionController[2])
  BY Shapes, ShortFits DEF ChargingSessionController, Hides, Covers, Parameters
<1>4. \A i \in 1 .. 2 : ~ Hides(ChargingSessionController[i], ChargingSessionController[3])
  BY Shapes, ShortFits DEF ChargingSessionController, Hides, Covers, Parameters
<1>5. \A i \in 1 .. 3 : ~ Hides(ChargingSessionController[i], ChargingSessionController[4])
  BY Shapes, ShortFits DEF ChargingSessionController, Hides, Covers, Parameters
<1>6. \A i \in 1 .. 4 : ~ Hides(ChargingSessionController[i], ChargingSessionController[5])
  BY Shapes, ShortFits DEF ChargingSessionController, Hides, Covers, Parameters
<1>7. \A i \in 1 .. 5 : ~ Hides(ChargingSessionController[i], ChargingSessionController[6])
  BY Shapes, ShortFits DEF ChargingSessionController, Hides, Covers, Parameters
<1>8. \A i \in 1 .. 6 : ~ Hides(ChargingSessionController[i], ChargingSessionController[7])
  BY Shapes, ShortFits DEF ChargingSessionController, Hides, Covers, Parameters
<1>9. \A i \in 1 .. 7 : ~ Hides(ChargingSessionController[i], ChargingSessionController[8])
  BY Shapes, ShortFits DEF ChargingSessionController, Hides, Covers, Parameters
<1>10. \A i \in 1 .. 8 : ~ Hides(ChargingSessionController[i], ChargingSessionController[9])
  BY Shapes, ShortFits DEF ChargingSessionController, Hides, Covers, Parameters
<1>11. \A i \in 1 .. 9 : ~ Hides(ChargingSessionController[i], ChargingSessionController[10])
  BY Shapes, ShortFits DEF ChargingSessionController, Hides, Covers, Parameters
<1>12. Ordered(ChargingSessionController)
  BY <1>1, <1>3, <1>4, <1>5, <1>6, <1>7, <1>8, <1>9, <1>10, <1>11 DEF Ordered
<1> QED
  BY <1>1, <1>2, <1>12, ControllerOK DEF Parameters

LEMMA OperatorPayoutTable ==
    TableOK(Controller("operator-payouts", JwtRoles, OperatorPayoutController),
            {"operator-payouts"})
<1>1. IsList(OperatorPayoutController) /\ Len(OperatorPayoutController) = 5
  BY LongLists DEF OperatorPayoutController
<1>2. \A i \in 1 .. 5 : Drafted(OperatorPayoutController[i], JwtRoles)
  <2>1. Drafted(OperatorPayoutController[1], JwtRoles)
    BY Drafts, ShortLists DEF OperatorPayoutController
  <2>2. Drafted(OperatorPayoutController[2], JwtRoles)
    BY Drafts, ShortLists DEF OperatorPayoutController
  <2>3. Drafted(OperatorPayoutController[3], JwtRoles)
    BY Drafts, ShortLists DEF OperatorPayoutController
  <2>4. Drafted(OperatorPayoutController[4], JwtRoles)
    BY Drafts, ShortLists DEF OperatorPayoutController
  <2>5. Drafted(OperatorPayoutController[5], JwtRoles)
    BY Drafts, ShortLists DEF OperatorPayoutController
  <2> QED
    BY <2>1, <2>2, <2>3, <2>4, <2>5
<1>3. \A i \in 1 .. 1 : ~ Hides(OperatorPayoutController[i], OperatorPayoutController[2])
  BY Shapes, ShortFits DEF OperatorPayoutController, Hides, Covers, Parameters
<1>4. \A i \in 1 .. 2 : ~ Hides(OperatorPayoutController[i], OperatorPayoutController[3])
  BY Shapes, ShortFits DEF OperatorPayoutController, Hides, Covers, Parameters
<1>5. \A i \in 1 .. 3 : ~ Hides(OperatorPayoutController[i], OperatorPayoutController[4])
  BY Shapes, ShortFits DEF OperatorPayoutController, Hides, Covers, Parameters
<1>6. \A i \in 1 .. 4 : ~ Hides(OperatorPayoutController[i], OperatorPayoutController[5])
  BY Shapes, ShortFits DEF OperatorPayoutController, Hides, Covers, Parameters
<1>7. Ordered(OperatorPayoutController)
  BY <1>1, <1>3, <1>4, <1>5, <1>6 DEF Ordered
<1> QED
  BY <1>1, <1>2, <1>7, ControllerOK DEF Parameters

LEMMA WalletTable ==
    TableOK(Controller("wallet", JwtRoles, WalletController), {"wallet"})
<1>1. IsList(WalletController) /\ Len(WalletController) = 4
  BY LongLists DEF WalletController
<1>2. \A i \in 1 .. 4 : Drafted(WalletController[i], JwtRoles)
  <2>1. Drafted(WalletController[1], JwtRoles)
    BY Drafts, ShortLists DEF WalletController
  <2>2. Drafted(WalletController[2], JwtRoles)
    BY Drafts, ShortLists DEF WalletController
  <2>3. Drafted(WalletController[3], JwtRoles)
    BY Drafts, ShortLists DEF WalletController
  <2>4. Drafted(WalletController[4], JwtRoles)
    BY Drafts, ShortLists DEF WalletController
  <2> QED
    BY <2>1, <2>2, <2>3, <2>4
<1>3. \A i \in 1 .. 1 : ~ Hides(WalletController[i], WalletController[2])
  BY Shapes, ShortFits DEF WalletController, Hides, Covers, Parameters
<1>4. \A i \in 1 .. 2 : ~ Hides(WalletController[i], WalletController[3])
  BY Shapes, ShortFits DEF WalletController, Hides, Covers, Parameters
<1>5. \A i \in 1 .. 3 : ~ Hides(WalletController[i], WalletController[4])
  BY Shapes, ShortFits DEF WalletController, Hides, Covers, Parameters
<1>6. Ordered(WalletController)
  BY <1>1, <1>3, <1>4, <1>5 DEF Ordered
<1> QED
  BY <1>1, <1>2, <1>6, ControllerOK DEF Parameters

LEMMA WalletTransactionTable ==
    TableOK(Controller("transactions", JwtRoles, WalletTransactionController), {"transactions"})
<1>1. IsList(WalletTransactionController) /\ Len(WalletTransactionController) = 3
  BY LongLists DEF WalletTransactionController
<1>2. \A i \in 1 .. 3 : Drafted(WalletTransactionController[i], JwtRoles)
  <2>1. Drafted(WalletTransactionController[1], JwtRoles)
    BY Drafts, ShortLists DEF WalletTransactionController
  <2>2. Drafted(WalletTransactionController[2], JwtRoles)
    BY Drafts, ShortLists DEF WalletTransactionController
  <2>3. Drafted(WalletTransactionController[3], JwtRoles)
    BY Drafts, ShortLists DEF WalletTransactionController
  <2> QED
    BY <2>1, <2>2, <2>3
<1>3. \A i \in 1 .. 1 : ~ Hides(WalletTransactionController[i], WalletTransactionController[2])
  BY Shapes, ShortFits DEF WalletTransactionController, Hides, Covers, Parameters
<1>4. \A i \in 1 .. 2 : ~ Hides(WalletTransactionController[i], WalletTransactionController[3])
  BY Shapes, ShortFits DEF WalletTransactionController, Hides, Covers, Parameters
<1>5. Ordered(WalletTransactionController)
  BY <1>1, <1>3, <1>4 DEF Ordered
<1> QED
  BY <1>1, <1>2, <1>5, ControllerOK DEF Parameters

LEMMA PaymentTable ==
    TableOK(Controller("payments", JwtRoles, PaymentController), {"payments"})
<1>1. IsList(PaymentController) /\ Len(PaymentController) = 5
  BY LongLists DEF PaymentController
<1>2. \A i \in 1 .. 5 : Drafted(PaymentController[i], JwtRoles)
  <2>1. Drafted(PaymentController[1], JwtRoles)
    BY Drafts, ShortLists DEF PaymentController
  <2>2. Drafted(PaymentController[2], JwtRoles)
    BY Drafts, ShortLists DEF PaymentController
  <2>3. Drafted(PaymentController[3], JwtRoles)
    BY Drafts, ShortLists DEF PaymentController
  <2>4. Drafted(PaymentController[4], JwtRoles)
    BY Drafts, ShortLists DEF PaymentController
  <2>5. Drafted(PaymentController[5], JwtRoles)
    BY Drafts, ShortLists DEF PaymentController
  <2> QED
    BY <2>1, <2>2, <2>3, <2>4, <2>5
<1>3. \A i \in 1 .. 1 : ~ Hides(PaymentController[i], PaymentController[2])
  BY Shapes, ShortFits DEF PaymentController, Hides, Covers, Parameters
<1>4. \A i \in 1 .. 2 : ~ Hides(PaymentController[i], PaymentController[3])
  BY Shapes, ShortFits DEF PaymentController, Hides, Covers, Parameters
<1>5. \A i \in 1 .. 3 : ~ Hides(PaymentController[i], PaymentController[4])
  BY Shapes, ShortFits DEF PaymentController, Hides, Covers, Parameters
<1>6. \A i \in 1 .. 4 : ~ Hides(PaymentController[i], PaymentController[5])
  BY Shapes, ShortFits DEF PaymentController, Hides, Covers, Parameters
<1>7. Ordered(PaymentController)
  BY <1>1, <1>3, <1>4, <1>5, <1>6 DEF Ordered
<1> QED
  BY <1>1, <1>2, <1>7, ControllerOK DEF Parameters

LEMMA LegalTable ==
    TableOK(Controller("legal", <<>>, LegalController), {"legal"})
<1>1. IsList(LegalController) /\ Len(LegalController) = 8
  BY LongLists DEF LegalController
<1>2. \A i \in 1 .. 8 : Drafted(LegalController[i], <<>>)
  <2>1. Drafted(LegalController[1], <<>>)
    BY Drafts, ShortLists DEF LegalController
  <2>2. Drafted(LegalController[2], <<>>)
    BY Drafts, ShortLists DEF LegalController
  <2>3. Drafted(LegalController[3], <<>>)
    BY Drafts, ShortLists DEF LegalController
  <2>4. Drafted(LegalController[4], <<>>)
    BY Drafts, ShortLists DEF LegalController
  <2>5. Drafted(LegalController[5], <<>>)
    BY Drafts, ShortLists DEF LegalController
  <2>6. Drafted(LegalController[6], <<>>)
    BY Drafts, ShortLists DEF LegalController
  <2>7. Drafted(LegalController[7], <<>>)
    BY Drafts, ShortLists DEF LegalController
  <2>8. Drafted(LegalController[8], <<>>)
    BY Drafts, ShortLists DEF LegalController
  <2> QED
    BY <2>1, <2>2, <2>3, <2>4, <2>5, <2>6, <2>7, <2>8
<1>3. \A i \in 1 .. 1 : ~ Hides(LegalController[i], LegalController[2])
  BY Shapes, ShortFits DEF LegalController, Hides, Covers, Parameters
<1>4. \A i \in 1 .. 2 : ~ Hides(LegalController[i], LegalController[3])
  BY Shapes, ShortFits DEF LegalController, Hides, Covers, Parameters
<1>5. \A i \in 1 .. 3 : ~ Hides(LegalController[i], LegalController[4])
  BY Shapes, ShortFits DEF LegalController, Hides, Covers, Parameters
<1>6. \A i \in 1 .. 4 : ~ Hides(LegalController[i], LegalController[5])
  BY Shapes, ShortFits DEF LegalController, Hides, Covers, Parameters
<1>7. \A i \in 1 .. 5 : ~ Hides(LegalController[i], LegalController[6])
  BY Shapes, ShortFits DEF LegalController, Hides, Covers, Parameters
<1>8. \A i \in 1 .. 6 : ~ Hides(LegalController[i], LegalController[7])
  BY Shapes, ShortFits DEF LegalController, Hides, Covers, Parameters
<1>9. \A i \in 1 .. 7 : ~ Hides(LegalController[i], LegalController[8])
  BY Shapes, ShortFits DEF LegalController, Hides, Covers, Parameters
<1>10. Ordered(LegalController)
  BY <1>1, <1>3, <1>4, <1>5, <1>6, <1>7, <1>8, <1>9 DEF Ordered
<1> QED
  BY <1>1, <1>2, <1>10, ControllerOK DEF Parameters

LEMMA DiscountTable ==
    TableOK(Controller("discount", Jwt, DiscountController), {"discount"})
<1>1. IsList(DiscountController) /\ Len(DiscountController) = 5
  BY LongLists DEF DiscountController
<1>2. \A i \in 1 .. 5 : Drafted(DiscountController[i], Jwt)
  <2>1. Drafted(DiscountController[1], Jwt)
    BY Drafts, ShortLists DEF DiscountController
  <2>2. Drafted(DiscountController[2], Jwt)
    BY Drafts, ShortLists DEF DiscountController
  <2>3. Drafted(DiscountController[3], Jwt)
    BY Drafts, ShortLists DEF DiscountController
  <2>4. Drafted(DiscountController[4], Jwt)
    BY Drafts, ShortLists DEF DiscountController
  <2>5. Drafted(DiscountController[5], Jwt)
    BY Drafts, ShortLists DEF DiscountController
  <2> QED
    BY <2>1, <2>2, <2>3, <2>4, <2>5
<1>3. \A i \in 1 .. 1 : ~ Hides(DiscountController[i], DiscountController[2])
  BY Shapes, ShortFits DEF DiscountController, Hides, Covers, Parameters
<1>4. \A i \in 1 .. 2 : ~ Hides(DiscountController[i], DiscountController[3])
  BY Shapes, ShortFits DEF DiscountController, Hides, Covers, Parameters
<1>5. \A i \in 1 .. 3 : ~ Hides(DiscountController[i], DiscountController[4])
  BY Shapes, ShortFits DEF DiscountController, Hides, Covers, Parameters
<1>6. \A i \in 1 .. 4 : ~ Hides(DiscountController[i], DiscountController[5])
  BY Shapes, ShortFits DEF DiscountController, Hides, Covers, Parameters
<1>7. Ordered(DiscountController)
  BY <1>1, <1>3, <1>4, <1>5, <1>6 DEF Ordered
<1> QED
  BY <1>1, <1>2, <1>7, ControllerOK DEF Parameters

LEMMA StationLikeTable ==
    TableOK(Controller("station-likes", Jwt, StationLikeController), {"station-likes"})
<1>1. IsList(StationLikeController) /\ Len(StationLikeController) = 4
  BY LongLists DEF StationLikeController
<1>2. \A i \in 1 .. 4 : Drafted(StationLikeController[i], Jwt)
  <2>1. Drafted(StationLikeController[1], Jwt)
    BY Drafts, ShortLists DEF StationLikeController
  <2>2. Drafted(StationLikeController[2], Jwt)
    BY Drafts, ShortLists DEF StationLikeController
  <2>3. Drafted(StationLikeController[3], Jwt)
    BY Drafts, ShortLists DEF StationLikeController
  <2>4. Drafted(StationLikeController[4], Jwt)
    BY Drafts, ShortLists DEF StationLikeController
  <2> QED
    BY <2>1, <2>2, <2>3, <2>4
<1>3. \A i \in 1 .. 1 : ~ Hides(StationLikeController[i], StationLikeController[2])
  BY Shapes, ShortFits DEF StationLikeController, Hides, Covers, Parameters
<1>4. \A i \in 1 .. 2 : ~ Hides(StationLikeController[i], StationLikeController[3])
  BY Shapes, ShortFits DEF StationLikeController, Hides, Covers, Parameters
<1>5. \A i \in 1 .. 3 : ~ Hides(StationLikeController[i], StationLikeController[4])
  BY Shapes, ShortFits DEF StationLikeController, Hides, Covers, Parameters
<1>6. Ordered(StationLikeController)
  BY <1>1, <1>3, <1>4, <1>5 DEF Ordered
<1> QED
  BY <1>1, <1>2, <1>6, ControllerOK DEF Parameters

LEMMA NotificationTable ==
    TableOK(Controller("notifications", Jwt, NotificationController), {"notifications"})
<1>1. IsList(NotificationController) /\ Len(NotificationController) = 7
  BY LongLists DEF NotificationController
<1>2. \A i \in 1 .. 7 : Drafted(NotificationController[i], Jwt)
  <2>1. Drafted(NotificationController[1], Jwt)
    BY Drafts, ShortLists DEF NotificationController
  <2>2. Drafted(NotificationController[2], Jwt)
    BY Drafts, ShortLists DEF NotificationController
  <2>3. Drafted(NotificationController[3], Jwt)
    BY Drafts, ShortLists DEF NotificationController
  <2>4. Drafted(NotificationController[4], Jwt)
    BY Drafts, ShortLists DEF NotificationController
  <2>5. Drafted(NotificationController[5], Jwt)
    BY Drafts, ShortLists DEF NotificationController
  <2>6. Drafted(NotificationController[6], Jwt)
    BY Drafts, ShortLists DEF NotificationController
  <2>7. Drafted(NotificationController[7], Jwt)
    BY Drafts, ShortLists DEF NotificationController
  <2> QED
    BY <2>1, <2>2, <2>3, <2>4, <2>5, <2>6, <2>7
<1>3. \A i \in 1 .. 1 : ~ Hides(NotificationController[i], NotificationController[2])
  BY Shapes, ShortFits DEF NotificationController, Hides, Covers, Parameters
<1>4. \A i \in 1 .. 2 : ~ Hides(NotificationController[i], NotificationController[3])
  BY Shapes, ShortFits DEF NotificationController, Hides, Covers, Parameters
<1>5. \A i \in 1 .. 3 : ~ Hides(NotificationController[i], NotificationController[4])
  BY Shapes, ShortFits DEF NotificationController, Hides, Covers, Parameters
<1>6. \A i \in 1 .. 4 : ~ Hides(NotificationController[i], NotificationController[5])
  BY Shapes, ShortFits DEF NotificationController, Hides, Covers, Parameters
<1>7. \A i \in 1 .. 5 : ~ Hides(NotificationController[i], NotificationController[6])
  BY Shapes, ShortFits DEF NotificationController, Hides, Covers, Parameters
<1>8. \A i \in 1 .. 6 : ~ Hides(NotificationController[i], NotificationController[7])
  BY Shapes, ShortFits DEF NotificationController, Hides, Covers, Parameters
<1>9. Ordered(NotificationController)
  BY <1>1, <1>3, <1>4, <1>5, <1>6, <1>7, <1>8 DEF Ordered
<1> QED
  BY <1>1, <1>2, <1>9, ControllerOK DEF Parameters

LEMMA ClickTable ==
    TableOK(Controller("click", <<>>, ClickController), {"click"})
<1>1. IsList(ClickController) /\ Len(ClickController) = 8
  BY LongLists DEF ClickController
<1>2. \A i \in 1 .. 8 : Drafted(ClickController[i], <<>>)
  <2>1. Drafted(ClickController[1], <<>>)
    BY Drafts, ShortLists DEF ClickController
  <2>2. Drafted(ClickController[2], <<>>)
    BY Drafts, ShortLists DEF ClickController
  <2>3. Drafted(ClickController[3], <<>>)
    BY Drafts, ShortLists DEF ClickController
  <2>4. Drafted(ClickController[4], <<>>)
    BY Drafts, ShortLists DEF ClickController
  <2>5. Drafted(ClickController[5], <<>>)
    BY Drafts, ShortLists DEF ClickController
  <2>6. Drafted(ClickController[6], <<>>)
    BY Drafts, ShortLists DEF ClickController
  <2>7. Drafted(ClickController[7], <<>>)
    BY Drafts, ShortLists DEF ClickController
  <2>8. Drafted(ClickController[8], <<>>)
    BY Drafts, ShortLists DEF ClickController
  <2> QED
    BY <2>1, <2>2, <2>3, <2>4, <2>5, <2>6, <2>7, <2>8
<1>3. \A i \in 1 .. 1 : ~ Hides(ClickController[i], ClickController[2])
  BY Shapes, ShortFits DEF ClickController, Hides, Covers, Parameters
<1>4. \A i \in 1 .. 2 : ~ Hides(ClickController[i], ClickController[3])
  BY Shapes, ShortFits DEF ClickController, Hides, Covers, Parameters
<1>5. \A i \in 1 .. 3 : ~ Hides(ClickController[i], ClickController[4])
  BY Shapes, ShortFits DEF ClickController, Hides, Covers, Parameters
<1>6. \A i \in 1 .. 4 : ~ Hides(ClickController[i], ClickController[5])
  BY Shapes, ShortFits DEF ClickController, Hides, Covers, Parameters
<1>7. \A i \in 1 .. 5 : ~ Hides(ClickController[i], ClickController[6])
  BY Shapes, ShortFits DEF ClickController, Hides, Covers, Parameters
<1>8. \A i \in 1 .. 6 : ~ Hides(ClickController[i], ClickController[7])
  BY Shapes, ShortFits DEF ClickController, Hides, Covers, Parameters
<1>9. \A i \in 1 .. 7 : ~ Hides(ClickController[i], ClickController[8])
  BY Shapes, ShortFits DEF ClickController, Hides, Covers, Parameters
<1>10. Ordered(ClickController)
  BY <1>1, <1>3, <1>4, <1>5, <1>6, <1>7, <1>8, <1>9 DEF Ordered
<1> QED
  BY <1>1, <1>2, <1>10, ControllerOK DEF Parameters

\* The prefixes of the controllers are all different.
LEMMA RoutesFit == \E prefixes : TableOK(Routes, prefixes)
<1> DEFINE P1 == {"cars"}
           P2 == P1 \cup {"auth"}
           P3 == P2 \cup {"admin"}
           P4 == P3 \cup {"operators"}
           P5 == P4 \cup {"stations"}
           P6 == P5 \cup {"connectors"}
           P7 == P6 \cup {"connector-types"}
           P8 == P7 \cup {"connector-status-logs"}
           P9 == P8 \cup {"pricing"}
           P10 == P9 \cup {"sessions"}
           P11 == P10 \cup {"operator-payouts"}
           P12 == P11 \cup {"wallet"}
           P13 == P12 \cup {"transactions"}
           P14 == P13 \cup {"payments"}
           P15 == P14 \cup {"legal"}
           P16 == P15 \cup {"discount"}
           P17 == P16 \cup {"station-likes"}
           P18 == P17 \cup {"notifications"}
           P19 == P18 \cup {"click"}
           S1 == Controller("cars", JwtRoles, VehicleController)
           S2 == S1 \o Controller("auth", <<>>, AuthController)
           S3 == S2 \o Controller("admin", <<>>, AdminController)
           S4 == S3 \o Controller("operators", <<>>, OperatorController)
           S5 == S4 \o Controller("stations", <<>>, ChargingStationController)
           S6 == S5 \o Controller("connectors", <<>>, ConnectorController)
           S7 == S6 \o Controller("connector-types", <<>>, ConnectorTypeController)
           S8 == S7 \o Controller("connector-status-logs", JwtRoles, ConnectorStatusLogController)
           S9 == S8 \o Controller("pricing", JwtRoles, StationPricingController)
           S10 == S9 \o Controller("sessions", JwtRoles, ChargingSessionController)
           S11 == S10 \o Controller("operator-payouts", JwtRoles, OperatorPayoutController)
           S12 == S11 \o Controller("wallet", JwtRoles, WalletController)
           S13 == S12 \o Controller("transactions", JwtRoles, WalletTransactionController)
           S14 == S13 \o Controller("payments", JwtRoles, PaymentController)
           S15 == S14 \o Controller("legal", <<>>, LegalController)
           S16 == S15 \o Controller("discount", Jwt, DiscountController)
           S17 == S16 \o Controller("station-likes", Jwt, StationLikeController)
           S18 == S17 \o Controller("notifications", Jwt, NotificationController)
           S19 == S18 \o Controller("click", <<>>, ClickController)
<1>1. /\ P1 \cap Parameters = {}
      /\ P1 \cap {"auth"} = {} /\ P2 \cap Parameters = {}
      /\ P2 \cap {"admin"} = {} /\ P3 \cap Parameters = {}
      /\ P3 \cap {"operators"} = {} /\ P4 \cap Parameters = {}
      /\ P4 \cap {"stations"} = {} /\ P5 \cap Parameters = {}
      /\ P5 \cap {"connectors"} = {} /\ P6 \cap Parameters = {}
      /\ P6 \cap {"connector-types"} = {} /\ P7 \cap Parameters = {}
      /\ P7 \cap {"connector-status-logs"} = {} /\ P8 \cap Parameters = {}
      /\ P8 \cap {"pricing"} = {} /\ P9 \cap Parameters = {}
      /\ P9 \cap {"sessions"} = {} /\ P10 \cap Parameters = {}
      /\ P10 \cap {"operator-payouts"} = {} /\ P11 \cap Parameters = {}
      /\ P11 \cap {"wallet"} = {} /\ P12 \cap Parameters = {}
      /\ P12 \cap {"transactions"} = {} /\ P13 \cap Parameters = {}
      /\ P13 \cap {"payments"} = {} /\ P14 \cap Parameters = {}
      /\ P14 \cap {"legal"} = {} /\ P15 \cap Parameters = {}
      /\ P15 \cap {"discount"} = {} /\ P16 \cap Parameters = {}
      /\ P16 \cap {"station-likes"} = {} /\ P17 \cap Parameters = {}
      /\ P17 \cap {"notifications"} = {} /\ P18 \cap Parameters = {}
      /\ P18 \cap {"click"} = {} /\ P19 \cap Parameters = {}
      /\ \A p : p \notin Parameters => {p} \cap Parameters = {}
  BY DEF Parameters
<1>2. Routes = S19
  BY DEF Routes
<1> HIDE DEF P1, P2, P3, P4, P5, P6, P7, P8, P9, P10, P11, P12, P13, P14, P15, P16, P17, P18, P19,
             S1, S2, S3, S4, S5, S6, S7, S8, S9, S10, S11, S12, S13, S14, S15, S16, S17, S18, S19
<1>3. TableOK(S1, P1)
  BY VehicleTable DEF S1, P1
<1>4. TableOK(S2, P2)
  BY <1>3, <1>1, AuthTable, Joined DEF S2, P2, Parameters
<1>5. TableOK(S3, P3)
  BY <1>4, <1>1, AdminTable, Joined DEF S3, P3, Parameters
<1>6. TableOK(S4, P4)
  BY <1>5, <1>1, OperatorTable, Joined DEF S4, P4, Parameters
<1>7. TableOK(S5, P5)
  BY <1>6, <1>1, ChargingStationTable, Joined DEF S5, P5, Parameters
<1>8. TableOK(S6, P6)
  BY <1>7, <1>1, ConnectorTable, Joined DEF S6, P6, Parameters
<1>9. TableOK(S7, P7)
  BY <1>8, <1>1, ConnectorTypeTable, Joined DEF S7, P7, Parameters
<1>10. TableOK(S8, P8)
  BY <1>9, <1>1, ConnectorStatusLogTable, Joined DEF S8, P8, Parameters
<1>11. TableOK(S9, P9)
  BY <1>10, <1>1, StationPricingTable, Joined DEF S9, P9, Parameters
<1>12. TableOK(S10, P10)
  BY <1>11, <1>1, ChargingSessionTable, Joined DEF S10, P10, Parameters
<1>13. TableOK(S11, P11)
  BY <1>12, <1>1, OperatorPayoutTable, Joined DEF S11, P11, Parameters
<1>14. TableOK(S12, P12)
  BY <1>13, <1>1, WalletTable, Joined DEF S12, P12, Parameters
<1>15. TableOK(S13, P13)
  BY <1>14, <1>1, WalletTransactionTable, Joined DEF S13, P13, Parameters
<1>16. TableOK(S14, P14)
  BY <1>15, <1>1, PaymentTable, Joined DEF S14, P14, Parameters
<1>17. TableOK(S15, P15)
  BY <1>16, <1>1, LegalTable, Joined DEF S15, P15, Parameters
<1>18. TableOK(S16, P16)
  BY <1>17, <1>1, DiscountTable, Joined DEF S16, P16, Parameters
<1>19. TableOK(S17, P17)
  BY <1>18, <1>1, StationLikeTable, Joined DEF S17, P17, Parameters
<1>20. TableOK(S18, P18)
  BY <1>19, <1>1, NotificationTable, Joined DEF S18, P18, Parameters
<1>21. TableOK(S19, P19)
  BY <1>20, <1>1, ClickTable, Joined DEF S19, P19, Parameters
<1> QED
  BY <1>2, <1>21
LEMMA EachRoute ==
    /\ Len(Routes) \in Nat
    /\ \A i \in 1 .. Len(Routes) :
           /\ Len(Routes[i].path) \in Nat
           /\ GuardsFit(Routes[i].guards, Routes[i].roles, Routes[i].caller)
    /\ Ordered(Routes)
<1>1. PICK prefixes : TableOK(Routes, prefixes)
  BY RoutesFit
<1>2. PICK S : Routes \in Seq(S)
  BY <1>1 DEF TableOK, IsList
<1>3. Len(Routes) \in Nat
  BY <1>2, LenProperties
<1>4. ASSUME NEW i \in 1 .. Len(Routes)
      PROVE  /\ Len(Routes[i].path) \in Nat
             /\ GuardsFit(Routes[i].guards, Routes[i].roles, Routes[i].caller)
  <2>1. RouteOK(Routes[i], prefixes)
    BY <1>1 DEF TableOK
  <2>2. PICK T : Routes[i].path \in Seq(T)
    BY <2>1 DEF RouteOK, IsList
  <2>3. Len(Routes[i].path) \in Nat
    BY <2>2, LenProperties
  <2> QED
    BY <2>1, <2>3 DEF RouteOK
<1> QED
  BY <1>1, <1>3, <1>4 DEF TableOK

\* A request made as a route declares it is taken by that route.
LEMMA OwnPathIsTaken ==
    ASSUME NEW k \in 1 .. Len(Routes)
    PROVE  /\ Own(k) = OwnPath(Routes[k].path)
           /\ Fits(Routes[k].path, Own(k))
           /\ \A i \in 1 .. k - 1 :
                  ~ (Routes[i].method = Routes[k].method /\ Fits(Routes[i].path, Own(k)))
<1>1. Own(k) = OwnPath(Routes[k].path)
  BY DEF Own, OwnPath
<1>2. Len(Own(k)) = Len(Routes[k].path)
  BY EachRoute DEF Own
<1>3. Fits(Routes[k].path, Own(k))
  BY <1>2, EachRoute DEF Fits, Own
<1> QED
  BY <1>1, <1>3, EachRoute DEF Ordered, Hides

\* What every state satisfies: the request is at the first route that fits it, and the
\* guards it has passed have admitted it.
DispatchInd ==
    /\ DispatchTypeOK
    /\ hit.pc # "none" => hit.meant # 0
    /\ hit.pc = "route" => hit.guard = 0
    /\ hit.pc \in {"guards", "pipes", "handler"} =>
           /\ hit.at # 0 /\ IsTaken(hit.at)
           /\ hit.guard <= Len(Routes[hit.at].guards)
           /\ \A g \in 1 .. hit.guard :
                  Routes[hit.at].guards[g] = "jwt" => hit.bearer # "none"
    /\ hit.pc \in {"pipes", "handler"} => hit.guard = Len(Routes[hit.at].guards)
    /\ hit.pc = "refused" /\ hit.path = Own(hit.meant) => hit.bearer # "ADMIN"

\* The first route that fits a path of its own is the one that declares it.
LEMMA TakenIsMeant ==
    ASSUME hit.meant \in 1 .. Len(Routes), hit.path = Own(hit.meant)
    PROVE  /\ Takes(hit.meant)
           /\ \A i \in 1 .. Len(Routes) : IsTaken(i) => i = hit.meant
<1>1. Takes(hit.meant)
  BY OwnPathIsTaken DEF Takes
<1>2. ASSUME NEW i \in 1 .. Len(Routes), IsTaken(i) PROVE i = hit.meant
  <2>1. CASE i < hit.meant
    <3>1. i \in 1 .. hit.meant - 1
      BY <2>1, EachRoute
    <3> QED
      BY <3>1, <1>2, OwnPathIsTaken DEF IsTaken, Takes
  <2>2. CASE hit.meant < i
    <3>1. hit.meant \in 1 .. i - 1
      BY <2>2, EachRoute
    <3> QED
      BY <3>1, <1>1, <1>2 DEF IsTaken
  <2> QED
    BY <2>1, <2>2, EachRoute
<1> QED
  BY <1>1, <1>2

\* An administrator is admitted by every guard of every route.
LEMMA AdministratorsPass ==
    ASSUME DispatchTypeOK, hit.at # 0, hit.bearer = "ADMIN",
           hit.guard < Len(Routes[hit.at].guards)
    PROVE  Admits(Routes[hit.at].guards[hit.guard + 1])
<1> DEFINE gs == Routes[hit.at].guards
           roles == Routes[hit.at].roles
<1>1. hit.at \in 1 .. Len(Routes) /\ hit.guard \in Nat
  BY EachRoute DEF DispatchTypeOK, Hits
<1>2. GuardsFit(gs, roles, Routes[hit.at].caller)
  BY <1>1, EachRoute
<1>3. hit.guard + 1 \in 1 .. Len(gs)
  BY <1>1, <1>2 DEF GuardsFit
<1>4. gs[hit.guard + 1] \in GuardNames
  BY <1>2, <1>3, ElementOfSeq DEF GuardsFit
<1>5. CASE gs[hit.guard + 1] = "jwt"
  BY <1>5 DEF Admits
<1>6. CASE gs[hit.guard + 1] = "optional"
  BY <1>6 DEF Admits
<1>7. CASE gs[hit.guard + 1] = "roles"
  <2>1. \/ roles = {}
        \/ "ADMIN" \in roles /\ \E h \in 1 .. (hit.guard + 1) - 1 : gs[h] = "jwt"
    BY <1>2, <1>3, <1>7 DEF GuardsFit
  <2>2. (hit.guard + 1) - 1 = hit.guard
    BY <1>1
  <2> QED
    BY <2>1, <2>2, <1>7 DEF Admits
<1> QED
  BY <1>4, <1>5, <1>6, <1>7 DEF GuardNames

LEMMA CallsFit ==
    ASSUME NEW c \in Calls
    PROVE  c[1] \in 1 .. Len(Routes) /\ c[2] \in {d[2] : d \in Calls}
BY DEF Calls

LEMMA DispatchInitInd == DispatchInit => DispatchInd
BY EachRoute DEF DispatchInit, DispatchInd, DispatchTypeOK, Hits, NoHit, Bearers

LEMMA DispatchNextInd == DispatchInd /\ [DispatchNext]_hit => DispatchInd'
<1> SUFFICES ASSUME DispatchInd, [DispatchNext]_hit PROVE DispatchInd'
  OBVIOUS
<1>1. /\ hit \in Hits
      /\ hit.at \in Nat /\ hit.meant \in Nat /\ hit.guard \in Nat
  BY EachRoute DEF DispatchInd, DispatchTypeOK, Hits
<1>2. ASSUME NEW c \in Calls, NEW b \in Bearers, Arrives(c[1], c[2], b) PROVE DispatchInd'
  <2>1. hit' = [pc |-> "route", path |-> c[2], meant |-> c[1], at |-> 0, guard |-> 0,
                bearer |-> b]
    BY <1>2 DEF Arrives, NoHit
  <2>2. c[1] \in 1 .. Len(Routes) /\ c[2] \in {d[2] : d \in Calls}
    BY CallsFit
  <2>3. hit' \in Hits
    BY <2>1, <2>2, EachRoute DEF Hits
  <2> QED
    BY <2>1, <2>2, <2>3, EachRoute DEF DispatchInd, DispatchTypeOK
<1>3. CASE Routed
  <2>1. hit.pc = "route" /\ hit.guard = 0 /\ hit.meant # 0
    BY <1>3 DEF Routed, DispatchInd
  <2>2. ASSUME NEW i \in 1 .. Len(Routes), IsTaken(i),
               hit' = [hit EXCEPT !.pc = "guards", !.at = i]
        PROVE  DispatchInd'
    <3>1. /\ hit' \in Hits
          /\ hit'.pc = "guards" /\ hit'.at = i /\ hit'.guard = 0
          /\ hit'.meant = hit.meant /\ hit'.path = hit.path
      <4>1. i \in 0 .. Len(Routes)
        BY EachRoute
      <4> QED
        BY <4>1, <2>1, <2>2, <1>1 DEF Hits
    <3>2. IsTaken(i)'
      BY <3>1, <2>2 DEF IsTaken, Takes
    <3>3. 0 <= Len(Routes[i].guards)
      BY EachRoute DEF GuardsFit
    <3> QED
      BY <3>1, <3>2, <3>3, <2>1, EachRoute DEF DispatchInd, DispatchTypeOK
  <2>3. ASSUME \A i \in 1 .. Len(Routes) : ~ Takes(i), hit' = [hit EXCEPT !.pc = "refused"]
        PROVE  DispatchInd'
    <3>1. /\ hit' \in Hits
          /\ hit'.pc = "refused" /\ hit'.meant = hit.meant /\ hit'.path = hit.path
      BY <2>3, <1>1 DEF Hits
    <3>2. hit.meant \in 1 .. Len(Routes)
      BY <2>1, <1>1, EachRoute DEF Hits
    <3>3. hit.path # Own(hit.meant)
      BY <2>3, <3>2, TakenIsMeant
    <3> QED
      BY <3>1, <3>3, <2>1 DEF DispatchInd, DispatchTypeOK
  <2> QED
    BY <1>3, <2>2, <2>3 DEF Routed
<1>4. CASE RunsGuard
  <2> DEFINE gs == Routes[hit.at].guards
  <2>1. /\ hit.pc = "guards" /\ hit.meant # 0 /\ hit.at # 0 /\ IsTaken(hit.at)
        /\ hit.guard <= Len(gs)
        /\ \A g \in 1 .. hit.guard : gs[g] = "jwt" => hit.bearer # "none"
    BY <1>4 DEF RunsGuard, DispatchInd
  <2>2. hit.at \in 1 .. Len(Routes)
    BY <2>1, <1>1, EachRoute DEF Hits
  <2>3. Len(gs) \in 0 .. 3
    BY <2>2, EachRoute DEF GuardsFit
  <2>4. CASE hit.guard = Len(gs) /\ hit' = [hit EXCEPT !.pc = "pipes"]
    <3>1. /\ hit' \in Hits
          /\ hit'.pc = "pipes" /\ hit'.meant = hit.meant /\ hit'.path = hit.path
          /\ hit'.at = hit.at /\ hit'.guard = hit.guard /\ hit'.bearer = hit.bearer
      BY <2>4, <1>1 DEF Hits
    <3>2. IsTaken(hit.at)'
      BY <3>1, <2>1 DEF IsTaken, Takes
    <3> QED
      BY <3>1, <3>2, <2>1, <2>4 DEF DispatchInd, DispatchTypeOK
  <2>5. CASE /\ hit.guard # Len(gs) /\ Admits(gs[hit.guard + 1])
             /\ hit' = [hit EXCEPT !.guard = @ + 1]
    <3>1. hit.guard + 1 \in 0 .. 3 /\ hit.guard + 1 <= Len(gs)
      <4>1. hit.guard # Len(gs) /\ hit.guard <= Len(gs) /\ hit.guard \in Nat
        BY <2>1, <2>5, <1>1
      <4>2. \A g \in Nat, l \in 0 .. 3 : g # l /\ g <= l => g + 1 \in 0 .. 3 /\ g + 1 <= l
        OBVIOUS
      <4> QED
        BY <4>1, <4>2, <2>3, Zenon
    <3>2. /\ hit' \in Hits
          /\ hit'.pc = "guards" /\ hit'.meant = hit.meant /\ hit'.path = hit.path
          /\ hit'.at = hit.at /\ hit'.guard = hit.guard + 1 /\ hit'.bearer = hit.bearer
      <4>1. PICK g : g = hit.guard + 1
        OBVIOUS
      <4>2. hit' = [hit EXCEPT !.guard = g]
        BY <4>1, <2>5, Zenon
      <4>3. g \in 0 .. 3
        BY <4>1, <3>1
      <4> QED
        BY <4>1, <4>2, <4>3, <2>1, <1>1 DEF Hits
    <3>3. IsTaken(hit.at)'
      BY <3>2, <2>1 DEF IsTaken, Takes
    <3>4. ASSUME NEW g \in 1 .. hit.guard + 1, gs[g] = "jwt" PROVE hit.bearer # "none"
      <4>1. CASE g \in 1 .. hit.guard
        BY <4>1, <3>4, <2>1
      <4>2. CASE g = hit.guard + 1
        BY <4>2, <3>4, <2>5 DEF Admits
      <4> QED
        BY <4>1, <4>2, <1>1
    <3> QED
      BY <3>1, <3>2, <3>3, <3>4, <2>1 DEF DispatchInd, DispatchTypeOK
  <2>6. CASE /\ hit.guard # Len(gs) /\ ~ Admits(gs[hit.guard + 1])
             /\ hit' = [hit EXCEPT !.pc = "refused"]
    <3>1. /\ hit' \in Hits
          /\ hit'.pc = "refused" /\ hit'.meant = hit.meant /\ hit'.bearer = hit.bearer
      BY <2>6, <1>1 DEF Hits
    <3>2. hit.guard < Len(gs)
      BY <2>1, <2>3, <2>6, <1>1
    <3>3. hit.bearer # "ADMIN"
      BY <2>1, <2>6, <3>2, AdministratorsPass DEF DispatchInd
    <3> QED
      BY <3>1, <3>3, <2>1 DEF DispatchInd, DispatchTypeOK
  <2> QED
    BY <1>4, <2>4, <2>5, <2>6 DEF RunsGuard
<1>5. CASE RunsPipes
  <2> DEFINE read == \A i \in 1 .. Len(hit.path) :
                         Routes[hit.at].path[i] = "#" => hit.path[i] = "7"
  <2>1. /\ hit.pc = "pipes" /\ hit.meant # 0 /\ hit.at # 0 /\ IsTaken(hit.at)
        /\ hit.guard <= Len(Routes[hit.at].guards)
        /\ hit.guard = Len(Routes[hit.at].guards)
        /\ \A g \in 1 .. hit.guard : Routes[hit.at].guards[g] = "jwt" => hit.bearer # "none"
    BY <1>5 DEF RunsPipes, DispatchInd
  <2>2. PICK pc \in {"handler", "refused"} :
            hit' = [hit EXCEPT !.pc = pc] /\ (pc = "refused" <=> ~ read)
    BY <1>5 DEF RunsPipes
  <2> HIDE DEF read
  <2>3. /\ hit' \in Hits
        /\ hit'.pc = pc /\ hit'.meant = hit.meant /\ hit'.path = hit.path
        /\ hit'.at = hit.at /\ hit'.guard = hit.guard /\ hit'.bearer = hit.bearer
    BY <2>2, <1>1 DEF Hits
  <2>4. IsTaken(hit.at)'
    BY <2>3, <2>1 DEF IsTaken, Takes
  <2>5. ASSUME hit.path = Own(hit.meant) PROVE read
    <3>1. hit.meant \in 1 .. Len(Routes) /\ hit.at \in 1 .. Len(Routes)
      BY <2>1, <1>1, EachRoute DEF Hits
    <3>2. hit.at = hit.meant
      BY <3>1, <2>1, <2>5, TakenIsMeant
    <3>3. Len(Own(hit.meant)) = Len(Routes[hit.meant].path)
      BY <3>1, EachRoute DEF Own
    <3> QED
      BY <3>2, <3>3, <2>5 DEF read, Own, Parameters
  <2> QED
    BY <2>1, <2>2, <2>3, <2>4, <2>5 DEF DispatchInd, DispatchTypeOK
<1>6. CASE UNCHANGED hit
  BY <1>6 DEF DispatchInd, DispatchTypeOK, IsTaken, Takes
<1> QED
  BY <1>2, <1>3, <1>4, <1>5, <1>6 DEF DispatchNext

LEMMA DispatchIndImplies == DispatchInd => DispatchInv
<1> SUFFICES ASSUME DispatchInd PROVE DispatchInv
  OBVIOUS
<1>1. /\ hit.meant \in Nat /\ hit.meant <= Len(Routes)
      /\ hit.at \in Nat /\ hit.at <= Len(Routes)
  BY EachRoute DEF DispatchInd, DispatchTypeOK, Hits
<1>2. EachRouteServes
  <2> SUFFICES ASSUME hit.meant # 0, hit.path = Own(hit.meant)
               PROVE  /\ hit.pc = "handler" => hit.at = hit.meant
                      /\ hit.pc = "refused" => hit.bearer # "ADMIN"
    BY DEF EachRouteServes
  <2>1. hit.meant \in 1 .. Len(Routes)
    BY <1>1, EachRoute
  <2>2. ASSUME hit.pc = "handler" PROVE hit.at = hit.meant
    <3>1. hit.at \in 1 .. Len(Routes) /\ IsTaken(hit.at)
      BY <2>2, <1>1, EachRoute DEF DispatchInd
    <3> QED
      BY <3>1, <2>1, TakenIsMeant
  <2> QED
    BY <2>2 DEF DispatchInd
<1>3. CallerKnown
  <2> SUFFICES ASSUME hit.pc = "handler", Routes[hit.at].caller PROVE hit.bearer # "none"
    BY DEF CallerKnown
  <2>1. hit.at \in 1 .. Len(Routes)
    BY <1>1, EachRoute DEF DispatchInd
  <2>2. PICK g \in 1 .. Len(Routes[hit.at].guards) : Routes[hit.at].guards[g] = "jwt"
    BY <2>1, EachRoute DEF GuardsFit
  <2> QED
    BY <2>2 DEF DispatchInd
<1> QED
  BY <1>2, <1>3 DEF DispatchInd, DispatchInv

\* Whatever words the callers use: a request made as a route declares it is taken by that
\* route and no other, administrators get through its guards, and a handler that reads
\* the user is only reached with one.
THEOREM RequestsReachTheirHandlers == DispatchSpec => []DispatchInv
<1>1. DispatchInd /\ [DispatchNext]_hit => DispatchInd'
  BY DispatchNextInd
<1> QED
  BY <1>1, DispatchInitInd, DispatchIndImplies, PTL DEF DispatchSpec
=============================================================================
