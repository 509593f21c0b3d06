----------------------------- MODULE SavedCards ------------------------------
(***************************************************************************)
(* Saved cards: a token from Click for a card, the SMS code that proves    *)
(* it, payments with it, and its removal.                                  *)
(* Source: modules/click/click.service.ts 260-449 and the model SavedCard; *)
(* Click itself is external.                                               *)
(*                                                                         *)
(* A request in flight occupies a slot of CardReqs: first a read, then     *)
(* Click's answer, then a write.  Numbers are masked card numbers.  What a *)
(* payment does to wallets is in ClickBilling.                             *)
(***************************************************************************)
EXTENDS Naturals

CONSTANTS Owners,     \* users
          Rows,       \* rows of SavedCard, over the life of the system
          Tokens, Numbers, CardReqs, NoOne

ASSUME NoOneAssumption == NoOne \notin Owners \cup Rows \cup Tokens \cup Numbers

VARIABLES card,       \* SavedCard
          number,     \* Click: the card that a token stands for
          cardReq,
          proved,     \* who gave the SMS code of which token (history)
          charged     \* who paid with which token (history)

cardVars == <<card, number, cardReq, proved, charged>>

CardRows == [state : {"unused", "saved", "deleted"}, owner : Owners \cup {NoOne},
             token : Tokens \cup {NoOne}, verified : BOOLEAN]
CardCalls == [pc : {"idle", "request", "save", "verify", "mark", "pay"},
              owner : Owners \cup {NoOne}, number : Numbers \cup {NoOne},
              token : Tokens \cup {NoOne}, row : Rows \cup {NoOne}]
Resting == [pc |-> "idle", owner |-> NoOne, number |-> NoOne, token |-> NoOne, row |-> NoOne]

CardTypeOK ==
    /\ card \in [Rows -> CardRows]
    /\ number \in [Tokens -> Numbers \cup {NoOne}]
    /\ cardReq \in [CardReqs -> CardCalls]
    /\ proved \subseteq Owners \X Tokens
    /\ charged \subseteq Owners \X Tokens

CardInit ==
    /\ card = [i \in Rows |->
                 [state |-> "unused", owner |-> NoOne, token |-> NoOne, verified |-> FALSE]]
    /\ number = [t \in Tokens |-> NoOne]
    /\ cardReq = [r \in CardReqs |-> Resting]
    /\ proved = {}
    /\ charged = {}

Saved == {i \in Rows : card[i].state = "saved"}

CardCall(r, call) == cardReq[r] = Resting /\ cardReq' = [cardReq EXCEPT ![r] = call]

CardDone(r) == cardReq' = [cardReq EXCEPT ![r] = Resting]

-----------------------------------------------------------------------------
(* createCardToken.                                                        *)

SameCard(o, n) == {i \in Saved : card[i].owner = o /\ number[card[i].token] = n}

\* findFirst without an order: the row it returns may be any of the user's rows for
\* this card, and only that one is looked at.
AddBegins(r, o, n) ==
    /\ SameCard(o, n) = {} \/ \E i \in SameCard(o, n) : ~ card[i].verified
    /\ CardCall(r, [Resting EXCEPT !.pc = "request", !.owner = o, !.number = n])
    /\ UNCHANGED <<card, number, proved, charged>>

\* Click answers with a token of this card, an old one or a new one.
ClickIssues(r, t) ==
    LET n == cardReq[r].number IN
    /\ cardReq[r].pc = "request"
    /\ number[t] \in {n, NoOne}
    /\ number' = [number EXCEPT ![t] = n]
    /\ cardReq' = [cardReq EXCEPT ![r].pc = "save", ![r].token = t]
    /\ UNCHANGED <<card, proved, charged>>

\* update: { userId }
OnConflict_TakesOver(i, o) == [card EXCEPT ![i].owner = o]

\* update: {}
OnConflict(i, o) == card

Saves(r, i) ==
    LET q == cardReq[r]
        held == {j \in Saved : card[j].token = q.token} IN
    /\ q.pc = "save"
    /\ IF held = {}
       THEN /\ card[i].state = "unused"
            /\ card' = [card EXCEPT ![i] =
                   [state |-> "saved", owner |-> q.owner, token |-> q.token, verified |-> FALSE]]
       ELSE i \in held /\ card' = OnConflict(i, q.owner)
    /\ CardDone(r)
    /\ UNCHANGED <<number, proved, charged>>

-----------------------------------------------------------------------------
(* verifyCardToken.                                                        *)

VerifyCardBegins(r, o, i) ==
    /\ i \in Saved
    /\ card[i].owner = o
    /\ CardCall(r, [Resting EXCEPT !.pc = "verify", !.owner = o, !.row = i,
                                   !.token = card[i].token])
    /\ UNCHANGED <<card, number, proved, charged>>

\* The code is right.
ClickConfirms(r) ==
    /\ cardReq[r].pc = "verify"
    /\ proved' = proved \cup {<<cardReq[r].owner, cardReq[r].token>>}
    /\ cardReq' = [cardReq EXCEPT ![r].pc = "mark"]
    /\ UNCHANGED <<card, number, charged>>

\* update throws if the row is gone.
MarksVerified(r) ==
    LET i == cardReq[r].row IN
    /\ cardReq[r].pc = "mark"
    /\ card' = IF i \in Saved THEN [card EXCEPT ![i].verified = TRUE] ELSE card
    /\ CardDone(r)
    /\ UNCHANGED <<number, proved, charged>>

-----------------------------------------------------------------------------
(* payWithToken and deleteCard.                                            *)

MayPay(o, i) == i \in Saved /\ card[i].owner = o /\ card[i].verified

PayBegins(r, o, i) ==
    /\ MayPay(o, i)
    /\ CardCall(r, [Resting EXCEPT !.pc = "pay", !.owner = o, !.row = i, !.token = card[i].token])
    /\ UNCHANGED <<card, number, proved, charged>>

ClickCharges(r) ==
    /\ cardReq[r].pc = "pay"
    /\ charged' = charged \cup {<<cardReq[r].owner, cardReq[r].token>>}
    /\ CardDone(r)
    /\ UNCHANGED <<card, number, proved>>

\* Checking the owner and deleting are two statements; the owner of a row never
\* changes and the second of two deletions throws, so one step stands for both.
DeleteCard(o, i) ==
    /\ i \in Saved
    /\ card[i].owner = o
    /\ card' = [card EXCEPT ![i].state = "deleted"]
    /\ UNCHANGED <<number, cardReq, proved, charged>>

\* Click refuses or cannot be reached, or the process stops.
CardCutOff(r) ==
    /\ cardReq[r] # Resting
    /\ CardDone(r)
    /\ UNCHANGED <<card, number, proved, charged>>

CardNext ==
    \/ \E r \in CardReqs, o \in Owners, n \in Numbers : AddBegins(r, o, n)
    \/ \E r \in CardReqs, t \in Tokens : ClickIssues(r, t)
    \/ \E r \in CardReqs, i \in Rows : Saves(r, i)
    \/ \E r \in CardReqs, o \in Owners, i \in Rows : VerifyCardBegins(r, o, i) \/ PayBegins(r, o, i)
    \/ \E r \in CardReqs : ClickConfirms(r) \/ MarksVerified(r) \/ ClickCharges(r) \/ CardCutOff(r)
    \/ \E o \in Owners, i \in Rows : DeleteCard(o, i)

CardSpec == CardInit /\ [][CardNext]_cardVars

-----------------------------------------------------------------------------

\* Tokens are unique, a card marked verified was proved by the owner of its row,
\* and a request carries the owner and the token of the row it read.
RowsOK ==
    /\ \A i, j \in Saved : card[i].token = card[j].token => i = j
    /\ \A i \in Rows : card[i].state # "unused" =>
           card[i].owner \in Owners /\ card[i].token \in Tokens
    /\ \A i \in Rows : card[i].verified => <<card[i].owner, card[i].token>> \in proved

CardCallsOK ==
    \A r \in CardReqs :
        LET q == cardReq[r] IN
        /\ q.pc # "idle" => q.owner \in Owners
        /\ q.pc = "request" => q.number \in Numbers
        /\ q.pc = "save" => q.token \in Tokens
        /\ q.pc \in {"verify", "mark", "pay"} =>
               /\ q.row \in Rows
               /\ card[q.row].state # "unused"
               /\ card[q.row].owner = q.owner
               /\ card[q.row].token = q.token
        /\ q.pc \in {"mark", "pay"} => <<q.owner, q.token>> \in proved

\* A card is charged only for the user who gave the SMS code of that card, even
\* when two users add one card and Click gives both the same token
\* (click.service.ts:294), and whatever is deleted or added again meanwhile.
CardsInv ==
    /\ CardTypeOK
    /\ RowsOK
    /\ CardCallsOK
    /\ charged \subseteq proved
=============================================================================
