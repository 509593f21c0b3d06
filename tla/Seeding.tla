------------------------------- MODULE Seeding -------------------------------
(***************************************************************************)
(* The seed script and the rows that administrators create beside it.      *)
(* Source: prisma/seed.ts, modules/operator and modules/connector-type.    *)
(*                                                                         *)
(* The seed writes operators under ids of its own, which the sequence of   *)
(* the table does not know; connector types under names, with ids that the *)
(* sequence draws; and connectors that name their type by its id.  Each    *)
(* upsert is a statement, and the script may stop or fail after any.       *)
(***************************************************************************)
EXTENDS Naturals, Sequences

CONSTANTS Names,        \* names of connector types
          TypeOrder,    \* those the seed writes, in its order
          SeedOps,      \* operators of the seed: ids 1 .. SeedOps
          TypeIds,      \* the types that its connectors name, in its order
          MaxId,        \* bound on ids drawn from either sequence
          NoName

ASSUME NamesAssumption == NoName \notin Names /\ TypeOrder \in Seq(Names)
ASSUME IdsAssumption ==
    /\ SeedOps \in Nat \ {0} /\ MaxId \in Nat /\ SeedOps <= MaxId
    /\ Len(TypeOrder) <= MaxId /\ TypeIds \in Seq(1 .. Len(TypeOrder))
ASSUME OrderAssumption ==
    \A i, j \in 1 .. Len(TypeOrder) : TypeOrder[i] = TypeOrder[j] => i = j

VARIABLES operators,   \* ids in use
          drawnOps,    \* the last id drawn for an operator
          refusals,    \* how often a creation met each id taken (history)
          types,       \* names of connector types by id
          drawnTypes,  \* the last id drawn for a type
          plugs,       \* type ids of the seed's connectors; 0 if they have none
          at,          \* the statement the seed is at; 0 if it is not running
          tidy         \* types were never renamed or removed, and nobody else created
                       \* one, nor did the seed stop, halfway through them (history)

seedVars == <<operators, drawnOps, refusals, types, drawnTypes, plugs, at, tidy>>

Last == SeedOps + Len(TypeOrder) + Len(TypeIds)

SeedTypeOK ==
    /\ operators \subseteq 1 .. MaxId
    /\ drawnOps \in 0 .. MaxId
    /\ refusals \in [1 .. MaxId -> Nat]
    /\ types \in [1 .. MaxId -> Names \cup {NoName}]
    /\ drawnTypes \in 0 .. MaxId
    /\ plugs \in [1 .. Len(TypeIds) -> 0 .. MaxId]
    /\ at \in 0 .. Last
    /\ tidy \in BOOLEAN

SeedInit ==
    /\ operators = {}
    /\ drawnOps = 0
    /\ refusals = [i \in 1 .. MaxId |-> 0]
    /\ types = [i \in 1 .. MaxId |-> NoName]
    /\ drawnTypes = 0
    /\ plugs = [c \in 1 .. Len(TypeIds) |-> 0]
    /\ at = 0
    /\ tidy = TRUE

Known(n) == \E i \in 1 .. MaxId : types[i] = n

\* All the types of the seed are there.
AllKnown == \A j \in 1 .. Len(TypeOrder) : Known(TypeOrder[j])
NoneKnown == \A j \in 1 .. Len(TypeOrder) : ~ Known(TypeOrder[j])

-----------------------------------------------------------------------------
(* The seed.                                                               *)

SeedStarts ==
    /\ at = 0
    /\ at' = 1
    /\ UNCHANGED <<operators, drawnOps, refusals, types, drawnTypes, plugs, tidy>>

Proceeds == at' = IF at = Last THEN 0 ELSE at + 1

\* upsert by id: overwritten if it exists
SeedsOperator ==
    /\ at \in 1 .. SeedOps
    /\ operators' = operators \cup {at}
    /\ Proceeds
    /\ UNCHANGED <<drawnOps, refusals, types, drawnTypes, plugs, tidy>>

\* upsert by name; an insert that turns into an update may have drawn an id, too
SeedsType ==
    LET n == TypeOrder[at - SeedOps] IN
    /\ at \in SeedOps + 1 .. SeedOps + Len(TypeOrder)
    /\ \/ /\ Known(n)
          /\ types' = types
          /\ drawnTypes' \in {drawnTypes, drawnTypes + 1} \cap 0 .. MaxId
       \/ /\ ~ Known(n)
          /\ drawnTypes < MaxId
          /\ drawnTypes' = drawnTypes + 1
          /\ types' = [types EXCEPT ![drawnTypes + 1] = n]
    /\ Proceeds
    /\ UNCHANGED <<operators, drawnOps, refusals, plugs, tidy>>

\* The ids count from 0.
Named_FromZero(c) == TypeIds[c] + 1

Named(c) == TypeIds[c]

\* upsert by station and number; a type that is missing ends the script
SeedsConnector ==
    LET c == at - SeedOps - Len(TypeOrder) IN
    /\ at \in SeedOps + Len(TypeOrder) + 1 .. Last
    /\ IF types[Named(c)] # NoName
       THEN plugs' = [plugs EXCEPT ![c] = Named(c)] /\ Proceeds
       ELSE at' = 0 /\ UNCHANGED plugs
    /\ UNCHANGED <<operators, drawnOps, refusals, types, drawnTypes, tidy>>

SeedEnds ==
    /\ at # 0
    /\ at' = 0
    /\ tidy' = (tidy /\ (AllKnown \/ NoneKnown))
    /\ UNCHANGED <<operators, drawnOps, refusals, types, drawnTypes, plugs>>

-----------------------------------------------------------------------------
(* Administrators.                                                         *)

\* A drawn id is not returned when the insert fails.
CreateOperator ==
    LET i == drawnOps + 1 IN
    /\ drawnOps < MaxId
    /\ drawnOps' = i
    /\ operators' = operators \cup {i}
    /\ refusals' = IF i \in operators THEN [refusals EXCEPT ![i] = @ + 1] ELSE refusals
    /\ UNCHANGED <<types, drawnTypes, plugs, at, tidy>>

RemoveOperator(i) ==
    /\ i \in operators
    /\ operators' = operators \ {i}
    /\ UNCHANGED <<drawnOps, refusals, types, drawnTypes, plugs, at, tidy>>

\* Names are unique.
CreateType(n) ==
    /\ ~ Known(n)
    /\ drawnTypes < MaxId
    /\ drawnTypes' = drawnTypes + 1
    /\ types' = [types EXCEPT ![drawnTypes + 1] = n]
    /\ tidy' = (tidy /\ AllKnown)
    /\ UNCHANGED <<operators, drawnOps, refusals, plugs, at>>

RenameType(i, n) ==
    /\ types[i] # NoName
    /\ ~ Known(n)
    /\ types' = [types EXCEPT ![i] = n]
    /\ tidy' = FALSE
    /\ UNCHANGED <<operators, drawnOps, refusals, drawnTypes, plugs, at>>

\* onDelete: SetNull
RemoveType(i) ==
    /\ types[i] # NoName
    /\ types' = [types EXCEPT ![i] = NoName]
    /\ plugs' = [c \in 1 .. Len(TypeIds) |-> IF plugs[c] = i THEN 0 ELSE plugs[c]]
    /\ tidy' = FALSE
    /\ UNCHANGED <<operators, drawnOps, refusals, drawnTypes, at>>

SeedNext ==
    \/ SeedStarts \/ SeedsOperator \/ SeedsType \/ SeedsConnector \/ SeedEnds
    \/ CreateOperator
    \/ \E i \in 1 .. MaxId : RemoveOperator(i) \/ RemoveType(i)
    \/ \E n \in Names : CreateType(n)
    \/ \E i \in 1 .. MaxId, n \in Names : RenameType(i, n)

SeedSpec == SeedInit /\ [][SeedNext]_seedVars

-----------------------------------------------------------------------------

\* The connectors of the seed have the types it means (their ids are those of the list,
\* seed.ts:110-117, 139-218), if the list was first written into an empty table in one
\* go and was not edited since; running the seed again changes nothing about that.  A
\* seed that stops halfway may, when it runs again, leave gaps in the ids and give
\* connectors another type, or none.
PlugsAsMeant ==
    tidy => \A c \in 1 .. Len(TypeIds) :
                plugs[c] # 0 => types[plugs[c]] = TypeOrder[TypeIds[c]]

\* Creating an operator fails once for each id the seed took, and then no more
\* (seed.ts:41-82): the sequence passes them.
RefusedOnce ==
    \A i \in 1 .. MaxId :
        /\ refusals[i] <= IF i <= SeedOps THEN 1 ELSE 0
        /\ i > drawnOps => refusals[i] = 0 /\ (i \in operators => i <= SeedOps)

SeedInv == SeedTypeOK /\ PlugsAsMeant /\ RefusedOnce
=============================================================================
