----------------------------- MODULE Companions -----------------------------
(***************************************************************************)
(* The parts that share no memory with one another, side by side: the      *)
(* stacks of parked spans, the malloc doors, the pages of the region, the  *)
(* arenas, the slots, the tables of sites, stacks and time, the guarded    *)
(* mode and the names.  They meet only in the values they hand each other, *)
(* so a step of one leaves the others where they are, and interleaving     *)
(* them shows nothing that each alone does not: one of them moves in a     *)
(* behaviour, and every one is what its own module says.                   *)
(***************************************************************************)
EXTENDS SpanStack, AllocSites, StackDepot, ThreadSlots, Guarded, Epochs, RegionPages,
        ScratchArenas, Doors, SmallVectors, CodeNames

VARIABLE part   \* the one that moves

companionVars == <<part, vars, siteVars, depotVars, slotVars, guardVars, epochVars, pageVars,
                   scratchVars, doorVars, vectorVars, nameVars>>

Companion == {"stacks", "sites", "depot", "slots", "guarded", "epochs",
              "pages", "scratch", "doors", "vectors", "names"}

\* A part that does not move starts in one of its states, whichever.
CompanionsInit ==
    /\ part \in Companion
    /\ Init /\ SitesInit /\ DepotInit /\ SlotsInit /\ GuardedInit /\ EpochsInit
    /\ PagesInit /\ ScratchInit /\ DoorsInit /\ VectorsInit /\ NamesInit
    /\ part # "stacks" => held[CHOOSE t \in Threads : TRUE] = Spans
    /\ part # "guarded" => under = CHOOSE e \in Edges : TRUE
    /\ part # "epochs" => plan = CHOOSE p \in Plans : TRUE
    /\ part # "doors" => build = CHOOSE b \in Builds : TRUE

StacksMove ==
    /\ part = "stacks" /\ Next
    /\ UNCHANGED <<part, siteVars, depotVars, slotVars, guardVars, epochVars, pageVars,
                   scratchVars, doorVars, vectorVars, nameVars>>
SitesMove ==
    /\ part = "sites" /\ SitesNext
    /\ UNCHANGED <<part, vars, depotVars, slotVars, guardVars, epochVars, pageVars,
                   scratchVars, doorVars, vectorVars, nameVars>>
DepotMove ==
    /\ part = "depot" /\ DepotNext
    /\ UNCHANGED <<part, vars, siteVars, slotVars, guardVars, epochVars, pageVars,
                   scratchVars, doorVars, vectorVars, nameVars>>
SlotsMove ==
    /\ part = "slots" /\ SlotsNext
    /\ UNCHANGED <<part, vars, siteVars, depotVars, guardVars, epochVars, pageVars,
                   scratchVars, doorVars, vectorVars, nameVars>>
GuardedMove ==
    /\ part = "guarded" /\ GuardedNext
    /\ UNCHANGED <<part, vars, siteVars, depotVars, slotVars, epochVars, pageVars,
                   scratchVars, doorVars, vectorVars, nameVars>>
EpochsMove ==
    /\ part = "epochs" /\ EpochsNext
    /\ UNCHANGED <<part, vars, siteVars, depotVars, slotVars, guardVars, pageVars,
                   scratchVars, doorVars, vectorVars, nameVars>>
PagesMove ==
    /\ part = "pages" /\ PagesNext
    /\ UNCHANGED <<part, vars, siteVars, depotVars, slotVars, guardVars, epochVars,
                   scratchVars, doorVars, vectorVars, nameVars>>
ScratchMove ==
    /\ part = "scratch" /\ ScratchNext
    /\ UNCHANGED <<part, vars, siteVars, depotVars, slotVars, guardVars, epochVars,
                   pageVars, doorVars, vectorVars, nameVars>>
DoorsMove ==
    /\ part = "doors" /\ DoorsNext
    /\ UNCHANGED <<part, vars, siteVars, depotVars, slotVars, guardVars, epochVars,
                   pageVars, scratchVars, vectorVars, nameVars>>
VectorsMove ==
    /\ part = "vectors" /\ VectorsNext
    /\ UNCHANGED <<part, vars, siteVars, depotVars, slotVars, guardVars, epochVars,
                   pageVars, scratchVars, doorVars, nameVars>>
NamesMove ==
    /\ part = "names" /\ NamesNext
    /\ UNCHANGED <<part, vars, siteVars, depotVars, slotVars, guardVars, epochVars,
                   pageVars, scratchVars, doorVars, vectorVars>>

CompanionsNext ==
    \/ StacksMove
    \/ SitesMove
    \/ DepotMove
    \/ SlotsMove
    \/ GuardedMove
    \/ EpochsMove
    \/ PagesMove
    \/ ScratchMove
    \/ DoorsMove
    \/ VectorsMove
    \/ NamesMove

CompanionsSpec == CompanionsInit /\ [][CompanionsNext]_companionVars
=============================================================================
