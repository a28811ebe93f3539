------------------------------ MODULE OwnerBets ------------------------------
(***************************************************************************)
(* The bets route and the settlement route over the same rows.  PATCH reads*)
(* the whole bet row, merges notes and tags into it and hands the merged   *)
(* row to updateBetRecord, which writes status, result and review fields   *)
(* back as they were read.                                                 *)
(***************************************************************************)
EXTENDS BetSettlement

CONSTANTS Patchers,  \* concurrent PATCH requests of the bets route
          Notes      \* what notes and tags may hold

VARIABLES note,      \* notes and tags of each bet
          patch      \* the PATCH in flight: bet, the row it read, the new notes

ownerVars == <<vars, note, patch>>

OwnerInit ==
    /\ Init
    /\ note  = [b \in Bets |-> None]
    /\ patch = [p \in Patchers |-> None]

(* PATCH /bets?id=b, first await: the row is read; an unknown bet is a 404.  *)
ReadForPatch(p, b, n) ==
    /\ patch[p] = None
    /\ bet[b].status # "absent"
    /\ patch' = [patch EXCEPT ![p] = [bet |-> b, row |-> bet[b], note |-> n]]
    /\ UNCHANGED <<vars, note>>

(* PATCH, second await: updateBetRecord writes the merged row.               *)
UpdateBetRecord(p) ==
    /\ patch[p] # None
    /\ bet'   = [bet EXCEPT ![patch[p].bet] = patch[p].row]
    /\ note'  = [note EXCEPT ![patch[p].bet] = patch[p].note]
    /\ patch' = [patch EXCEPT ![p] = None]
    /\ UNCHANGED <<event, ledger, balance, pc, cmd, snap, delta, queue, failed>>

OwnerNext ==
    \/ SettlementNext /\ UNCHANGED <<note, patch>>
    \/ \E p \in Patchers, b \in Bets, n \in Notes : ReadForPatch(p, b, n)
    \/ \E p \in Patchers : UpdateBetRecord(p)

OwnerSpec == OwnerInit /\ [][OwnerNext]_ownerVars

-----------------------------------------------------------------------------
(* ADR-0050: "Settlement state changes only through the append-only          *)
(* settlement endpoint.  Generic bet PATCH may edit notes/tags but cannot    *)
(* change status, result, or settlement projection."                         *)
PatchKeepsSettlement ==
    [][ \A b \in Bets : note'[b] # note[b] => bet'[b] = bet[b] ]_ownerVars
=============================================================================
