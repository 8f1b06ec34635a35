--------------------------- MODULE MCBattleHost ---------------------------
(* Values for the constants of BattleHost in the model-checking runs. *)
EXTENDS BattleHost

Report(spec, ready, sync) == [spectator |-> spec, ready |-> ready, sync |-> sync]

\* A spectator, a player that is ready, one that is not, one that still loads.
MCReports == {Report(TRUE, FALSE, SYNC_SYNCED), Report(FALSE, TRUE, SYNC_SYNCED),
              Report(FALSE, FALSE, SYNC_SYNCED), Report(FALSE, TRUE, SYNC_UNKNOWN)}

\* As little as the ready-up time depends on.
MCReportsReady == {Report(TRUE, FALSE, SYNC_SYNCED), Report(FALSE, TRUE, SYNC_SYNCED),
                   Report(FALSE, FALSE, SYNC_SYNCED)}
===========================================================================
