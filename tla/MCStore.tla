------------------------------ MODULE MCStore ------------------------------
(***************************************************************************)
(* Two @relaxed stores under killed processes and power failures; a store  *)
(* that is synced per record beside a @relaxed one under power failures;   *)
(* one synced store that another task saves, under killed processes or     *)
(* under power failures.  (A killed process and then a power failure lose  *)
(* a row of a synced store: see MCStoreRestart.cfg.)                       *)
(***************************************************************************)
EXTENDS Store

CONSTANTS SyncedOnes,  \* the stores that are synced per record but in the first part
          MixedPuts,   \* the bound on mutations in the second part
          OtherTasks   \* who saves in the last two

VARIABLE part          \* "relaxed", "mixed", "saved, killed" or "saved, power"

Mixed == INSTANCE Store WITH Synced <- SyncedOnes, Faults <- {"power"}, MaxPuts <- MixedPuts, MaxDepth <- 1
Killed == INSTANCE Store WITH Synced <- SyncedOnes, Faults <- {"kill"}, MaxDepth <- 1, Savers <- OtherTasks
Power == INSTANCE Store WITH Synced <- SyncedOnes, Faults <- {"power"}, MaxDepth <- 1, Savers <- OtherTasks

mc_vars == <<vars, part>>

MCInit == \/ Init /\ part \in {"relaxed", "mixed"}
          \/ Power!Init /\ part \in {"saved, killed", "saved, power"}

MCWork == /\ UNCHANGED <<saving, part>>
          /\ \/ part = "relaxed" /\ Work
             \/ part = "mixed" /\ Mixed!Work
             \/ part = "saved, killed" /\ Killed!Work
             \/ part = "saved, power" /\ Power!Work

MCNext == /\ UNCHANGED part
          /\ \/ part = "relaxed" /\ Next
             \/ part = "mixed" /\ Mixed!Next
             \/ part = "saved, killed" /\ Killed!Next /\ open' \subseteq SyncedOnes
             \/ part = "saved, power" /\ Power!Next /\ open' \subseteq SyncedOnes

MCSpec == MCInit /\ [][MCNext]_mc_vars /\ WF_mc_vars(MCWork)
=============================================================================
