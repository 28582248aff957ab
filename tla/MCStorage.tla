------------------------------ MODULE MCStorage ------------------------------
(***************************************************************************)
(* Two components that are derived from the disk and share no state: the   *)
(* used space and the stored trees.  A behaviour is one of either.         *)
(***************************************************************************)
EXTENDS Quota, Trees, TLC

CONSTANTS busy, idle

VARIABLE part

ASSUME StorageAssumption == QuotaAssumption /\ TreesAssumption

(* A client may announce less than nothing.                                *)
MCSizes == {-1, 1}

(* The files of one user change once, the other's never after the          *)
(* directory.                                                              *)
MCMaxVersion == busy :> 1 @@ idle :> 0

vars == <<part, quotaVars, treeVars>>

InSpace == part = "space" /\ UNCHANGED <<part, treeVars>>

InTrees == part = "trees" /\ UNCHANGED <<part, quotaVars>>

(* The trees do not care about the dedicated space.                        *)
StorageInit ==
    /\ part \in {"space", "trees"}
    /\ QuotaInit /\ Init
    /\ part = "trees" => dedicatedSpaceBytes = CHOOSE total \in Totals : TRUE

StorageNext == (InSpace /\ QuotaNext) \/ (InTrees /\ Next)

(* The cron jobs start again and again, and the disk and the database      *)
(* answer; they may refuse, too.                                           *)
Fairness ==
    /\ \A w \in Walks :
          /\ WF_vars(InSpace /\ UpdateUsedSpace(w))
          /\ WF_vars(InSpace /\ Lstat(w))
          /\ WF_vars(InSpace /\ EndWalk(w))
    /\ \A t \in Tasks :
          /\ SF_vars(InTrees /\ UpdateIndexes(t))
          /\ WF_vars(InTrees /\ (Continue(t) \/ Refused(t)))

StorageSpec == StorageInit /\ [][StorageNext]_vars /\ Fairness

(* Both components keep their types; in particular nothing is stored of a  *)
(* directory that is not there.                                            *)
TypesOK == QuotaTypeOK /\ TypeOK
=============================================================================
