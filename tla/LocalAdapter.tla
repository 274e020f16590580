---------------------------- MODULE LocalAdapter ----------------------------
(***************************************************************************)
(* Training on the device (omls/local-training-pipeline.ts) and serving    *)
(* what it trained (omls/local-adapter-server.ts): a directory with the    *)
(* adapter, its metadata, earlier versions and the pid of a server that    *)
(* outlives the process which started it.                                  *)
(*                                                                         *)
(* Weights are numbered by the training that made them.  The trainers      *)
(* write the adapter to the directory the pipeline names.                  *)
(***************************************************************************)
EXTENDS Integers, FiniteSets

CONSTANTS MaxTrained,   \* bound: trainings
          MaxServers    \* bound: servers ever started

ASSUME LocalAdapterAssumption == MaxTrained \in Nat \ {0} /\ MaxServers \in Nat \ {0}

VARIABLES adapter,    \* adapter.safetensors: the weights in it, 0 for no file
          version,    \* of adapter.meta.json, 0 for no file
          archive,    \* adapter.v<n>.safetensors: the weights in each, 0 for none
          weightsOf,  \* history: the weights a training has called version n
          local,      \* the pipeline: where it is and the version it has read
          rolling,    \* the rollback: the same
          servers,    \* the servers that run: the weights each has loaded
          serverPid,  \* the server that server.pid names, 0 for none
          trained     \* weights made so far

adapterVars ==
  <<adapter, version, archive, weightsOf, local, rolling, servers, serverPid, trained>>

Weights == 0..MaxTrained
At(stage, v) == [at |-> stage, version |-> v]
Idle == At("idle", 0)

AdapterTypeOK ==
  /\ adapter \in Weights /\ version \in Weights /\ trained \in Weights
  /\ archive \in [1..MaxTrained -> Weights] /\ weightsOf \in [1..MaxTrained -> Weights]
  /\ local \in [at : {"idle", "trained", "archiving", "saving"}, version : 0..MaxTrained + 1]
  /\ rolling \in [at : {"idle", "copying", "saving", "stopping"}, version : Weights]
  /\ servers \in [1..MaxServers -> Weights] /\ serverPid \in 0..MaxServers

AdapterInit ==
  /\ adapter = 0 /\ version = 0 /\ trained = 0 /\ serverPid = 0
  /\ archive = [n \in 1..MaxTrained |-> 0] /\ weightsOf = [n \in 1..MaxTrained |-> 0]
  /\ local = Idle /\ rolling = Idle
  /\ servers = [i \in 1..MaxServers |-> 0]

-----------------------------------------------------------------------------
(***************************************************************************)
(* runLocalTrainingPipeline, in one process at a time                      *)
(***************************************************************************)

\* The trainer is a program of its own; its adapter replaces the last one.
TrainLocally ==
  /\ local = Idle /\ trained < MaxTrained
  /\ trained' = trained + 1 /\ adapter' = trained + 1
  /\ local' = At("trained", 0)
  /\ UNCHANGED <<version, archive, weightsOf, rolling, servers, serverPid>>

ReadVersion ==
  /\ local.at = "trained"
  /\ local' = At("archiving", version + 1)
  /\ UNCHANGED <<adapter, version, archive, weightsOf, rolling, servers, serverPid, trained>>

\* "Archive current adapter before overwriting": a copy of the file as it is
\* now.  A copy that fails is taken for a file that was not there.
ArchiveAdapter ==
  /\ local.at = "archiving"
  /\ \/ /\ local.version > 1 /\ adapter # 0
        /\ archive' = [archive EXCEPT ![local.version - 1] = adapter]
     \/ UNCHANGED archive
  /\ local' = [local EXCEPT !.at = "saving"]
  /\ UNCHANGED <<adapter, version, weightsOf, rolling, servers, serverPid, trained>>

\* The batch is tagged after that (see Training).
SaveMeta ==
  /\ local.at = "saving"
  /\ version' = local.version
  /\ weightsOf' = [weightsOf EXCEPT ![local.version] = trained]
  /\ local' = Idle
  /\ UNCHANGED <<adapter, archive, rolling, servers, serverPid, trained>>

\* A write fails, or the process dies.
LocalTrainingFails ==
  /\ local # Idle
  /\ local' = Idle
  /\ UNCHANGED <<adapter, version, archive, weightsOf, rolling, servers, serverPid, trained>>

-----------------------------------------------------------------------------
(***************************************************************************)
(* rollbackLocalAdapter                                                    *)
(***************************************************************************)
Earlier == {n \in 1..(version - 1) : archive[n] # 0}

FindEarlier ==
  /\ rolling = Idle /\ adapter # 0 /\ version > 1 /\ Earlier # {}
  /\ \E n \in Earlier : /\ \A m \in Earlier : m <= n
                        /\ rolling' = At("copying", n)
  /\ UNCHANGED <<adapter, version, archive, weightsOf, local, servers, serverPid, trained>>

CopyBack ==
  /\ rolling.at = "copying"
  /\ adapter' = archive[rolling.version]
  /\ rolling' = [rolling EXCEPT !.at = "saving"]
  /\ UNCHANGED <<version, archive, weightsOf, local, servers, serverPid, trained>>

SaveEarlier ==
  /\ rolling.at = "saving"
  /\ version' = rolling.version
  /\ rolling' = [rolling EXCEPT !.at = "stopping"]
  /\ UNCHANGED <<adapter, archive, weightsOf, local, servers, serverPid, trained>>

\* stopLocalAdapterServer: a server that is not there any more keeps its file.
StopAdapterServer ==
  /\ rolling.at = "stopping"
  /\ rolling' = Idle
  /\ IF serverPid # 0 /\ servers[serverPid] # 0
       THEN servers' = [servers EXCEPT ![serverPid] = 0] /\ serverPid' = 0
       ELSE UNCHANGED <<servers, serverPid>>
  /\ UNCHANGED <<adapter, version, archive, weightsOf, local, trained>>

RollbackDies ==
  /\ rolling # Idle
  /\ rolling' = Idle
  /\ UNCHANGED <<adapter, version, archive, weightsOf, local, servers, serverPid, trained>>

-----------------------------------------------------------------------------
(***************************************************************************)
(* resolveLocalAdapterServer                                               *)
(***************************************************************************)
Unused == {i \in 1..MaxServers : i > serverPid /\ \A j \in i..MaxServers : servers[j] = 0}

\* A server that answers is used again, with the adapter that it has loaded.
\* If none does one is started; while the port is taken, by a server that is
\* slow to answer or that the file does not name, it ends at once.
StartAdapterServer ==
  /\ version # 0 /\ adapter # 0
  /\ \E i \in Unused :
       /\ \A j \in Unused : i <= j
       /\ serverPid' = i
       /\ servers' = IF \E j \in 1..MaxServers : servers[j] # 0
                       THEN servers ELSE [servers EXCEPT ![i] = adapter]
  /\ UNCHANGED <<adapter, version, archive, weightsOf, local, rolling, trained>>

ServerEnds(i) ==
  /\ servers[i] # 0
  /\ servers' = [servers EXCEPT ![i] = 0]
  /\ UNCHANGED <<adapter, version, archive, weightsOf, local, rolling, serverPid, trained>>

-----------------------------------------------------------------------------
AdapterNext ==
  \/ TrainLocally \/ ReadVersion \/ ArchiveAdapter \/ SaveMeta \/ LocalTrainingFails
  \/ FindEarlier \/ CopyBack \/ SaveEarlier \/ StopAdapterServer \/ RollbackDies
  \/ StartAdapterServer
  \/ \E i \in 1..MaxServers : ServerEnds(i)

AdapterSpec == AdapterInit /\ [][AdapterNext]_adapterVars

-----------------------------------------------------------------------------
(***************************************************************************)
(* Properties                                                              *)
(***************************************************************************)

\* A server that no resolve started beside, so that server.pid names it, is
\* the only one that runs.
NamedServerIsAlone ==
  (serverPid # 0 /\ servers[serverPid] # 0) =>
    \A i \in 1..MaxServers : servers[i] # 0 => i = serverPid
=============================================================================
