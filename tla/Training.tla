------------------------------ MODULE Training ------------------------------
(***************************************************************************)
(* Training in the cloud (omls/): trajectories that a teacher has helped   *)
(* are collected, a training packs those without a tag into a batch, rents *)
(* a machine, trains on it, uploads the adapter, makes it the current      *)
(* endpoint and tags the batch.  Each member of Trainings is one execution *)
(* of "orager skill-train --rl", by cron or by hand, in its own process.   *)
(***************************************************************************)
EXTENDS Integers, FiniteSets, Sequences

CONSTANTS Trainings,
          Trajectories,   \* sessions that log one
          MinBatch,       \* omls.minBatchSize
          Deployed        \* versions in the registry at the start

ASSUME TrainingAssumption ==
  /\ MinBatch \in Nat \ {0} /\ Deployed \in Nat
  /\ Cardinality(Trajectories) >= MinBatch

VARIABLES logged,    \* trajectories on disk that are distillable
          tagged,    \* those with a .trained file
          training,  \* each training: where it is, its batch, what it has read
          rented,    \* trainings whose machine runs and is billed
          registry,  \* adapters/registry.json
          rollback   \* what a rollback has read, or nothing

trainingVars == <<logged, tagged, training, rented, registry, rollback>>

TrainingStages == {"new", "passed", "packed", "scored", "launching", "renting", "downloading",
           "uploading", "hosted", "swapping", "marking", "ended"}
TrainingResults == {"none", "ok", "refused", "failed", "unlaunched", "unterminated", "died"}
Registries == [versions : Seq(Nat), current : Nat]
Nothing == [versions |-> <<>>, current |-> 0]

TrainingTypeOK ==
  /\ logged \subseteq Trajectories /\ tagged \subseteq Trajectories
  /\ training \in [Trainings -> [at : TrainingStages, result : TrainingResults, version : Nat,
                                 batch : SUBSET Trajectories, read : Registries]]
  /\ rented \subseteq Trainings
  /\ registry \in Registries /\ rollback \in Registries

TrainingInit ==
  /\ logged = {} /\ tagged = {} /\ rented = {} /\ rollback = Nothing
  /\ training = [t \in Trainings |-> [at |-> "new", result |-> "none", version |-> 0,
                                      batch |-> {}, read |-> Nothing]]
  /\ registry = [versions |-> [i \in 1..Deployed |-> i], current |-> Deployed]

TrainingAt(t, at) == training[t].at = at
GoTo(t, at) == training' = [training EXCEPT ![t].at = at]
EndAs(t, result) ==
  training' = [training EXCEPT ![t].at = "ended", ![t].result = result,
                               ![t].batch = {}, ![t].read = Nothing]

-----------------------------------------------------------------------------
(***************************************************************************)
(* The buffer                                                              *)
(***************************************************************************)

\* The logger's finalize writes the events and then the meta file, again if
\* the session has been resumed; the scan needs both.
LogTrajectory(s) ==
  /\ logged' = logged \cup {s}
  /\ UNCHANGED <<tagged, training, rented, registry, rollback>>

\* pruneOldTrajectories removes the files and leaves the tag.
PruneTrajectory(s) ==
  /\ s \in logged
  /\ logged' = logged \ {s}
  /\ UNCHANGED <<tagged, training, rented, registry, rollback>>

\* Of the current skill generation or a later one: all of them, here.
Buffer == logged \ tagged

\* Mode, idleness and the size of the buffer, or none of them by --force.
CheckConditions(t) ==
  /\ TrainingAt(t, "new")
  /\ \/ GoTo(t, "passed")
     \/ EndAs(t, "refused")
  /\ UNCHANGED <<logged, tagged, rented, registry, rollback>>

-----------------------------------------------------------------------------
(***************************************************************************)
(* runTrainingPipeline                                                     *)
(***************************************************************************)

PackBatch(t) ==
  /\ TrainingAt(t, "passed")
  /\ IF Cardinality(Buffer) < MinBatch
       THEN EndAs(t, "refused")
       ELSE training' = [training EXCEPT ![t].at = "packed", ![t].batch = Buffer]
  /\ UNCHANGED <<logged, tagged, rented, registry, rollback>>

\* A missing or malformed file has a score of its own.
ScoreBatch(t) ==
  /\ TrainingAt(t, "packed")
  /\ GoTo(t, "scored")
  /\ UNCHANGED <<logged, tagged, rented, registry, rollback>>

\* The provider has created the machine; it is polled until it runs.
CreateInstance(t) ==
  /\ TrainingAt(t, "scored")
  /\ rented' = rented \cup {t}
  /\ GoTo(t, "launching")
  /\ UNCHANGED <<logged, tagged, registry, rollback>>

InstanceRuns(t) ==
  /\ TrainingAt(t, "launching")
  /\ GoTo(t, "renting")
  /\ UNCHANGED <<logged, tagged, rented, registry, rollback>>

\* Five minutes, or a poll that fails: launchInstance throws, and the
\* pipeline has nothing that it could terminate.
LaunchFails(t) ==
  /\ TrainingAt(t, "launching")
  /\ EndAs(t, "unlaunched")
  /\ UNCHANGED <<logged, tagged, rented, registry, rollback>>

\* Mutant: only a training that went well gives its machine back.
AbandonInstance(t) ==
  /\ training[t].at \in {"renting", "downloading"}
  /\ EndAs(t, "failed")
  /\ UNCHANGED <<logged, tagged, rented, registry, rollback>>

\* ssh, scp or tar fails, or the first attempt to terminate does: the catch
\* block terminates the machine, and swallows that this fails too.
TerminateAfterError(t) ==
  /\ training[t].at \in {"renting", "downloading"}
  /\ \/ EndAs(t, "failed") /\ rented' = rented \ {t}
     \/ EndAs(t, "unterminated") /\ UNCHANGED rented
  /\ UNCHANGED <<logged, tagged, registry, rollback>>

TrainOnInstance(t) ==
  /\ TrainingAt(t, "renting")
  /\ GoTo(t, "downloading")
  /\ UNCHANGED <<logged, tagged, rented, registry, rollback>>

\* Then uploadAdapter reads the registry, before its requests.
DownloadAdapter(t) ==
  /\ TrainingAt(t, "downloading")
  /\ rented' = rented \ {t}
  /\ training' = [training EXCEPT ![t].at = "uploading", ![t].read = registry]
  /\ UNCHANGED <<logged, tagged, registry, rollback>>

\* The job is polled for half an hour; the registry as it was read then
\* replaces the file.
AdapterHosted(t) ==
  /\ TrainingAt(t, "uploading")
  /\ LET next == Len(training[t].read.versions) + 1
     IN  /\ registry' = [versions |-> Append(training[t].read.versions, next),
                         current |-> next]
         /\ training' = [training EXCEPT ![t].at = "hosted", ![t].version = next,
                                         ![t].read = Nothing]
  /\ UNCHANGED <<logged, tagged, rented, rollback>>

\* swapEndpoint reads the registry, changes the endpoint and writes it.
SwapReads(t) ==
  /\ TrainingAt(t, "hosted")
  /\ training' = [training EXCEPT ![t].at = "swapping", ![t].read = registry]
  /\ UNCHANGED <<logged, tagged, rented, registry, rollback>>

SwapWrites(t) ==
  /\ TrainingAt(t, "swapping")
  /\ registry' = [training[t].read EXCEPT !.current = training[t].version]
  /\ training' = [training EXCEPT ![t].at = "marking", ![t].read = Nothing]
  /\ UNCHANGED <<logged, tagged, rented, rollback>>

\* markBatchTrained: a tag that cannot be written is left out.
MarkTrained(t) ==
  /\ TrainingAt(t, "marking") /\ training[t].batch # {}
  /\ \E s \in training[t].batch :
       /\ training' = [training EXCEPT ![t].batch = @ \ {s}]
       /\ \/ tagged' = tagged \cup {s}
          \/ UNCHANGED tagged
  /\ UNCHANGED <<logged, rented, registry, rollback>>

\* The log is appended to; if that fails, the training is a success as well.
FinishTraining(t) ==
  /\ TrainingAt(t, "marking") /\ training[t].batch = {}
  /\ EndAs(t, "ok")
  /\ UNCHANGED <<logged, tagged, rented, registry, rollback>>

\* A file is gone, a request fails or the job does, while no machine is
\* rented; --dry-run ends after packing.
FailUnrented(t) ==
  /\ training[t].at \in {"passed", "packed", "scored", "uploading", "hosted", "swapping"}
  /\ EndAs(t, "failed")
  /\ UNCHANGED <<logged, tagged, rented, registry, rollback>>

TrainingDies(t) ==
  /\ training[t].at # "ended"
  /\ EndAs(t, "died")
  /\ UNCHANGED <<logged, tagged, rented, registry, rollback>>

-----------------------------------------------------------------------------
(***************************************************************************)
(* rollbackEndpoint                                                        *)
(***************************************************************************)
RollbackReads ==
  /\ rollback = Nothing /\ Len(registry.versions) >= 2
  /\ rollback' = registry
  /\ UNCHANGED <<logged, tagged, training, rented, registry>>

\* The last version but one, whichever is the current one.
RollbackWrites ==
  /\ rollback # Nothing
  /\ registry' = [rollback EXCEPT !.current =
                    rollback.versions[Len(rollback.versions) - 1]]
  /\ rollback' = Nothing
  /\ UNCHANGED <<logged, tagged, training, rented>>

-----------------------------------------------------------------------------
\* The steps that no timer bounds fail or go on; both end them.
TrainingMoves(t) ==
  \/ CheckConditions(t) \/ PackBatch(t) \/ ScoreBatch(t) \/ CreateInstance(t)
  \/ InstanceRuns(t) \/ LaunchFails(t) \/ TerminateAfterError(t) \/ TrainOnInstance(t)
  \/ DownloadAdapter(t) \/ AdapterHosted(t) \/ SwapReads(t) \/ SwapWrites(t)
  \/ MarkTrained(t) \/ FinishTraining(t) \/ FailUnrented(t)

TrainingNext ==
  \/ \E s \in Trajectories : LogTrajectory(s) \/ PruneTrajectory(s)
  \/ \E t \in Trainings : TrainingMoves(t) \/ TrainingDies(t)
  \/ RollbackReads \/ RollbackWrites

TrainingFairness == \A t \in Trainings : WF_trainingVars(TrainingMoves(t))
TrainingSpec == TrainingInit /\ [][TrainingNext]_trainingVars /\ TrainingFairness

-----------------------------------------------------------------------------
(***************************************************************************)
(* Properties                                                              *)
(***************************************************************************)

\* No machine of a training that has ended is billed, unless its launch was
\* given up, terminating it failed twice, or the process died: each error
\* between the launch and the download passes by the catch block.
BilledOnlyIfUnreachable ==
  \A t \in rented : TrainingAt(t, "ended") =>
    training[t].result \in {"unlaunched", "unterminated", "died"}

\* A trajectory is kept out of later batches only when a training that had
\* it in its batch got its adapter hosted: a failed one wastes none of them.
\* (Tags are written by whoever is marking or has marked.)
TaggedOnlyAfterHosting ==
  [][tagged' # tagged => \E t \in Trainings :
       training[t].version > 0 /\ tagged' \ tagged \subseteq training[t].batch]_trainingVars

\* Every wait of a training is bounded, so that it ends, with a machine that
\* cannot be terminated as well.
EveryTrainingEnds == \A t \in Trainings : <>TrainingAt(t, "ended")

\* "Always terminate instance on error to avoid billing" (training-pipeline.ts).
ErrorsEndTheBilling ==
  \A t \in rented : TrainingAt(t, "ended") => training[t].result \in {"unterminated", "died"}
=============================================================================
