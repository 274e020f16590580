----------------------------- MODULE SkillBank ------------------------------
(***************************************************************************)
(* The bank of learned skills (skillbank.ts, skillbank-merge.ts), shared   *)
(* by the processes of a user: skills are extracted from runs, checked     *)
(* for duplicates, capped, pruned, deleted, and merged in clusters.  The   *)
(* second specification is how one skill is rated by the runs that use it. *)
(*                                                                         *)
(* A skill's embedding is its topic: two skills of a topic are duplicates, *)
(* and those of one area make a cluster.  Statements are steps; within a   *)
(* process only an await lets another task in, so that storing a skill is  *)
(* interleaved with other processes and not with a merge of its own.       *)
(***************************************************************************)
EXTENDS Integers, FiniteSets, Sequences

CONSTANTS Banks,          \* processes
          Topics,
          AreaOf,         \* the area of each topic
          Vague,          \* the topic of a skill without embedding
          MaxSkills,      \* config.maxSkills
          MergeAt,        \* config.mergeAt, 0 for never
          MinCluster,     \* config.mergeMinClusterSize
          MaxIds,         \* bound: skills ever stored
          MinUses,        \* uses before a skill may be pruned by its rate
          MaxUses         \* bound: uses of the skill that is rated

ASSUME SkillBankAssumption ==
  /\ DOMAIN AreaOf = Topics /\ Vague \notin Topics
  /\ MaxSkills \in Nat \ {0} /\ MergeAt \in Nat
  /\ MinCluster \in Nat \ {0} /\ MaxIds \in Nat \ {0}

ASSUME SkillRatingAssumption == MinUses \in Nat \ {0} /\ MaxUses \in Nat /\ MaxUses >= MinUses

VARIABLES skills,    \* the table, in the order of insertion
          storing,   \* the extraction of each process: where it is, with which topic
          merging,   \* the merge of each process: "idle", "due" or "asking"
          clusters,  \* those it has still to go through
          raced      \* history: two processes were between their check and their insert

bankVars == <<skills, storing, merging, clusters, raced>>

\* Gone: pruned by the cap or by its rate, or deleted by the user.
States == {"live", "gone", "archived"}
Steps == {"idle", "embedded", "checked", "full", "room"}
NoStep == [at |-> "idle", topic |-> Vague]

BankTypeOK ==
  /\ skills \in Seq([topic : Topics \cup {Vague}, state : States,
                     sources : SUBSET (1..MaxIds), into : 0..MaxIds])
  /\ storing \in [Banks -> [at : Steps, topic : Topics \cup {Vague}]]
  /\ merging \in [Banks -> {"idle", "due", "asking"}]
  /\ clusters \in [Banks -> SUBSET SUBSET (1..MaxIds)]
  /\ raced \in BOOLEAN

BankInit ==
  /\ skills = <<>>
  /\ storing = [p \in Banks |-> NoStep]
  /\ merging = [p \in Banks |-> "idle"]
  /\ clusters = [p \in Banks |-> {}]
  /\ raced = FALSE

Live == {i \in DOMAIN skills : skills[i].state = "live"}
LiveOf(t) == {i \in Live : skills[i].topic = t}
Marked(ids, state) ==
  [i \in DOMAIN skills |-> IF i \in ids THEN [skills[i] EXCEPT !.state = state] ELSE skills[i]]

\* Between awaits nothing else runs in the process.
Storing(p) == storing[p].at \in {"checked", "full", "room"}
StepTo(p, step) == storing' = [storing EXCEPT ![p].at = step]

-----------------------------------------------------------------------------
(***************************************************************************)
(* extractSkillFromTrajectory                                              *)
(***************************************************************************)

\* Mutant: duplicates are looked for before the model is asked.
ExtractUnlessKnown(p, t) ==
  /\ storing[p].at = "idle" /\ LiveOf(t) = {}
  /\ storing' = [storing EXCEPT ![p] = [at |-> "checked", topic |-> t]]
  /\ UNCHANGED <<skills, merging, clusters, raced>>

\* The model has answered with a skill, and the skill is embedded.
Extract(p, t) ==
  /\ storing[p].at = "idle"
  /\ storing' = [storing EXCEPT ![p] = [at |-> "embedded", topic |-> t]]
  /\ UNCHANGED <<skills, merging, clusters, raced>>

CheckDuplicate(p) ==
  /\ storing[p].at = "embedded"
  /\ IF LiveOf(storing[p].topic) # {}
       THEN storing' = [storing EXCEPT ![p] = NoStep]
       ELSE StepTo(p, "checked")
  /\ raced' = (raced \/ \E q \in Banks \ {p} : Storing(q))
  /\ UNCHANGED <<skills, merging, clusters>>

\* The count decides about the cap and about an automatic merge.
CountSkills(p) ==
  /\ storing[p].at = "checked"
  /\ StepTo(p, IF Cardinality(Live) >= MaxSkills THEN "full" ELSE "room")
  /\ merging' = [merging EXCEPT ![p] =
       IF MergeAt > 0 /\ Cardinality(Live) + 1 >= MergeAt /\ @ = "idle" THEN "due" ELSE @]
  /\ UNCHANGED <<skills, clusters, raced>>

\* The one with the lowest rate, which may be any.
PruneWorst(p) ==
  /\ storing[p].at = "full"
  /\ StepTo(p, "room")
  /\ IF Live = {} THEN UNCHANGED skills ELSE \E i \in Live : skills' = Marked({i}, "gone")
  /\ UNCHANGED <<merging, clusters, raced>>

InsertSkill(p) ==
  /\ storing[p].at = "room" /\ Len(skills) < MaxIds
  /\ skills' = Append(skills, [topic |-> storing[p].topic, state |-> "live",
                               sources |-> {}, into |-> 0])
  /\ storing' = [storing EXCEPT ![p] = NoStep]
  /\ UNCHANGED <<merging, clusters, raced>>

\* A statement fails (the database is locked, the id is taken), or the
\* process ends: an extraction is not waited for.
ExtractionEnds(p) ==
  /\ storing[p].at # "idle"
  /\ storing' = [storing EXCEPT ![p] = NoStep]
  /\ UNCHANGED <<skills, merging, clusters, raced>>

-----------------------------------------------------------------------------
(***************************************************************************)
(* mergeSkillClusters                                                      *)
(***************************************************************************)

\* clusterSkills
ClustersOf(ids) ==
  {c \in {{i \in ids : skills[i].topic # Vague /\ AreaOf[skills[i].topic] = area} :
            area \in {AreaOf[t] : t \in Topics}} : Cardinality(c) >= MinCluster}

\* Scheduled after an insert, or by "orager skills merge".
LoadClusters(p) ==
  /\ merging[p] \in {"idle", "due"} /\ ~Storing(p)
  /\ clusters' = [clusters EXCEPT ![p] = ClustersOf(Live)]
  /\ merging' = [merging EXCEPT ![p] = IF ClustersOf(Live) = {} THEN "idle" ELSE "asking"]
  /\ UNCHANGED <<skills, storing, raced>>

NextCluster(p, c) ==
  /\ clusters' = [clusters EXCEPT ![p] = @ \ {c}]
  /\ merging' = [merging EXCEPT ![p] = IF clusters[p] = {c} THEN "idle" ELSE "asking"]

\* NO_MERGE, or the call fails.
KeepCluster(p, c) ==
  /\ merging[p] = "asking" /\ c \in clusters[p]
  /\ NextCluster(p, c)
  /\ UNCHANGED <<skills, storing, raced>>

Archived(c, meta) ==
  [i \in DOMAIN skills |->
     IF i \in c THEN [skills[i] EXCEPT !.state = "archived", !.into = meta] ELSE skills[i]]

\* One transaction: the meta-skill, with or without an embedding, and the
\* originals, whatever has become of them since they were loaded.
MergeCluster(p, c, t) ==
  /\ merging[p] = "asking" /\ c \in clusters[p] /\ ~Storing(p)
  /\ Len(skills) < MaxIds
  /\ skills' = Append(Archived(c, Len(skills) + 1),
                      [topic |-> t, state |-> "live", sources |-> c, into |-> 0])
  /\ NextCluster(p, c)
  /\ UNCHANGED <<storing, raced>>

MergeEnds(p) ==
  /\ merging[p] # "idle"
  /\ merging' = [merging EXCEPT ![p] = "idle"]
  /\ clusters' = [clusters EXCEPT ![p] = {}]
  /\ UNCHANGED <<skills, storing, raced>>

-----------------------------------------------------------------------------

\* deleteSkill by the user, or updateSkillOutcomes, which prunes by the rate.
Drop(i) ==
  /\ i \in Live
  /\ skills' = Marked({i}, "gone")
  /\ UNCHANGED <<storing, merging, clusters, raced>>

BankNext ==
  \/ \E p \in Banks :
       \/ \E t \in Topics : Extract(p, t)
       \/ CheckDuplicate(p) \/ CountSkills(p) \/ PruneWorst(p) \/ InsertSkill(p)
       \/ ExtractionEnds(p) \/ LoadClusters(p) \/ MergeEnds(p)
       \/ \E c \in clusters[p] :
            \/ KeepCluster(p, c)
            \/ \E t \in {skills[i].topic : i \in c} \cup {Vague} : MergeCluster(p, c, t)
  \/ \E i \in DOMAIN skills : Drop(i)

BankSpec == BankInit /\ [][BankNext]_bankVars

-----------------------------------------------------------------------------
(***************************************************************************)
(* updateSkillOutcomes: after every run that was given a skill its success *)
(* rate is averaged anew, rounded to four digits each time, and a skill    *)
(* that was used often and succeeded seldom is pruned.  Rates are in       *)
(* ten-thousandths.                                                        *)
(***************************************************************************)
VARIABLES useCount,     \* use_count
          successRate,  \* success_rate
          succeeded,    \* history: runs with success
          pruned        \* deleted

ratingVars == <<useCount, successRate, succeeded, pruned>>

Unit == 10000
PruneBelow == 3000

RatingTypeOK ==
  /\ useCount \in 0..MaxUses /\ succeeded \in 0..useCount
  /\ successRate \in 0..Unit
  /\ pruned \in BOOLEAN

RatingInit == useCount = 0 /\ successRate = Unit \div 2 /\ succeeded = 0 /\ pruned = FALSE

\* ROUND(x / n, 4)
Rounded(x, n) == (2 * x + n) \div (2 * n)

Averaged(value) == Rounded(successRate * useCount + value, useCount + 1)

RecordOutcome(success) ==
  /\ ~pruned /\ useCount < MaxUses
  /\ useCount' = useCount + 1
  /\ successRate' = Averaged(IF success THEN Unit ELSE 0)
  /\ succeeded' = succeeded + (IF success THEN 1 ELSE 0)
  /\ pruned' = (useCount' >= MinUses /\ successRate' < PruneBelow)

RatingNext == \E success \in BOOLEAN : RecordOutcome(success)

RatingSpec == RatingInit /\ [][RatingNext]_ratingVars

-----------------------------------------------------------------------------
(***************************************************************************)
(* Properties                                                              *)
(***************************************************************************)
Extracted == {i \in Live : skills[i].sources = {}}

\* Two skills that were extracted and are alive are no duplicates, although
\* the model and the embedding are waited for before the check, unless two
\* processes were between their check and their insert at once.
NoTwins ==
  raced \/ \A i, j \in Extracted : skills[i].topic = skills[j].topic => i = j

\* "Full provenance: every archived skill has merged_into pointing to its
\* meta-skill" (docs/adr/0011-skill-merge-pipeline.md), which is newer and
\* names it as a source, also if merges overlap or it was deleted meanwhile.
ArchivedPointToTheirMerger ==
  \A i \in DOMAIN skills : skills[i].state = "archived" =>
    skills[i].into > i /\ i \in skills[skills[i].into].sources

\* The rate is the share of runs that succeeded: the rounding of each step
\* adds up to less than a ten-thousandth for every two uses, and the initial
\* rate counts for nothing once the skill was used.
RateIsTheShare ==
  useCount > 0 =>
    /\ successRate * useCount - succeeded * Unit <= (useCount * useCount) \div 4 + 1
    /\ succeeded * Unit - successRate * useCount <= (useCount * useCount) \div 4 + 1
=============================================================================
