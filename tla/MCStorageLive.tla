---------------------------- MODULE MCStorageLive ----------------------------
(*****************************************************************************)
(* What a repeated call completes on disk, for TLC: the four components of   *)
(* MCStorage under their fairness. They share no state: component names the  *)
(* one that runs while the others keep their initial state, so that one run  *)
(* explores the behaviours of each.                                          *)
(*****************************************************************************)
EXTENDS TLC

CONSTANTS v1, r1, r2, t1, t2, g1, i1, x1, None, Torn, Legacy

\* The component that runs.
VARIABLE component
VARIABLES owner, task, aged, pin, resolved, deletion, files, lease, writer,
          policy, work, faults, run, tree, stages, dir, quar, sink, intent,
          receipt, uninst, pins, junk, stops, target, record, registry,
          backup, plans, late, op, req, pend, stage, temp, active, manifest,
          hist, hold, use, gPin, cpp, terminal, complete, fence, gTask, prep,
          installed, gStops, removals

fileVars == <<target, record, registry, backup, plans, late>>

\* A result and a failure, collected page by page while the failure is retried
\* and calls are interrupted; and a failure the owner may also delete by hand,
\* who may be replaced at any moment.
Paging == INSTANCE Retention WITH
    Last <- 2, Results <- {1}, Limit <- 1, Pinnable <- {}, Retriable <- {2},
    Manual <- FALSE, MaxBindings <- 1, MaxRevision <- 1, MaxFaults <- 1
ByOwner == INSTANCE Retention WITH
    Last <- 1, Results <- {}, Limit <- 1, Pinnable <- {}, Retriable <- {},
    Manual <- TRUE, MaxBindings <- 2, MaxRevision <- 1, MaxFaults <- 0
Package == INSTANCE InstallConfig WITH
    Versions <- {v1}, Requests <- {r1, r2}, Tasks <- {t1}, MaxTrees <- 3,
    Pieces <- 2, MaxStops <- 2, MaxPlans <- 0, MaxEdits <- 0
UserFile == INSTANCE InstallConfig WITH
    Versions <- {v1}, Requests <- {r1}, Tasks <- {}, MaxTrees <- 2, Pieces <-
    1, MaxStops <- 2, MaxPlans <- 2, MaxEdits <- 1
Generations == INSTANCE ConfigGeneration WITH
    Gens <- {g1}, Ids <- {i1}, Runs <- {x1}, Tasks <- x1 :> <<t1, t2>>,
    Capacity <- 1, MaxStops <- 2, MaxRemovals <- 0, Tears <- TRUE, LossModes
    <- {"generation", "legacy"}, pin <- gPin, task <- gTask, stops <- gStops

retentionVars == <<owner, task, aged, pin, resolved, deletion, files, lease,
                   writer, policy, work, faults>>
installConfigVars == <<run, tree, stages, dir, quar, sink, intent, receipt,
                       uninst, pins, junk, stops, target, record, registry,
                       backup, plans, late>>
configGenerationVars == <<op, req, pend, stage, temp, active, manifest, hist,
                          hold, use, gPin, cpp, terminal, complete, fence,
                          gTask, prep, installed, gStops, removals>>

MCInit ==
    /\ component \in {"paging", "byowner", "package", "file", "generations"}
    /\ CASE component = "byowner" -> ByOwner!Init
         [] OTHER -> Paging!Init
    /\ CASE component = "file" -> UserFile!ConfigInit
         [] OTHER -> Package!ConfigInit
    /\ Generations!Init

MCNext ==
    /\ UNCHANGED component
    /\ \/ component = "paging" /\ Paging!Next /\ UNCHANGED <<installConfigVars, configGenerationVars>>
       \/ component = "byowner" /\ ByOwner!Next /\ UNCHANGED <<installConfigVars, configGenerationVars>>
       \/ component = "package" /\ Package!Next /\ UNCHANGED fileVars /\ UNCHANGED <<retentionVars, configGenerationVars>>
       \/ component = "file" /\ UserFile!ConfigNext /\ UNCHANGED <<retentionVars, configGenerationVars>>
       \/ component = "generations" /\ Generations!Next /\ UNCHANGED <<retentionVars, installConfigVars>>

allVars == <<component, retentionVars, installConfigVars, configGenerationVars>>

MCSpec == MCInit /\ [][MCNext]_allVars

storageVars == <<retentionVars, installConfigVars, configGenerationVars>>

\* The fairness of the four components.  The component that runs never changes,
\* so fairness of a disjunction over components is that of the disjunct of the
\* component that runs.
MCFairness ==
    /\ \A i \in {1, 2} :
         /\ WF_retentionVars(component = "paging" /\ Paging!Dispatch(i))
         /\ WF_retentionVars(
              \/ component = "paging" /\ Paging!Age(i)
              \/ component = "byowner" /\ i = 1 /\ ByOwner!Age(i))
    /\ WF_installConfigVars(
         \/ component = "package" /\ UNCHANGED fileVars /\ Package!InstallStep
         \/ component = "file" /\ UNCHANGED fileVars /\ UserFile!InstallStep)
    /\ WF_installConfigVars(
         \/ component = "package" /\ UNCHANGED fileVars /\ Package!UninstallStep
         \/ component = "file" /\ UNCHANGED fileVars /\ UserFile!UninstallStep)
    /\ WF_installConfigVars(component = "package" /\ UNCHANGED fileVars /\ Package!WritePin)
    /\ WF_installConfigVars(component = "file" /\ UserFile!ConfigStep)
    /\ WF_configGenerationVars(component = "generations" /\ Generations!UpdateStep(i1))
    /\ WF_configGenerationVars(component = "generations" /\ Generations!RunStep(x1))
    /\ SF_storageVars(
         \/ component = "paging" /\ Paging!GC
              /\ UNCHANGED <<installConfigVars, configGenerationVars>>
         \/ component = "byowner" /\ ByOwner!GC
              /\ UNCHANGED <<installConfigVars, configGenerationVars>>
         \/ component = "package" /\ Package!BeginInstall(v1, r1)
              /\ UNCHANGED <<retentionVars, fileVars, configGenerationVars>>
         \/ component = "file" /\ UserFile!Repeat
              /\ UNCHANGED <<retentionVars, configGenerationVars>>
         \/ component = "generations" /\ Generations!StartUpdate(i1)
              /\ UNCHANGED <<retentionVars, installConfigVars>>)
    /\ SF_storageVars(
         \/ component = "byowner" /\ ByOwner!ByHand
              /\ UNCHANGED <<installConfigVars, configGenerationVars>>
         \/ component = "package" /\ Package!BeginInstall(v1, r2)
              /\ UNCHANGED <<retentionVars, fileVars, configGenerationVars>>
         \/ component = "generations" /\ Generations!StartPreparation(x1)
              /\ UNCHANGED <<retentionVars, installConfigVars>>)
    /\ SF_storageVars(
         \/ component = "package" /\ Package!BeginUninstall(v1)
              /\ UNCHANGED <<retentionVars, fileVars, configGenerationVars>>
         \/ component = "generations" /\ Generations!StartBegin(x1)
              /\ UNCHANGED <<retentionVars, installConfigVars>>)
    /\ SF_storageVars(
         \/ component = "package" /\ Package!Unpin(t1)
              /\ UNCHANGED <<retentionVars, fileVars, configGenerationVars>>
         \/ component = "generations" /\ Generations!WriteCheckpoint(x1)
              /\ UNCHANGED <<retentionVars, installConfigVars>>)
    /\ SF_configGenerationVars(component = "generations" /\ Generations!StartPin(x1))
    /\ SF_configGenerationVars(
         component = "generations" /\ fence[x1] /\ Generations!StartAbandon(x1))

MCFairSpec == MCSpec /\ MCFairness

ASSUME StorageParameters ==
    /\ Paging!RetentionParameters /\ ByOwner!RetentionParameters
    /\ Package!InstallParameters /\ UserFile!InstallParameters /\ UserFile!ConfigParameters
    /\ Generations!GenerationParameters

-----------------------------------------------------------------------------

\* Retention: Under an enabled policy every item that is eligible and stays so
\* is collected in the end, past crashes and whatever page the cursor is at,
\* unless a crash left the partial marker the directory is then refused for, an
\* item of the saved plan was deleted by hand or retried, or the item is being
\* deleted by a plan of an owner who has been replaced.
Collected ==
    \A i \in {1, 2} :
        (\/ component = "paging" /\ Paging!Due(i)
         \/ component = "byowner" /\ i = 1 /\ ByOwner!Due(i))
            ~> (\/ component = "paging" /\ Paging!Discharged(i)
                \/ component = "byowner" /\ i = 1 /\ ByOwner!Discharged(i))

\* Install, InstallConfig: A publication whose intent is durable ends
\* installed, wherever its calls were interrupted. A removal whose intent is
\* durable ends with neither directory, receipt nor intent, wherever its
\* calls were interrupted and whoever pinned the version in between, unless
\* one of the three leftovers above stands in its way. A pending receipt is
\* completed by repeating its plan, unless the user has changed the file
\* since or the backup was left torn.
InstallConverges == 
    /\ component = "package" /\ intent[v1] # None ~>
         component # "package" \/ Package!Installed(v1)
    /\ component = "package" /\ uninst[v1] \in Package!Trees ~>
         component # "package" \/ Package!Removed(v1) \/ Package!Wedged(v1)
    /\ UserFile!PendingCompletes


=============================================================================
