------------------------------ MODULE MCStorage ------------------------------
(*****************************************************************************)
(* What is kept on disk and must survive interruptions, for TLC: the         *)
(* retention of reports, the installed packages, the configuration file of   *)
(* the user, the configuration generations. They share no state: component   *)
(* names the one that runs while the others keep their initial state, so     *)
(* that one run explores the behaviours of each.                             *)
(*****************************************************************************)
EXTENDS Retention, Sequences, TLC

CONSTANTS v1, v2, r1, r2, r3, t1, t2, x1, None, Torn, Legacy

\* The component that runs.
VARIABLE component
VARIABLES run, tree, stages, dir, quar, sink, intent,
          receipt, uninst, pins, junk, stops, target, record, registry,
          backup, plans, late, op, req, pend, stage, temp, active, manifest,
          hist, hold, use, gPin, cpp, terminal, complete, fence, gTask, prep,
          installed, gStops, removals

fileVars == <<target, record, registry, backup, plans, late>>

\* Two ways to bound the retention of two reports, a result and a failure: one
\* collects the failure while owners, pins, retries and a plan by hand interfere,
\* the other pages through both under one owner and more interruptions.
Retiring ==
    /\ ~aged'[1] /\ pin'[1] = 0
    /\ policy'.revision <= 1 /\ faults' <= 1
Paging ==
    /\ owner' = 1 /\ pin'[2] = 0
    /\ task' = task /\ work'["manual"] = Idle

Package == INSTANCE InstallConfig WITH
    Versions <- {v1, v2}, Requests <- {r1, r2}, Tasks <- {t1, t2}, MaxTrees <-
    3, Pieces <- 2, MaxStops <- 2, MaxPlans <- 0, MaxEdits <- 0
UserFile == INSTANCE InstallConfig WITH
    Versions <- {v1, v2}, Requests <- {r1}, Tasks <- {}, MaxTrees <- 2, Pieces
    <- 1, MaxStops <- 2, MaxPlans <- 3, MaxEdits <- 1
Generations == INSTANCE ConfigGeneration WITH
    Gens <- {v1, v2}, Ids <- {r1, r2}, Runs <- {x1}, Tasks <- x1 :> <<t1>>,
    Capacity <- 1, MaxStops <- 1, MaxRemovals <- 1, Tears <- FALSE, LossModes
    <- {"generation", "legacy"}, pin <- gPin, task <- gTask, stops <- gStops
Releasing == INSTANCE ConfigGeneration WITH
    Gens <- {v1}, Ids <- {r1, r2, r3}, Runs <- {x1}, Tasks <- x1 :> <<t1>>,
    Capacity <- 1, MaxStops <- 1, MaxRemovals <- 0, Tears <- FALSE, LossModes
    <- {"generation", "legacy"}, pin <- gPin, task <- gTask, stops <- gStops
Abandoning == INSTANCE ConfigGeneration WITH
    Gens <- {v1}, Ids <- {r1, r2}, Runs <- {x1}, Tasks <- x1 :> <<t1, t2>>,
    Capacity <- 1, MaxStops <- 2, MaxRemovals <- 1, Tears <- TRUE, LossModes
    <- {"generation", "legacy"}, pin <- gPin, task <- gTask, stops <- gStops

installConfigVars == <<run, tree, stages, dir, quar, sink, intent, receipt,
                       uninst, pins, junk, stops, target, record, registry,
                       backup, plans, late>>
\* The ids of requests are interchangeable, so that it is enough to explore the
\* behaviours that use them in this order.
InOrder(ids) ==
    \A n \in 2 .. Len(ids) : req'[ids[n]] # None => req'[ids[n - 1]] # None

configGenerationVars == <<op, req, pend, stage, temp, active, manifest, hist,
                          hold, use, gPin, cpp, terminal, complete, fence,
                          gTask, prep, installed, gStops, removals>>

MCInit ==
    /\ component \in {"retire", "page", "package", "file", "generations",
                      "release", "abandon"}
    /\ Init
    /\ CASE component = "file" -> UserFile!ConfigInit
         [] OTHER -> Package!ConfigInit
    /\ CASE component = "release" -> Releasing!Init
         [] component = "abandon" -> Abandoning!Init
         [] OTHER -> Generations!Init

MCNext ==
    /\ UNCHANGED component
    /\ \/ component = "retire" /\ Next /\ Retiring /\ UNCHANGED <<installConfigVars, configGenerationVars>>
       \/ component = "page" /\ Next /\ Paging /\ UNCHANGED <<installConfigVars, configGenerationVars>>
       \/ component = "package" /\ Package!Next /\ UNCHANGED fileVars /\ UNCHANGED <<vars, configGenerationVars>>
       \/ component = "file" /\ UserFile!ConfigNext /\ UNCHANGED <<vars, configGenerationVars>>
       \/ component = "generations" /\ Generations!Next /\ InOrder(<<r1, r2>>) /\ UNCHANGED <<vars, installConfigVars>>
       \/ component = "release" /\ Releasing!Next /\ InOrder(<<r1, r2, r3>>) /\ UNCHANGED <<vars, installConfigVars>>
       \/ component = "abandon" /\ Abandoning!Next /\ InOrder(<<r1, r2>>) /\ UNCHANGED <<vars, installConfigVars>>

allVars == <<component, vars, installConfigVars, configGenerationVars>>

MCSpec == MCInit /\ [][MCNext]_allVars

ASSUME StorageParameters ==
    /\ Package!InstallParameters /\ UserFile!InstallParameters /\ UserFile!ConfigParameters
    /\ Generations!GenerationParameters /\ Releasing!GenerationParameters
    /\ Abandoning!GenerationParameters

-----------------------------------------------------------------------------

\* Install: What the index or a pin names can be used, between any two file
\* operations of any call (publishStage, removeOwnedTreeAnchored,
\* PinVersion).
InstalledIsWhole == component = "package" => Package!InstalledIsWhole

\* InstallConfig: A version the user's file refers to is complete under its
\* own name, whatever sequence of plans, interruptions, removals and
\* reinstallations led there: the hooks in the file run from that directory.
ConfiguredIsWhole == component = "file" => UserFile!ConfiguredIsWhole

\* ConfigGeneration: The records of the generations fit together at every
\* interruption: live references resolve, a run has one generation, what may
\* still run is backed, and receipts and completed abandonments are true.
GenerationsSound == 
    /\ component = "generations" => Generations!GenerationsSound
    /\ component = "release" => Releasing!GenerationsSound
    /\ component = "abandon" => Abandoning!GenerationsSound

\* Install: An installation answers success only for a version that is
\* installed, with no publication pending, from exactly the request that
\* asked, whichever call staged, published, indexed and cleaned up.
AnswersTrue == [][component = "package" => Package!AnswerStep]_installConfigVars

\* InstallConfig: No edit of the user is lost, except one made between the
\* last comparison and the rename that replaces the file.
EditsKept == UserFile!EditsKept

=============================================================================
