-------------------------- MODULE ConfigGeneration --------------------------
(***************************************************************************)
(* Owned configuration generations: one owner scope of one installed       *)
(* version.  Every file operation runs under the installation's flock, so  *)
(* operations do not interleave with each other, but each of them may end  *)
(* between two file operations, and the preparation of a run takes the     *)
(* lock several times.  A record is written as .pending-NAME and renamed;  *)
(* a pin and the private checkpoint of a run are written in place.  The    *)
(* Store's transactions (submission, abandonment fence, release) commit    *)
(* while the lock is held.                                                 *)
(***************************************************************************)
EXTENDS Integers, FiniteSets, Sequences, SequencesExt

CONSTANTS
    Gens,        \* generation ids: a manifest's digest is its name
    Ids,         \* ids of the owner's publication requests
    Runs,        \* the runs that are prepared
    Tasks,       \* Tasks[r]: the run's task ids, in their sorted order
    Capacity,    \* generationCapacity
    MaxStops,    \* bound: operations that end early, failed client calls
    MaxRemovals, \* bound: uninstallations
    Tears,       \* may an interrupted write leave a partial file?
    LossModes,   \* modes ("generation", "legacy") whose checkpoint may be lost
    Legacy,      \* the reference of a run that was prepared without a generation
    None

GenerationParameters ==
    /\ Capacity \in Nat \ {0}
    /\ MaxStops \in Nat
    /\ MaxRemovals \in Nat
    /\ Tears \in BOOLEAN
    /\ LossModes \subseteq {"generation", "legacy"}
    /\ Legacy \notin Gens
    /\ None \notin Gens \union Ids \union Runs \union {Legacy}
    /\ \A r, s \in Runs : r # s => ToSet(Tasks[r]) \intersect ToSet(Tasks[s]) = {}

VARIABLES
    op,        \* the operation that holds the lock: [kind, who, step]
    req,       \* the owner's requests: [action, ref, expected], None if not made
    pend,      \* pending.json: [st, id]
    stage,     \* stage.json, the seal of the staged active record
    temp,      \* .active-KEY
    active,    \* active.json: [rev, ref]; rev = 0 when there is no file
    manifest,  \* generations/G.json
    hist,      \* requests/ID.json: the committed intent and its receipt
    hold,      \* preparations/RUN.json: [st, ref]
    use,       \* uses/RUN.json: [st, ref]
    pin,       \* pins/TASK.json: [st, ref]
    cpp,       \* the run's private checkpoint: [st, ref]
    terminal,  \* abandoned/RUN.terminal.json
    complete,  \* abandoned/RUN.complete.json
    fence,     \* the Store's row of config_preparation_abandons
    task,      \* the Store's tasks: [st, ref]
    prep,      \* the client that prepares a run: [at, ref]
    installed, \* the version is installed
    stops,     \* interruptions so far
    removals   \* uninstallations so far

pubVars == <<req, pend, stage, temp, active, manifest, hist>>
useVars == <<hold, use, pin, cpp>>
endVars == <<terminal, complete, fence>>
boundVars == <<installed, removals>>
vars == <<op, pubVars, useVars, endVars, task, prep, boundVars, stops>>

Status == {"none", "torn", "draft", "final"}
AllTasks == UNION {ToSet(Tasks[r]) : r \in Runs}
RunOf(t) == CHOOSE r \in Runs : t \in ToSet(Tasks[r])
Refs == Gens \union {Legacy}
Idle == [kind |-> "idle", who |-> None, step |-> "none"]
Out == [at |-> "out", ref |-> None]
Gone == [st |-> "none", ref |-> None]

TypeOK ==
    /\ op.kind \in {"idle", "update", "begin", "rebegin", "pin", "abandon"}
    /\ \A i \in Ids : req[i] # None =>
          req[i] \in [action : {"publish", "deactivate", "retire"},
                      ref : Gens \union {None}, expected : Nat]
    /\ pend.st \in Status /\ pend.id \in Ids \union {None}
    /\ stage \in Status /\ temp \in {"none", "torn", "final"}
    /\ active \in [rev : Nat, ref : Gens \union {None}]
    /\ manifest \in [Gens -> Status] /\ hist \in [Ids -> Status]
    /\ \A f \in {hold, use, cpp} : f \in [Runs -> [st : Status, ref : Refs \union {None}]]
    /\ pin \in [AllTasks -> [st : Status, ref : Refs \union {None}]]
    /\ terminal \in [Runs -> Status] /\ complete \in [Runs -> Status]
    /\ fence \in [Runs -> BOOLEAN]
    /\ task \in [AllTasks -> [st : {"none", "live", "held", "done"},
                              ref : Refs \union {None}]]
    /\ prep \in [Runs -> [at : {"out", "begin", "begun", "pin", "ready"},
                          ref : Refs \union {None}]]
    /\ installed \in BOOLEAN
    /\ stops \in 0 .. MaxStops /\ removals \in 0 .. MaxRemovals

Init ==
    /\ op = Idle
    /\ req = [i \in Ids |-> None]
    /\ pend = [st |-> "none", id |-> None]
    /\ stage = "none" /\ temp = "none"
    /\ active = [rev |-> 0, ref |-> None]
    /\ manifest = [g \in Gens |-> "none"]
    /\ hist = [i \in Ids |-> "none"]
    /\ hold = [r \in Runs |-> Gone]
    /\ use = [r \in Runs |-> Gone]
    /\ pin = [t \in AllTasks |-> Gone]
    /\ cpp = [r \in Runs |-> Gone]
    /\ terminal = [r \in Runs |-> "none"]
    /\ complete = [r \in Runs |-> "none"]
    /\ fence = [r \in Runs |-> FALSE]
    /\ task = [t \in AllTasks |-> Gone]
    /\ prep = [r \in Runs |-> Out]
    /\ installed = TRUE
    /\ stops = 0 /\ removals = 0

----------------------------------------------------------------------------
\* quiescent(""): no intent is pending and no unknown entry is in the directory.
Quiescent == pend.st = "none" /\ stage = "none" /\ temp = "none"

\* The lock is free and the running package is the installed one.
Free == op = Idle /\ installed

\* generationOriginalRecord: a record and its .pending- form both count.
Readable(st) == st \in {"draft", "final"}

\* rejectAbandoned: any trace of a terminal or complete record, even a partial one.
Abandoned(r) == terminal[r] # "none" \/ complete[r] # "none"

Acquire(k, w, s) == op' = [kind |-> k, who |-> w, step |-> s]
Goto(s) == op' = [op EXCEPT !.step = s]
At(k, s) == op.kind = k /\ op.step = s
Release == op' = Idle

\* The operation ends with an error: a client's call ends with it.
Fail ==
    /\ op' = Idle
    /\ prep' = IF op.kind \in {"begin", "rebegin", "pin"}
               THEN [prep EXCEPT ![op.who] = Out] ELSE prep

\* writeOriginalRecord on a record with status st: one file operation towards
\* the final name, then on to step s.  A partial .pending- file is refused.
Write(st, next, s) ==
    \/ /\ st = "none"
       /\ next = "draft"
       /\ UNCHANGED <<op, prep, stops>>
    \/ /\ st = "none"
       /\ Tears /\ stops < MaxStops
       /\ next = "torn"
       /\ stops' = stops + 1
       /\ Fail
    \/ /\ Readable(st)
       /\ next = "final"
       /\ Goto(s)
       /\ UNCHANGED <<prep, stops>>
    \/ /\ st = "torn"
       /\ next = st
       /\ Fail
       /\ UNCHANGED stops

\* publicationWriteAt of a file that is written in place.
WriteInPlace(next, s) ==
    \/ /\ next = "final"
       /\ Goto(s)
       /\ UNCHANGED <<prep, stops>>
    \/ /\ Tears /\ stops < MaxStops
       /\ next = "torn"
       /\ stops' = stops + 1
       /\ Fail

\* checkReferences: the active record, the holds (their .pending- form too) and
\* the pins; an unreadable hold or pin refuses.
\* Mutant: only finished holds are looked at.
CheckReferencesFinal(match) ==
    /\ active.ref \notin match
    /\ \A r \in Runs : hold[r].st # "torn" /\ (hold[r].st = "final" => hold[r].ref \notin match)
    /\ \A t \in AllTasks : pin[t].st # "torn" /\ (pin[t].st = "final" => pin[t].ref \notin match)

CheckReferences(match) ==
    /\ active.ref \notin match
    /\ \A r \in Runs : hold[r].st # "torn" /\ (Readable(hold[r].st) => hold[r].ref \notin match)
    /\ \A t \in AllTasks : pin[t].st # "torn" /\ (Readable(pin[t].st) => pin[t].ref \notin match)

----------------------------------------------------------------------------
\* Publication: updateConfigGenerationImpl.

\* The owner reads the status and makes a request for the active record it saw;
\* the request may be sent, and sent again, at any later time.
Ask(i, a, g) ==
    /\ req[i] = None
    /\ Free /\ Quiescent
    /\ (a = "deactivate") = (g = None)
    /\ req' = [req EXCEPT ![i] = [action |-> a, ref |-> g, expected |-> active.rev]]
    /\ UNCHANGED <<op, pend, stage, temp, active, manifest, hist, useVars, endVars,
                   task, prep, boundVars, stops>>

\* admitGeneration: no generation is half written and there is room for this one.
Admit(g) ==
    /\ \A h \in Gens : manifest[h] \in {"none", "final"}
    /\ manifest[g] = "none" =>
          Cardinality({h \in Gens : manifest[h] # "none"}) < Capacity

\* A request without a history record starts when the active record is the one
\* it expects.
UpdateNew(i) ==
    /\ req[i] # None
    /\ hist[i] = "none"
    /\ Quiescent
    /\ req[i].expected = active.rev
    /\ req[i].action = "retire" =>
          manifest[req[i].ref] = "final" /\ CheckReferences({req[i].ref})
    /\ req[i].action = "publish" => Admit(req[i].ref)
    /\ Acquire("update", i, "intent")

\* The request whose intent is pending is resumed; a committed one whose intent
\* was left behind clears it.
UpdateResume(i) ==
    /\ Readable(pend.st) /\ pend.id = i
    /\ \/ hist[i] \in {"none", "draft"} /\ Acquire("update", i, "intent")
       \/ hist[i] = "final" /\ Acquire("update", i, "unstage")

StartUpdate(i) ==
    /\ Free
    /\ UpdateNew(i) \/ UpdateResume(i)
    /\ UNCHANGED <<pubVars, useVars, endVars, task, prep, boundVars, stops>>

\* The intent is durable; verifyUnstagedPublicationActive bars a change of the
\* active record before the first mutation.
WriteIntent(i) ==
    /\ At("update", "intent") /\ op.who = i
    /\ \E st \in Status :
          /\ Write(pend.st, st, CASE req[i].action = "publish" -> "manifest"
                                  [] req[i].action = "retire" -> "remove"
                                  [] OTHER -> "active")
          /\ stage = "none" /\ st = "final" => active.rev = req[i].expected
          /\ pend' = [st |-> st, id |-> i]
    /\ UNCHANGED <<req, stage, temp, active, manifest, hist, useVars, endVars, task, boundVars>>

WriteManifest(i) ==
    /\ At("update", "manifest") /\ op.who = i
    /\ LET g == req[i].ref IN
       \E st \in Status :
          /\ Write(manifest[g], st, "active")
          /\ manifest' = [manifest EXCEPT ![g] = st]
    /\ UNCHANGED <<req, pend, stage, temp, active, hist, useVars, endVars, task, boundVars>>

\* A retirement looks at the references again and removes the manifest.  The
\* second look cannot refuse: no reference is made while the intent is pending.
RemoveManifest(i) ==
    /\ At("update", "remove") /\ op.who = i
    /\ CheckReferences({req[i].ref})
    /\ manifest' = [manifest EXCEPT ![req[i].ref] = "none"]
    /\ Goto("receipt")
    /\ UNCHANGED <<req, pend, stage, temp, active, hist, useVars, endVars, task, prep, boundVars, stops>>

\* commitActive finds the sealed record under its final name.
AlreadyActive(i) == Readable(stage) /\ active.rev = req[i].expected + 1

\* commitActive: the temporary, its seal, the rename.  A sealed record that is
\* already the active one is not written again.
CommitActive(i) ==
    /\ At("update", "active") /\ op.who = i
    /\ \/ /\ AlreadyActive(i)
          /\ stage' = "final"
          /\ Goto("receipt")
          /\ UNCHANGED <<temp, active, prep, stops>>
       \/ /\ active.rev = req[i].expected
          /\ stage = "none" /\ temp = "none"
          /\ \E st \in Status : WriteInPlace(st, "active") /\ temp' = st
          /\ UNCHANGED <<stage, active>>
       \/ /\ active.rev = req[i].expected
          /\ temp = "final" /\ stage # "final"
          /\ \E st \in Status : Write(stage, st, "active") /\ stage' = st
          /\ UNCHANGED <<temp, active>>
       \/ /\ active.rev = req[i].expected
          /\ temp = "final" /\ stage = "final"
          /\ active' = [rev |-> active.rev + 1, ref |-> req[i].ref]
          /\ temp' = "none"
          /\ Goto("receipt")
          /\ UNCHANGED <<stage, prep, stops>>
       \/ /\ temp = "torn"
          /\ Fail
          /\ UNCHANGED <<stage, temp, active, stops>>
    /\ UNCHANGED <<req, pend, manifest, hist, useVars, endVars, task, boundVars>>

WriteReceipt(i) ==
    /\ At("update", "receipt") /\ op.who = i
    /\ \E st \in Status :
          /\ Write(hist[i], st, "unstage")
          /\ hist' = [hist EXCEPT ![i] = st]
    /\ UNCHANGED <<req, pend, stage, temp, active, manifest, useVars, endVars, task, boundVars>>

\* clearPublication: the seal first, the intent last.
ClearPublication(i) ==
    /\ op.kind = "update" /\ op.who = i
    /\ \/ /\ op.step = "unstage"
          /\ stage' = "none"
          /\ Goto("clear")
          /\ UNCHANGED pend
       \/ /\ op.step = "clear"
          /\ pend' = [st |-> "none", id |-> None]
          /\ Release
          /\ UNCHANGED stage
    /\ UNCHANGED <<req, temp, active, manifest, hist, useVars, endVars, task, prep, boundVars, stops>>

----------------------------------------------------------------------------
\* Preparation of a run by its client (prepareConfigTaskPlan), which holds the
\* run's checkpoint lock: no two clients prepare the same run.

\* readConfigGeneration: the generation of a frozen plan is still there.
Loads(g) == g # Legacy => Quiescent /\ manifest[g] = "final"

StartPreparation(r) ==
    /\ prep[r] = Out
    /\ Free
    /\ ~ Abandoned(r)
    /\ \/ /\ cpp[r].st = "final" /\ Loads(cpp[r].ref)
          /\ prep' = [prep EXCEPT ![r] = [at |-> "pin", ref |-> cpp[r].ref]]
       \/ /\ cpp[r].st = "none"
          /\ prep' = [prep EXCEPT ![r].at = "begin"]
    /\ UNCHANGED <<op, pubVars, useVars, endVars, task, boundVars, stops>>

\* beginConfigPreparationForTasks.  A hold is repeated as it is; without one the
\* active generation is selected, unless the run was converted before.
Select(r) ==
    /\ hold[r].st = "none"
    /\ use[r].st = "none"
    /\ \A t \in ToSet(Tasks[r]) : pin[t].st = "none"
    /\ active.ref # None => manifest[active.ref] = "final"
    /\ prep' = [prep EXCEPT ![r].ref = IF active.ref = None THEN Legacy ELSE active.ref]
    /\ Acquire("begin", r, "hold")

RepeatHold(r) ==
    /\ Readable(hold[r].st)
    /\ prep' = [prep EXCEPT ![r].ref = hold[r].ref]
    /\ Acquire("rebegin", r, "hold")

StartBegin(r) ==
    /\ prep[r].at = "begin"
    /\ Free /\ Quiescent
    /\ ~ Abandoned(r)
    /\ Select(r) \/ RepeatHold(r)
    /\ UNCHANGED <<pubVars, useVars, endVars, task, boundVars, stops>>

WriteHold(r) ==
    /\ op.kind \in {"begin", "rebegin"} /\ op.step = "hold" /\ op.who = r
    /\ \E st \in Status :
          /\ Write(hold[r].st, st,
                   IF op.kind = "begin" /\ prep[r].ref # Legacy THEN "use" ELSE "end")
          /\ hold' = [hold EXCEPT ![r] = [st |-> st, ref |-> prep[r].ref]]
    /\ UNCHANGED <<pubVars, use, pin, cpp, endVars, task, boundVars>>

\* persistOriginalUse, by a new preparation, a pinning or an abandonment.
WriteUse(r) ==
    /\ op.step = "use" /\ op.who = r
    /\ \E st \in Status :
          /\ Write(use[r].st, st, CASE op.kind = "begin" -> "end"
                                    [] op.kind = "pin" -> "pins"
                                    [] OTHER -> "fence")
          /\ use' = [use EXCEPT ![r] = [st |-> st, ref |-> hold[r].ref]]
    /\ UNCHANGED <<pubVars, hold, pin, cpp, endVars, task, boundVars>>

EndBegin(r) ==
    /\ op.kind \in {"begin", "rebegin"} /\ op.step = "end" /\ op.who = r
    /\ prep' = [prep EXCEPT ![r].at = "begun"]
    /\ Release
    /\ UNCHANGED <<pubVars, useVars, endVars, task, boundVars, stops>>

\* The plan is resolved against the generation and frozen in the checkpoint,
\* after a last look for an abandonment; the file is created exclusively.
WriteCheckpoint(r) ==
    /\ prep[r].at = "begun"
    /\ Free /\ Loads(prep[r].ref) /\ ~ Abandoned(r)
    /\ cpp[r].st = "none"
    /\ \/ /\ cpp' = [cpp EXCEPT ![r] = [st |-> "final", ref |-> prep[r].ref]]
          /\ prep' = [prep EXCEPT ![r].at = "pin"]
          /\ UNCHANGED stops
       \/ /\ Tears /\ stops < MaxStops
          /\ cpp' = [cpp EXCEPT ![r].st = "torn"]
          /\ prep' = [prep EXCEPT ![r] = Out]
          /\ stops' = stops + 1
    /\ UNCHANGED <<op, pubVars, hold, use, pin, endVars, task, boundVars>>

\* pinConfigPreparation: the original use, every pin, and only then the hold goes.
StartPin(r) ==
    /\ prep[r].at = "pin"
    /\ Free /\ Quiescent
    /\ ~ Abandoned(r)
    /\ hold[r].st # "torn"
    /\ Readable(hold[r].st) => hold[r].ref = prep[r].ref
    /\ hold[r].st = "none" /\ prep[r].ref # Legacy =>
          use[r] = [st |-> "final", ref |-> prep[r].ref]
    /\ Acquire("pin", r,
          IF prep[r].ref # Legacy /\ Readable(hold[r].st) THEN "use" ELSE "pins")
    /\ UNCHANGED <<pubVars, useVars, endVars, task, prep, boundVars, stops>>

Missing(r) == SelectSeq(Tasks[r], LAMBDA t : pin[t].st = "none")

WritePin(r) ==
    /\ At("pin", "pins") /\ op.who = r
    /\ \/ /\ Missing(r) # <<>> /\ Readable(hold[r].st)
          /\ \E st \in Status :
                /\ WriteInPlace(st, "pins")
                /\ pin' = [pin EXCEPT ![Head(Missing(r))] = [st |-> st, ref |-> prep[r].ref]]
       \/ /\ \/ Missing(r) # <<>> /\ hold[r].st = "none"
             \/ \E t \in ToSet(Tasks[r]) : pin[t].st = "torn"
          /\ Fail
          /\ UNCHANGED <<pin, stops>>
       \/ /\ \A t \in ToSet(Tasks[r]) : pin[t] = [st |-> "final", ref |-> prep[r].ref]
          /\ Goto("unhold")
          /\ UNCHANGED <<pin, prep, stops>>
    /\ UNCHANGED <<pubVars, hold, use, cpp, endVars, task, boundVars>>

\* The hold has its final name here: the checkpoint is written after Begin returns.
RemoveHold(r) ==
    /\ At("pin", "unhold") /\ op.who = r
    /\ hold[r].st \in {"none", "final"}
    /\ hold' = [hold EXCEPT ![r] = Gone]
    /\ prep' = [prep EXCEPT ![r].at = "ready"]
    /\ Release
    /\ UNCHANGED <<pubVars, use, pin, cpp, endVars, task, boundVars, stops>>

----------------------------------------------------------------------------
\* The Store.

Submitted(r) == \E t \in ToSet(Tasks[r]) : task[t].st # "none"

\* validateConfigGenerationSubmissionLocked under the guard's lock; a plan
\* without a generation is not checked.
Submittable(r, g) ==
    g # Legacy =>
       /\ Free /\ Quiescent
       /\ ~ Abandoned(r)
       /\ manifest[g] = "final"
       /\ use[r] = [st |-> "final", ref |-> g]
       /\ \A t \in ToSet(Tasks[r]) : pin[t] = [st |-> "final", ref |-> g]

SubmitPlan(r) ==
    /\ prep[r].at = "ready"
    /\ Submittable(r, prep[r].ref)
    /\ ~ fence[r] /\ ~ Submitted(r)
    /\ task' = [t \in AllTasks |-> IF t \in ToSet(Tasks[r])
                                   THEN [st |-> "live", ref |-> prep[r].ref] ELSE task[t]]
    /\ prep' = [prep EXCEPT ![r] = Out]
    /\ UNCHANGED <<op, pubVars, useVars, endVars, boundVars, stops>>

\* A task settles: for good, or with a decision of the owner still to come.
Settle(t) ==
    /\ \/ task[t].st = "live" /\ \E st \in {"held", "done"} : task' = [task EXCEPT ![t].st = st]
       \/ task[t].st = "held" /\ task' = [task EXCEPT ![t].st = "done"]
    /\ UNCHANGED <<op, pubVars, useVars, endVars, prep, boundVars, stops>>

\* QueueRetry: a retry that restores descendants keeps their pins through the
\* Store's transaction (WithRetainedConfigTaskUses).
QueueRetry(r, root, restored) ==
    /\ root \notin restored
    /\ \A t \in restored \union {root} : task[t].st = "held"
    /\ restored # {} /\ task[root].ref # Legacy =>
          /\ Free /\ Quiescent /\ ~ Abandoned(r)
          /\ use[r] = [st |-> "final", ref |-> task[root].ref]
          /\ manifest[task[root].ref] = "final"
          /\ \A t \in restored \union {root} :
                pin[t] = [st |-> "final", ref |-> task[root].ref]
    /\ task' = [t \in AllTasks |-> IF t \in restored \union {root}
                                   THEN [task[t] EXCEPT !.st = "live"] ELSE task[t]]
    /\ UNCHANGED <<op, pubVars, useVars, endVars, prep, boundVars, stops>>

\* releasableTaskPredicate.
Releasable(t) == task[t].st = "done"

\* ReleaseConfigTaskUse of a paired task, UnpinRunningVersion of a legacy one.
ReleaseTaskUse(t) ==
    /\ Free
    /\ Releasable(t)
    /\ pin[t] = [st |-> "final", ref |-> task[t].ref]
    /\ task[t].ref # Legacy =>
          Quiescent /\ use[RunOf(t)] = [st |-> "final", ref |-> task[t].ref]
    /\ pin' = [pin EXCEPT ![t] = Gone]
    /\ UNCHANGED <<op, pubVars, hold, use, cpp, endVars, task, prep, boundVars, stops>>

----------------------------------------------------------------------------
\* Abandonment of a preparation that was never submitted.


Witnessed(r) ==
    hold[r].st = "none" /\ terminal[r] = "none" => cpp[r].st = "final" /\ Missing(r) = <<>>

StartAbandon(r) ==
    /\ Free /\ Quiescent
    /\ complete[r] # "final"
    /\ hold[r].st # "torn" /\ cpp[r].st # "torn" /\ terminal[r] # "torn"
    /\ Readable(hold[r].st) =>
          hold[r].ref # Legacy /\ (use[r].st = "none" \/ use[r] = [st |-> "final", ref |-> hold[r].ref])
    /\ hold[r].st = "none" => use[r].st = "final"
    /\ \A t \in ToSet(Tasks[r]) : pin[t].st # "torn" /\ (pin[t].st = "final" => cpp[r].st = "final")
    /\ Witnessed(r)
    /\ Acquire("abandon", r, IF use[r].st = "none" THEN "use" ELSE "fence")
    /\ UNCHANGED <<pubVars, useVars, endVars, task, prep, boundVars, stops>>

\* CommitConfigAbandon: the fence that no submission passes, refused for an
\* admitted run.
CommitAbandon(r) ==
    /\ At("abandon", "fence") /\ op.who = r
    /\ \/ /\ fence[r] \/ ~ Submitted(r)
          /\ fence' = [fence EXCEPT ![r] = TRUE]
          /\ Goto("terminal")
       \/ /\ ~ fence[r] /\ Submitted(r)
          /\ Release
          /\ UNCHANGED fence
    /\ UNCHANGED <<pubVars, useVars, terminal, complete, task, prep, boundVars, stops>>

\* finish: the terminal record, the hold, the pins, the complete record.
WriteTerminal(r) ==
    /\ At("abandon", "terminal") /\ op.who = r
    /\ \E st \in Status :
          /\ Write(terminal[r], st, "unhold")
          /\ terminal' = [terminal EXCEPT ![r] = st]
    /\ UNCHANGED <<pubVars, useVars, complete, fence, task, boundVars>>

AbandonReferences(r) ==
    /\ op.kind = "abandon" /\ op.who = r
    /\ \/ /\ op.step = "unhold"
          /\ hold' = [hold EXCEPT ![r] =
                        IF @.st = "draft" THEN [@ EXCEPT !.st = "final"] ELSE Gone]
          /\ IF hold[r].st = "draft" THEN UNCHANGED op ELSE Goto("unpin")
          /\ UNCHANGED pin
       \/ /\ op.step = "unpin"
          /\ LET present == SelectSeq(Tasks[r], LAMBDA t : pin[t].st # "none")
             IN IF present = <<>>
                THEN Goto("complete") /\ UNCHANGED pin
                ELSE pin' = [pin EXCEPT ![Head(present)] = Gone] /\ UNCHANGED op
          /\ UNCHANGED hold
    /\ UNCHANGED <<pubVars, use, cpp, endVars, task, prep, boundVars, stops>>

WriteComplete(r) ==
    /\ At("abandon", "complete") /\ op.who = r
    /\ \E st \in Status :
          /\ Write(complete[r], st, "end")
          /\ complete' = [complete EXCEPT ![r] = st]
    /\ UNCHANGED <<pubVars, useVars, terminal, fence, task, boundVars>>

EndAbandon(r) ==
    /\ At("abandon", "end") /\ op.who = r
    /\ Release
    /\ UNCHANGED <<pubVars, useVars, endVars, task, prep, boundVars, stops>>

----------------------------------------------------------------------------
\* The version itself: configGenerationCheckUninstall, and a new installation.
Uninstall ==
    /\ Free /\ Quiescent
    /\ removals < MaxRemovals
    /\ \A g \in Gens : manifest[g] \in {"none", "final"}
    /\ CheckReferences(Refs)
    /\ installed' = FALSE
    /\ removals' = removals + 1
    /\ UNCHANGED <<op, pubVars, useVars, endVars, task, prep, stops>>

Reinstall ==
    /\ ~ installed
    /\ installed' = TRUE
    /\ UNCHANGED <<op, pubVars, useVars, endVars, task, prep, removals, stops>>

\* The process that holds the lock ends between two file operations.
Stop ==
    /\ op # Idle
    /\ stops < MaxStops
    /\ stops' = stops + 1
    /\ Fail
    /\ UNCHANGED <<pubVars, useVars, endVars, task, boundVars>>

\* The client of a run ends, or gives up after an error, outside the lock.
ClientEnds(r) ==
    /\ prep[r] # Out /\ op.who # r
    /\ stops < MaxStops
    /\ stops' = stops + 1
    /\ prep' = [prep EXCEPT ![r] = Out]
    /\ UNCHANGED <<op, pubVars, useVars, endVars, task, boundVars>>

\* The private checkpoint of a run is lost or deleted.
LoseCheckpoint(r) ==
    /\ cpp[r].st = "final" /\ prep[r] = Out
    /\ (IF cpp[r].ref = Legacy THEN "legacy" ELSE "generation") \in LossModes
    /\ stops < MaxStops
    /\ stops' = stops + 1
    /\ cpp' = [cpp EXCEPT ![r] = Gone]
    /\ UNCHANGED <<op, pubVars, hold, use, pin, endVars, task, prep, boundVars>>

UpdateStep(i) ==
    \/ WriteIntent(i) \/ WriteManifest(i) \/ RemoveManifest(i)
    \/ CommitActive(i) \/ WriteReceipt(i) \/ ClearPublication(i)

RunStep(r) ==
    \/ WriteHold(r) \/ WriteUse(r) \/ EndBegin(r)
    \/ WritePin(r) \/ RemoveHold(r)
    \/ CommitAbandon(r) \/ WriteTerminal(r) \/ AbandonReferences(r)
    \/ WriteComplete(r) \/ EndAbandon(r)

Prepare(r) == StartPreparation(r) \/ StartBegin(r) \/ WriteCheckpoint(r) \/ StartPin(r)

Next ==
    \/ \E i \in Ids :
          \/ \E a \in {"publish", "deactivate", "retire"}, g \in Gens \union {None} : Ask(i, a, g)
          \/ StartUpdate(i) \/ UpdateStep(i)
    \/ \E r \in Runs :
          \/ Prepare(r) \/ RunStep(r) \/ SubmitPlan(r) \/ StartAbandon(r)
          \/ ClientEnds(r) \/ LoseCheckpoint(r)
          \/ \E root \in ToSet(Tasks[r]) : \E restored \in SUBSET ToSet(Tasks[r]) :
                QueueRetry(r, root, restored)
    \/ \E t \in AllTasks : Settle(t) \/ ReleaseTaskUse(t)
    \/ Uninstall \/ Reinstall \/ Stop

Spec == Init /\ [][Next]_vars

\* The caller whose operation was interrupted sends it again: the owner its
\* request or its abandonment, the client its plan.  Each waits for the lock and
\* is refused while a publication is pending, so its turn comes again and again.
Fairness ==
    /\ \A i \in Ids : WF_vars(UpdateStep(i)) /\ SF_vars(StartUpdate(i))
    /\ \A r \in Runs :
          /\ WF_vars(RunStep(r))
          /\ SF_vars(StartPreparation(r)) /\ SF_vars(StartBegin(r))
          /\ SF_vars(WriteCheckpoint(r)) /\ SF_vars(StartPin(r))
          /\ SF_vars(fence[r] /\ StartAbandon(r))

----------------------------------------------------------------------------
\* What a live reference names is there: the manifest of the active generation,
\* of every hold and every pin, whichever operation was interrupted in the
\* hand-over from hold to pins (checkReferences, pinConfigPreparationImpl).
ReferencesResolve ==
    /\ active.ref # None => manifest[active.ref] = "final"
    /\ \A r \in Runs : Readable(hold[r].st) /\ hold[r].ref # Legacy =>
          manifest[hold[r].ref] = "final"
    /\ \A t \in AllTasks : pin[t].st = "final" /\ pin[t].ref # Legacy =>
          manifest[pin[t].ref] = "final"

\* A task the Store may still run keeps its pin, the version it was admitted
\* with and its generation, through retirement, release, retry, uninstallation
\* and an abandonment that races the submission (releasableTaskPredicate,
\* CommitConfigAbandon, WithSubmission).
LiveIsBacked ==
    \A t \in AllTasks : task[t].st \in {"live", "held"} =>
       /\ installed
       /\ pin[t] = [st |-> "final", ref |-> task[t].ref]
       /\ task[t].ref # Legacy => manifest[task[t].ref] = "final"

\* A run that was admitted without a generation and keeps no pin of it.
ReleasedLegacy(r) ==
    \A t \in ToSet(Tasks[r]) : task[t] = [st |-> "done", ref |-> Legacy] /\ pin[t].ref # Legacy

\* Every record of a run names the same generation, although the active one may
\* change between the steps of its preparation and the checkpoint may be lost
\* (beginConfigPreparationForTasks).  Set aside are the tasks of a run without a
\* generation once all of them are released: if its checkpoint is lost then, no
\* record is left, and the run is prepared again with the generation that is
\* active by then (config_generation_use.go:195-229).
OneGeneration ==
    \A r \in Runs :
       LET named == {f[r].ref : f \in {g \in {hold, use, cpp} : Readable(g[r].st)}}
                    \union {pin[t].ref : t \in {u \in ToSet(Tasks[r]) : pin[u].st = "final"}}
                    \union {task[t].ref : t \in {u \in ToSet(Tasks[r]) :
                               task[u].st # "none" /\ ~ ReleasedLegacy(r)}}
       IN \A g, h \in named : g = h

\* A completed abandonment left nothing behind and stays that way: no hold, no
\* pin, nothing in the Store but the fence (ConfigAbandonGuard.finish).
CompleteIsClean ==
    \A r \in Runs : complete[r] # "none" =>
       /\ fence[r] /\ terminal[r] = "final"
       /\ hold[r].st = "none"
       /\ \A t \in ToSet(Tasks[r]) : pin[t].st = "none" /\ task[t].st = "none"

\* A committed receipt is true and won its revision alone: the active record
\* has moved past the one the request expected, is the request's own until a
\* later one, and a retired generation is gone (updateConfigGenerationImpl).
ReceiptIsTrue ==
    \A i \in Ids : hist[i] = "final" =>
       LET q == req[i] IN
       IF q.action = "retire" THEN active.rev = q.expected => manifest[q.ref] = "none"
       ELSE /\ active.rev > q.expected
            /\ active.rev = q.expected + 1 => active.ref = q.ref
            /\ \A j \in Ids \ {i} : hist[j] = "final" /\ req[j].action # "retire" =>
                  req[j].expected # q.expected

\* The records of the generations fit together at every interruption: live
\* references resolve, a run has one generation, what may still run is backed,
\* and receipts and completed abandonments are true.
GenerationsSound ==
    /\ TypeOK
    /\ ReferencesResolve /\ LiveIsBacked /\ OneGeneration /\ CompleteIsClean /\ ReceiptIsTrue

\* A crash left a partial record of the owner's publications, which commitActive
\* and writeOriginalRecord refuse ever after (config_generation_publication.go:
\* 530-580), or one of the run.
PublicationTorn ==
    \/ "torn" \in {pend.st, stage, temp}
    \/ \E g \in Gens : manifest[g] = "torn"
    \/ \E i \in Ids : hist[i] = "torn"
RunTorn(r) ==
    \/ "torn" \in {hold[r].st, use[r].st, cpp[r].st, terminal[r], complete[r]}
    \/ \E t \in ToSet(Tasks[r]) : pin[t].st = "torn"

\* A publication that began is completed by its repetition: the receipt is
\* committed and the intent cleared (configGenerationIntent), unless a record of
\* the publications is torn.
SelectionCommitted ==
    \A i \in Ids : pend.id = i ~> (hist[i] = "final" /\ pend.id # i) \/ PublicationTorn

\* A run that holds a generation ends pinned or abandoned: the hold does not
\* stay and block its retirement (pinConfigPreparationImpl), unless a record of
\* the run or of the publications is torn.
PreparationConverges ==
    \A r \in Runs : hold[r].st # "none" ~> hold[r].st = "none" \/ RunTorn(r) \/ PublicationTorn

\* An abandonment past its fence is completed by its repetition, whatever the
\* interrupted one and a preparation that still goes on left (Finish), unless
\* a record of the run or of the publications is torn.
AbandonConverges ==
    \A r \in Runs : fence[r] ~> complete[r] = "final" \/ RunTorn(r) \/ PublicationTorn


=============================================================================
