--------------------------- MODULE InstallConfig ---------------------------
(***************************************************************************)
(* Registration of an installed version in a user's configuration file     *)
(* (one target file), composed with the installer: planning and applying   *)
(* take the installer's lock, a removal of the version looks at the        *)
(* registrations first, and the user edits the file at any time without    *)
(* any lock.  A plan is a file: it can be applied again after an           *)
(* interruption, or long after the state it was made for is gone.          *)
(***************************************************************************)
EXTENDS Install, FiniteSets

CONSTANTS
    MaxPlans,     \* bound: plan files ever written
    MaxEdits      \* bound: edits by the user

ConfigParameters == MaxPlans \in Nat /\ MaxEdits \in Nat

VARIABLES
    target,       \* the file: the version registered in it, the user's edits
    record,       \* its .agent-bird-receipt.json
    registry,     \* config-registrations: per version, the tree registered
    backup,       \* its .agent-bird-backup
    plans,        \* the plan files
    late          \* the user edited between the last comparison and the rename

cfgVars == <<target, record, registry, backup, plans, late>>
allVars == <<vars, cfgVars>>

Contents == [reg : Versions \union {None}, edit : 0 .. MaxEdits]
Statuses == {"pending", "applied", "removed"}

ConfigTypeOK ==
    /\ target \in Contents
    /\ record # None =>
          /\ record.v \in Versions /\ record.tree \in Trees
          /\ record.status \in Statuses /\ record.action \in {"apply", "remove"}
          /\ record.before \in Contents /\ record.after \in Contents
    /\ registry \in [Versions -> {None, Torn} \union Trees]
    /\ backup \in {None, Torn} \union Contents
    /\ \A p \in plans : p.before \in Contents /\ p.after \in Contents
    /\ late \in BOOLEAN

ConfigInit ==
    /\ Init
    /\ target = [reg |-> None, edit |-> 0]
    /\ record = None
    /\ registry = [v \in Versions |-> None]
    /\ backup = None
    /\ plans = {}
    /\ late = FALSE

----------------------------------------------------------------------------
Completed(action) == IF action = "apply" THEN "applied" ELSE "removed"

\* configTransform: the registration enters or leaves, the user's values stay.
Transform(content, action, v) ==
    [content EXCEPT !.reg = IF action = "apply" THEN v ELSE None]

\* PlanConfig.  A file with a receipt can be planned for the installation the
\* receipt names only, and not while that receipt is pending; an action that
\* is already done is planned as no change.
PlanConfig(action, v) ==
    /\ run = Idle
    /\ Cardinality(plans) < MaxPlans
    /\ Installed(v)
    /\ record # None =>
          record.v = v /\ record.tree = dir[v] /\ record.status # "pending"
    /\ action = "remove" => record # None
    /\ LET done == record # None /\ record.status = Completed(action)
           present == target.reg = v
           after == IF done THEN target ELSE Transform(target, action, v)
       IN /\ IF action = "apply" THEN done = present ELSE done = ~present
          /\ ~done /\ action = "apply" => target.reg = None
          /\ plans' = plans \union
                {[action |-> action, v |-> v, tree |-> dir[v], before |-> target,
                  after |-> after, old |-> record]}
    /\ UNCHANGED <<vars, target, record, registry, backup, late>>

\* The receipt is of the installation the plan is for.
SameReceipt(p) == record # None /\ record.v = p.v /\ record.tree = p.tree

PendingOf(p) ==
    /\ SameReceipt(p)
    /\ record.status = "pending"
    /\ record.action = p.action
    /\ record.before = p.before
    /\ record.after = p.after

\* configCheckBackup: the backup is this plan's own, or the one the receipt
\* before this plan proves.
BackupOwned(p, pending) ==
    \/ backup = None
    \/ pending /\ backup = p.before
    \/ /\ p.old # None
       /\ p.old.v = p.v /\ p.old.tree = p.tree
       /\ p.old.status \in {"applied", "removed"}
       /\ backup = p.old.before

Registrable(p) == registry[p.v] \in {None, p.tree}

\* What ApplyConfig holds while it runs: the plan, whether the target is still
\* to be replaced, whether its receipt was found pending.
Working(p, replace, pending) == [plan |-> p, replace |-> replace, pending |-> pending]

\* ApplyConfigAction, repeated after the receipt was completed: a removal still
\* forgets its registration.
BeginForget(p) ==
    /\ SameReceipt(p)
    /\ record.status = "removed"
    /\ record.action = "remove"
    /\ p.action = "remove"
    /\ target = p.after
    /\ Lock("config", p.v, Working(p, FALSE, FALSE), "forget")

\* ApplyConfigAction, the target as it was planned or already replaced.
BeginApply(p) ==
    /\ p.before # p.after
    /\ PendingOf(p) \/ record = p.old
    /\ target = p.before \/ (PendingOf(p) /\ target = p.after)
    /\ BackupOwned(p, PendingOf(p))
    /\ Registrable(p)
    /\ Lock("config", p.v, Working(p, target = p.before, PendingOf(p)), "register")

ApplyConfig(p) ==
    /\ run = Idle
    /\ Installed(p.v)
    /\ dir[p.v] = p.tree
    /\ BeginForget(p) \/ BeginApply(p)
    /\ UNCHANGED <<pubVars, remVars, pins, stops, cfgVars>>

Plan == run.arg.plan
installVars == <<pubVars, remVars, pins, stops>>

\* configRecordRegistration: created, then written.
CreateRegistration ==
    /\ At("config", "register")
    /\ IF registry[run.v] = None
       THEN registry' = [registry EXCEPT ![run.v] = Torn] /\ Goto("write")
       ELSE UNCHANGED registry /\ Goto("receipt")
    /\ UNCHANGED <<installVars, target, record, backup, plans, late>>

WriteRegistration ==
    /\ At("config", "write")
    /\ registry' = [registry EXCEPT ![run.v] = Plan.tree]
    /\ Goto("receipt")
    /\ UNCHANGED <<installVars, target, record, backup, plans, late>>

\* The pending receipt, before anything of the user's is touched.
WriteReceipt ==
    /\ At("config", "receipt")
    /\ record' = IF run.arg.pending THEN record
                 ELSE [v |-> Plan.v, tree |-> Plan.tree, status |-> "pending",
                       action |-> Plan.action, before |-> Plan.before,
                       after |-> Plan.after]
    /\ Goto("backup")
    /\ UNCHANGED <<installVars, target, registry, backup, plans, late>>

AfterBackup == IF run.arg.replace THEN "compare" ELSE "finish"

\* configSaveBackup: an absent backup is created and then written, another one
\* is replaced by a rename.
SaveBackup ==
    /\ At("config", "backup")
    /\ IF BackupOwned(Plan, TRUE)
       THEN IF backup = None
            THEN backup' = Torn /\ Goto("fill")
            ELSE backup' = Plan.before /\ Goto(AfterBackup)
       ELSE run' = Idle /\ UNCHANGED backup
    /\ UNCHANGED <<installVars, target, record, registry, plans, late>>

FillBackup ==
    /\ At("config", "fill")
    /\ backup' = Plan.before
    /\ Goto(AfterBackup)
    /\ UNCHANGED <<installVars, target, record, registry, plans, late>>

\* Mutant: the target is not compared again.
CompareNothing ==
    /\ At("config", "compare")
    /\ Goto("replace")
    /\ late' = FALSE
    /\ UNCHANGED <<installVars, target, record, registry, backup, plans>>

\* The target is compared again immediately before it is replaced.
Compare ==
    /\ At("config", "compare")
    /\ IF target = Plan.before
       THEN Goto("replace") /\ late' = FALSE
       ELSE run' = Idle /\ UNCHANGED late
    /\ UNCHANGED <<installVars, target, record, registry, backup, plans>>

Replace ==
    /\ At("config", "replace")
    /\ target' = Plan.after
    /\ Goto("finish")
    /\ UNCHANGED <<installVars, record, registry, backup, plans, late>>

Finish ==
    /\ At("config", "finish")
    /\ record' = [record EXCEPT !.status = Completed(Plan.action)]
    /\ IF Plan.action = "remove" THEN Goto("forget") ELSE run' = Idle
    /\ UNCHANGED <<installVars, target, registry, backup, plans, late>>

\* configForgetRegistration: only the registration of this very installation.
Forget ==
    /\ At("config", "forget")
    /\ registry' = [registry EXCEPT ![run.v] = IF @ = Plan.tree THEN None ELSE @]
    /\ run' = Idle
    /\ UNCHANGED <<installVars, target, record, backup, plans, late>>

\* The user changes other values of the file, at any time.
UserEdit ==
    /\ target.edit < MaxEdits
    /\ target' = [target EXCEPT !.edit = @ + 1]
    /\ late' = (late \/ At("config", "replace"))
    /\ UNCHANGED <<vars, record, registry, backup, plans>>

----------------------------------------------------------------------------
\* Mutant: a removed receipt is enough, without its registration's installation
\* or the file itself.
ConfigCheckReceiptOnly(v) ==
    registry[v] # None => record # None /\ record.action = "remove"

\* configCheckUninstall: a registration that is recorded blocks until the
\* receipt of the same installation says removed and the file agrees.
ConfigCheckUninstall(v) ==
    registry[v] # None =>
        /\ registry[v] # Torn
        /\ record # None
        /\ record.status = "removed"
        /\ record.v = v
        /\ record.tree = registry[v]
        /\ target.reg # v

ConfigStep ==
    \/ CreateRegistration \/ WriteRegistration \/ WriteReceipt \/ SaveBackup
    \/ FillBackup \/ Compare \/ Replace \/ Finish \/ Forget

\* The installer's own steps leave the configuration alone.
InstallerNext ==
    /\ \/ \E v \in Versions, r \in Requests : BeginInstall(v, r)
       \/ InstallStep
       \/ \E v \in Versions : ConfigCheckUninstall(v) /\ BeginUninstall(v)
       \/ UninstallStep
       \/ Stop
    /\ UNCHANGED cfgVars

ConfigNext ==
    \/ InstallerNext
    \/ \E a \in {"apply", "remove"}, v \in Versions : PlanConfig(a, v)
    \/ \E p \in plans : ApplyConfig(p)
    \/ ConfigStep
    \/ UserEdit

ConfigSpec == ConfigInit /\ [][ConfigNext]_allVars

\* The call that repeats an interrupted plan.
Repeat == \E p \in plans : ApplyConfig(p) /\ (PendingOf(p) \/ run'.step = "forget")

ConfigFairness ==
    /\ WF_allVars(InstallStep /\ UNCHANGED cfgVars)
    /\ WF_allVars(UninstallStep /\ UNCHANGED cfgVars)
    /\ WF_allVars(ConfigStep)
    /\ SF_allVars(Repeat)

----------------------------------------------------------------------------
\* A version the user's file refers to is complete under its own name, whatever
\* sequence of plans, interruptions, removals and reinstallations led there:
\* the hooks in the file run from that directory.
ConfiguredIsWhole ==
    target.reg # None => Content(target.reg)

\* No edit of the user is lost, except one made between the last comparison and
\* the rename that replaces the file.
EditsKept ==
    [][target'.edit < target.edit => late]_allVars

Pending == record # None /\ record.status = "pending"

\* A pending receipt is completed by repeating its plan, unless the user has
\* changed the file since or the backup was left torn.
PendingCompletes ==
    Pending ~> \/ ~Pending
               \/ target \notin {record.before, record.after}
               \/ backup = Torn /\ run = Idle

=============================================================================
