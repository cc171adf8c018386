------------------------------ MODULE Install ------------------------------
(***************************************************************************)
(* The package installer: publication of a version directory, pins and     *)
(* uninstallation.  Every operation holds the flock .install.lock for its  *)
(* whole duration, so operations never interleave; what makes the          *)
(* protocol hard is that the process may end between any two file          *)
(* operations and that the next call, of any operation, starts from the    *)
(* files that are left.  One action is one visible file operation.         *)
(***************************************************************************)
EXTENDS Integers, Sequences

CONSTANTS
    Versions,     \* the package versions
    Requests,     \* installation requests, told apart by their digest
    Tasks,        \* the tasks that pin a version
    MaxTrees,     \* bound: directory trees ever staged
    Pieces,       \* files and directories of a tree
    MaxStops,     \* bound: operations that end before their last step
    None,
    Torn          \* a file that was created and not written

InstallParameters ==
    /\ MaxTrees \in Nat \ {0}
    /\ Pieces \in Nat \ {0}
    /\ MaxStops \in Nat
    /\ None \notin Versions \union Requests \union Tasks \union Nat
    /\ Torn \notin Versions \union Nat \union {None}

VARIABLES
    run,       \* the operation that holds the lock: [op, v, arg, step]
    tree,      \* trees staged so far: the request it was sealed for, pieces left
    stages,    \* trees still under a .stage- name
    dir,       \* versions/V: the tree under that name, 0 when absent
    quar,      \* versions/.uninstall-root-V
    sink,      \* versions/.uninstall-delete-V: absent, or what it holds
    intent,    \* install-intents: the publication record of a version
    receipt,   \* manifests/V.json
    uninst,    \* uninstall-intents/V.json: None, Torn or the tree it names
    pins,      \* pins/T.json: None, Torn or the version
    junk,      \* an unbound temporary is left in install-intents
    stops      \* operations interrupted so far

pubVars == <<tree, stages, dir, intent, receipt, junk>>
remVars == <<quar, sink, uninst>>
vars == <<run, pubVars, remVars, pins, stops>>

Idle == [op |-> "idle", v |-> None, arg |-> None, step |-> "none"]

Trees == 1 .. MaxTrees

TypeOK ==
    /\ run.op \in {"idle", "install", "uninstall", "pin"}
    /\ tree \in Seq([req : Requests \union {None}, left : 0 .. Pieces])
    /\ Len(tree) <= MaxTrees
    /\ stages \subseteq DOMAIN tree
    /\ dir \in [Versions -> 0 .. MaxTrees]
    /\ quar \in [Versions -> 0 .. MaxTrees]
    /\ sink \in [Versions -> {"absent", "empty", "piece", "root"}]
    /\ \A v \in Versions :
          /\ intent[v] # None =>
                intent[v] \in [req : Requests, tree : Trees, name : {"record", "cleanup"}]
          /\ receipt[v] # None => receipt[v] \in [req : Requests, tree : Trees]
    /\ uninst \in [Versions -> {None, Torn} \union Trees]
    /\ pins \in [Tasks -> {None, Torn} \union Versions]
    /\ junk \in BOOLEAN
    /\ stops \in 0 .. MaxStops

Init ==
    /\ run = Idle
    /\ tree = <<>>
    /\ stages = {}
    /\ dir = [v \in Versions |-> 0]
    /\ quar = [v \in Versions |-> 0]
    /\ sink = [v \in Versions |-> "absent"]
    /\ intent = [v \in Versions |-> None]
    /\ receipt = [v \in Versions |-> None]
    /\ uninst = [v \in Versions |-> None]
    /\ pins = [t \in Tasks |-> None]
    /\ junk = FALSE
    /\ stops = 0

----------------------------------------------------------------------------
\* The tree is all that its manifest lists.
Whole(i) == i \in DOMAIN tree /\ tree[i].left = Pieces

\* verifyInstalledVersionContent: the receipt, the directory it names, its files.
Content(v) ==
    /\ receipt[v] # None
    /\ dir[v] = receipt[v].tree
    /\ Whole(dir[v])

\* verifyInstalledVersion: and no publication of the version is pending.
Installed(v) == intent[v] = None /\ Content(v)

\* The operation in progress is at the given step.
At(op, step) == run.op = op /\ run.step = step
Goto(step) == run' = [run EXCEPT !.step = step]
Lock(op, v, arg, step) ==
    run' = [op |-> op, v |-> v, arg |-> arg, step |-> step]

----------------------------------------------------------------------------
\* installPublication of request r as version v.  What the call finds decides
\* where it starts: a receipt is replayed, an intent is resumed by the request
\* it names, and otherwise a fresh stage is made under a name of its own.
\* Mutant: the request's digest is not compared with the receipt's.
BeginReplayAny(v, r) ==
    /\ receipt[v] # None
    /\ Content(v)
    /\ intent[v] # None => intent[v].tree \notin stages
    /\ Lock("install", v, r, IF intent[v] = None THEN "done"
                             ELSE IF intent[v].name = "record" THEN "retire"
                             ELSE "unlink")
    /\ UNCHANGED <<tree, stages>>

BeginReplay(v, r) ==
    /\ receipt[v] # None
    /\ Content(v)
    /\ receipt[v].req = r
    /\ intent[v] # None => intent[v].tree \notin stages
    /\ Lock("install", v, r, IF intent[v] = None THEN "done"
                             ELSE IF intent[v].name = "record" THEN "retire"
                             ELSE "unlink")
    /\ UNCHANGED <<tree, stages>>

\* Mutant: an intent is resumed only while its stage has its own name.
BeginResumeStaged(v, r) ==
    /\ receipt[v] = None
    /\ intent[v] # None
    /\ intent[v].name = "record"
    /\ intent[v].req = r
    /\ intent[v].tree \in stages
    /\ dir[v] = 0
    /\ Lock("install", v, r, "publish")
    /\ UNCHANGED <<tree, stages>>

BeginResume(v, r) ==
    /\ receipt[v] = None
    /\ intent[v] # None
    /\ intent[v].name = "record"
    /\ intent[v].req = r
    /\ (intent[v].tree \in stages) # (dir[v] # 0)
    /\ Lock("install", v, r, IF dir[v] = 0 THEN "publish" ELSE "index")
    /\ UNCHANGED <<tree, stages>>

BeginStage(v, r) ==
    /\ receipt[v] = None
    /\ intent[v] = None
    /\ dir[v] = 0
    /\ Len(tree) < MaxTrees
    /\ tree' = Append(tree, [req |-> None, left |-> 0])
    /\ stages' = stages \union {Len(tree')}
    /\ Lock("install", v, r, "seal")

BeginInstall(v, r) ==
    /\ run = Idle
    /\ uninst[v] = None
    /\ BeginReplay(v, r) \/ BeginResume(v, r) \/ BeginStage(v, r)
    /\ UNCHANGED <<dir, intent, receipt, junk, remVars, pins, stops>>

\* The stage this call made: the last tree.
Fresh == Len(tree)

\* seal: copy the payload, write the manifest, sync the tree.
Seal ==
    /\ At("install", "seal")
    /\ tree' = [tree EXCEPT ![Fresh] = [req |-> run.arg, left |-> Pieces]]
    /\ Goto("intent")
    /\ UNCHANGED <<stages, dir, intent, receipt, junk, remVars, pins, stops>>

\* publishRecord, first half: the record under a temporary name of install-intents.
WriteTemporary ==
    /\ At("install", "intent")
    /\ Goto("rename")
    /\ UNCHANGED <<pubVars, remVars, pins, stops>>

\* publishRecord, second half: the rename that makes the intent visible.
PublishIntent ==
    /\ At("install", "rename")
    /\ intent' = [intent EXCEPT ![run.v] =
                    [req |-> run.arg, tree |-> Fresh, name |-> "record"]]
    /\ Goto("publish")
    /\ UNCHANGED <<tree, stages, dir, receipt, junk, remVars, pins, stops>>

\* publishStage: rename the sealed stage to the version's name.
PublishStage ==
    /\ At("install", "publish")
    /\ Whole(intent[run.v].tree)
    /\ dir' = [dir EXCEPT ![run.v] = intent[run.v].tree]
    /\ stages' = stages \ {intent[run.v].tree}
    /\ Goto("index")
    /\ UNCHANGED <<tree, intent, receipt, junk, remVars, pins, stops>>

\* The receipt enters the index once the published tree is validated.
PublishReceipt ==
    /\ At("install", "index")
    /\ dir[run.v] = intent[run.v].tree
    /\ Whole(dir[run.v])
    /\ receipt' = [receipt EXCEPT ![run.v] =
                    [req |-> intent[run.v].req, tree |-> intent[run.v].tree]]
    /\ Goto("retire")
    /\ UNCHANGED <<tree, stages, dir, intent, junk, remVars, pins, stops>>

\* cleanupIntent: the record is renamed, then removed.
RetireIntent ==
    /\ At("install", "retire")
    /\ intent' = [intent EXCEPT ![run.v].name = "cleanup"]
    /\ Goto("unlink")
    /\ UNCHANGED <<tree, stages, dir, receipt, junk, remVars, pins, stops>>

UnlinkIntent ==
    /\ At("install", "unlink")
    /\ intent' = [intent EXCEPT ![run.v] = None]
    /\ Goto("done")
    /\ UNCHANGED <<tree, stages, dir, receipt, junk, remVars, pins, stops>>

\* The call answers that the version is installed.
Answer ==
    /\ At("install", "done")
    /\ run' = Idle
    /\ UNCHANGED <<pubVars, remVars, pins, stops>>

----------------------------------------------------------------------------
\* PinVersion: the version must be installed; an equal pin is already there.
\* The file is created and then written (writeExclusive).
Pin(t, v) ==
    /\ run = Idle
    /\ Installed(v)
    /\ pins[t] = None
    /\ pins' = [pins EXCEPT ![t] = Torn]
    /\ Lock("pin", v, t, "write")
    /\ UNCHANGED <<pubVars, remVars, stops>>

WritePin ==
    /\ At("pin", "write")
    /\ pins' = [pins EXCEPT ![run.arg] = run.v]
    /\ run' = Idle
    /\ UNCHANGED <<pubVars, remVars, stops>>

\* UnpinVersion: a pin that cannot be read stays.
Unpin(t) ==
    /\ run = Idle
    /\ pins[t] \notin {None, Torn}
    /\ pins' = [pins EXCEPT ![t] = None]
    /\ UNCHANGED <<run, pubVars, remVars, stops>>

----------------------------------------------------------------------------
\* checkPins: any unreadable pin refuses, whatever version it was for.
Unpinned(v) == \A t \in Tasks : pins[t] \notin {Torn, v}

\* The refusals of UninstallPackage before it looks at its own intent: unknown
\* names in install-intents, a pending publication of the version, pins.
Removable(v) == ~junk /\ intent[v] = None /\ Unpinned(v)

\* Once the intent is durable: what is left of the version decides.
AfterIntent(v) ==
    IF dir[v] = 0 /\ quar[v] = 0 THEN "receipt"
    ELSE IF dir[v] # 0 THEN "quarantine"
    ELSE "sink"

\* A tree is removed only while its receipt names it.
ReceiptNames(v) ==
    LET active == IF dir[v] # 0 THEN dir[v] ELSE quar[v]
    IN active # 0 => receipt[v] # None /\ receipt[v].tree = active

BeginUninstallFresh(v) ==
    /\ uninst[v] = None
    /\ Content(v)
    /\ uninst' = [uninst EXCEPT ![v] = Torn]
    /\ Lock("uninstall", v, None, "intent")

BeginUninstallResumed(v) ==
    /\ uninst[v] \in Trees
    /\ ReceiptNames(v)
    /\ Lock("uninstall", v, None, AfterIntent(v))
    /\ UNCHANGED uninst

\* Mutant: a resumed removal that trusts its intent and looks at the pins no more.
BeginUninstallTrusting(v) ==
    /\ run = Idle
    /\ \/ Removable(v) /\ BeginUninstallFresh(v)
       \/ ~junk /\ intent[v] = None /\ BeginUninstallResumed(v)
    /\ UNCHANGED <<pubVars, quar, sink, pins, stops>>

BeginUninstall(v) ==
    /\ run = Idle
    /\ Removable(v)
    /\ BeginUninstallFresh(v) \/ BeginUninstallResumed(v)
    /\ UNCHANGED <<pubVars, quar, sink, pins, stops>>

WriteUninstallIntent ==
    /\ At("uninstall", "intent")
    /\ uninst' = [uninst EXCEPT ![run.v] = dir[run.v]]
    /\ Goto("quarantine")
    /\ UNCHANGED <<pubVars, quar, sink, pins, stops>>

\* removeOwnedTreeAnchored: the directory leaves its name first.
Quarantine ==
    /\ At("uninstall", "quarantine")
    /\ quar[run.v] = 0
    /\ quar' = [quar EXCEPT ![run.v] = dir[run.v]]
    /\ dir' = [dir EXCEPT ![run.v] = 0]
    /\ Goto("sink")
    /\ UNCHANGED <<tree, stages, intent, receipt, junk, sink, uninst, pins, stops>>

\* A delete directory that is not empty is kept, and the call returns.
OpenSink ==
    /\ At("uninstall", "sink")
    /\ IF sink[run.v] \in {"absent", "empty"}
       THEN sink' = [sink EXCEPT ![run.v] = "empty"] /\ Goto("pieces")
       ELSE run' = Idle /\ UNCHANGED sink
    /\ UNCHANGED <<pubVars, quar, uninst, pins, stops>>

\* moveVerifiedFile and moveVerifiedDirectory: into the sink, then unlinked.
MovePiece ==
    /\ At("uninstall", "pieces")
    /\ tree[quar[run.v]].left > 0
    /\ sink[run.v] = "empty"
    /\ tree' = [tree EXCEPT ![quar[run.v]].left = @ - 1]
    /\ sink' = [sink EXCEPT ![run.v] = "piece"]
    /\ UNCHANGED <<run, stages, dir, intent, receipt, junk, quar, uninst, pins, stops>>

UnlinkPiece ==
    /\ At("uninstall", "pieces")
    /\ sink[run.v] = "piece"
    /\ sink' = [sink EXCEPT ![run.v] = "empty"]
    /\ UNCHANGED <<run, pubVars, quar, uninst, pins, stops>>

MoveRoot ==
    /\ At("uninstall", "pieces")
    /\ tree[quar[run.v]].left = 0
    /\ sink[run.v] = "empty"
    /\ quar' = [quar EXCEPT ![run.v] = 0]
    /\ sink' = [sink EXCEPT ![run.v] = "root"]
    /\ Goto("root")
    /\ UNCHANGED <<pubVars, uninst, pins, stops>>

UnlinkRoot ==
    /\ At("uninstall", "root")
    /\ sink' = [sink EXCEPT ![run.v] = "absent"]
    /\ Goto("receipt")
    /\ UNCHANGED <<pubVars, quar, uninst, pins, stops>>

\* removeReceiptForIntent: an absent receipt is already removed.
RemoveReceipt ==
    /\ At("uninstall", "receipt")
    /\ receipt[run.v] # None => receipt[run.v].tree = uninst[run.v]
    /\ receipt' = [receipt EXCEPT ![run.v] = None]
    /\ Goto("forget")
    /\ UNCHANGED <<tree, stages, dir, intent, junk, remVars, pins, stops>>

ForgetUninstall ==
    /\ At("uninstall", "forget")
    /\ uninst' = [uninst EXCEPT ![run.v] = None]
    /\ run' = Idle
    /\ UNCHANGED <<pubVars, quar, sink, pins, stops>>

----------------------------------------------------------------------------
\* The process ends, or one of its file operations fails and the call returns:
\* the lock is free and the files stay as they are.  A temporary that was not
\* renamed yet is never adopted nor removed.
Stop ==
    /\ run # Idle
    /\ stops < MaxStops
    /\ run' = Idle
    /\ stops' = stops + 1
    /\ junk' = (junk \/ At("install", "rename"))
    /\ UNCHANGED <<tree, stages, dir, intent, receipt, remVars, pins>>

InstallStep ==
    \/ Seal \/ WriteTemporary \/ PublishIntent \/ PublishStage
    \/ PublishReceipt \/ RetireIntent \/ UnlinkIntent \/ Answer

UninstallStep ==
    \/ WriteUninstallIntent \/ Quarantine \/ OpenSink \/ MovePiece
    \/ UnlinkPiece \/ MoveRoot \/ UnlinkRoot \/ RemoveReceipt \/ ForgetUninstall

Next ==
    \/ \E v \in Versions, r \in Requests : BeginInstall(v, r)
    \/ InstallStep
    \/ \E t \in Tasks, v \in Versions : Pin(t, v)
    \/ WritePin
    \/ \E t \in Tasks : Unpin(t)
    \/ \E v \in Versions : BeginUninstall(v)
    \/ UninstallStep
    \/ Stop

Spec == Init /\ [][Next]_vars

\* An operation that is not interrupted runs to its end.  An installation or a
\* removal that was interrupted is asked for again, in the words of its first
\* request, until it gets the lock (InstallPortable polls it), and a task that
\* pins a version ends.
Fairness ==
    /\ WF_vars(InstallStep)
    /\ WF_vars(UninstallStep)
    /\ WF_vars(WritePin)
    /\ \A v \in Versions, r \in Requests : SF_vars(BeginInstall(v, r))
    /\ \A v \in Versions : SF_vars(BeginUninstall(v))
    /\ \A t \in Tasks : SF_vars(Unpin(t))

----------------------------------------------------------------------------
\* A receipt in manifests names a version directory that is there, complete and
\* sealed for the request the receipt records, unless a durable uninstall
\* intent accounts for what is missing: Doctor, PinVersion, the configuration
\* and a replayed installation all start from the receipt.
IndexedIsWhole ==
    \A v \in Versions :
        receipt[v] # None /\ uninst[v] \notin Trees =>
            /\ Content(v)
            /\ tree[dir[v]].req = receipt[v].req

\* A version a task has pinned stays complete under its own name, also when
\* the pin was taken between an interrupted removal and its repetition.
PinnedIsWhole ==
    \A t \in Tasks : pins[t] \in Versions => Content(pins[t])

\* What the index or a pin names can be used, between any two file operations of
\* any call (publishStage, removeOwnedTreeAnchored, PinVersion).
InstalledIsWhole == TypeOK /\ IndexedIsWhole /\ PinnedIsWhole

\* An installation answers success only for a version that is installed, with
\* no publication pending, from exactly the request that asked, whichever call
\* staged, published, indexed and cleaned up.
AnswerStep ==
    At("install", "done") /\ run' = Idle /\ stops' = stops =>
        Installed(run.v) /\ tree[dir[run.v]].req = run.arg

\* A publication whose intent is durable ends installed, wherever its calls
\* were interrupted.
PublicationConverges ==
    \A v \in Versions : intent[v] # None ~> Installed(v)

\* What an interruption can leave that no later call clears: a temporary among
\* the publication records, a torn pin, something in the delete directory.
Wedged(v) ==
    /\ run = Idle
    /\ junk \/ (\E t \in Tasks : pins[t] = Torn) \/ sink[v] \in {"piece", "root"}

Removed(v) == uninst[v] = None /\ receipt[v] = None /\ dir[v] = 0 /\ quar[v] = 0

\* A removal whose intent is durable ends with neither directory, receipt nor
\* intent, wherever its calls were interrupted and whoever pinned the version
\* in between, unless one of the three leftovers above stands in its way.
RemovalConverges ==
    \A v \in Versions : uninst[v] \in Trees ~> Removed(v) \/ Wedged(v)

=============================================================================
