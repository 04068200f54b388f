------------------------------- MODULE Merger -------------------------------
(***************************************************************************)
(* The merge assistant of grind/merge.py and the part of git it drives:    *)
(* a backup branch, a staging branch made from the target, one merge per   *)
(* task branch with a menu at each conflict, a rollback when the user      *)
(* aborts, and a verification at the end.                                  *)
(*                                                                         *)
(* Task branches fork from the target or from one another: the executor    *)
(* merges the branches a task depends on into its own.  Each edits or      *)
(* deletes some of the files; a file is what two edits always conflict on. *)
(***************************************************************************)
EXTENDS Naturals, Sequences, SequencesExt

CONSTANTS
    Branches,       \* names of task branches
    Files,
    Histories,      \* the task branches there may be, with what they contain
    Requests,       \* the branch lists asked for
    None

\* A branch contains itself, and all that a branch it contains does.
IsHistory(h) ==
    /\ DOMAIN h \subseteq Branches
    /\ \A b \in DOMAIN h :
         /\ h[b].file \in [Files -> Branches \union {"base", "gone"}]
         /\ b \in h[b].has /\ h[b].has \subseteq DOMAIN h
         /\ \A c \in h[b].has : h[c].has \subseteq h[b].has

ASSUME MergerAssumption ==
    /\ \A h \in Histories : IsHistory(h)
    /\ Requests \subseteq Seq(Branches) \ {<<>>}
    /\ None \notin Branches

\* A file is as it was at the fork, gone, as a task branch edited it, as the
\* other branch has it, edited by the user and not committed, or full of
\* conflict markers.
Version == Branches \union {"base", "gone", "other", "local", "markers"}
Commit == [has: SUBSET Branches, file: [Files -> Version]]
Refs == {"target", "other", "staging", "backup"}

VARIABLES
    task,           \* the commit of each task branch that exists
    head,           \* the branch checked out
    tips,           \* the commit of each branch that is not a task branch
    staged,         \* the index
    tree,           \* the working tree
    unmerged,       \* files in conflict
    merging,        \* MERGE_HEAD
    pc,
    interactive,
    todo,           \* branches still to merge
    attempts,       \* session.attempts
    aborted,        \* session.aborted
    work,           \* files the user had edited at the start (history)
    failures        \* branches whose merge failed without a conflict, or whose
                    \* commit did (history)

gitVars == <<head, tips, staged, tree, unmerged, merging>>
sessionVars == <<pc, interactive, todo, attempts, aborted>>
vars == <<task, gitVars, sessionVars, work, failures>>

Fork == [has |-> {}, file |-> [f \in Files |-> "base"]]
Tip == tips[head]
Modified == {f \in Files : tree[f] # Tip.file[f]}

\* The user may be on the target or on another branch, and have edited files.
Init ==
    /\ task \in Histories
    /\ head \in {"target", "other"}
    /\ \E changed \in SUBSET Files :
         tips = [target |-> Fork, staging |-> None, backup |-> None,
                 other |-> [Fork EXCEPT !.file =
                               [f \in Files |-> IF f \in changed THEN "other" ELSE "base"]]]
    /\ staged = Tip.file
    /\ work \in SUBSET Files
    /\ tree = [f \in Files |-> IF f \in work THEN "local" ELSE Tip.file[f]]
    /\ unmerged = {} /\ merging = None
    /\ pc = "backup" /\ interactive \in BOOLEAN
    /\ todo \in Requests /\ attempts = <<>>
    /\ aborted = FALSE /\ failures = {}

---------------------------------------------------------------------------
(* The git commands.                                                       *)

Theirs(b, f) == task[b].file[f]

\* The merge bases: the last task branches that both sides contain.
Bases(b) ==
    LET common == Tip.has \intersect task[b].has IN
    {c \in common : \A d \in common : c \in task[d].has => d = c}

\* A file in the merge base, the fork if there is no branch in common.  Of
\* several bases git makes one: the version that the others do not build on.
Base(b, f) ==
    LET versions == {task[c].file[f] : c \in Bases(b)}
        last == {v \in versions : \A c \in Bases(b) :
                   task[c].file[f] = v \/ v \notin task[c].has \union {"base"}}
    IN  IF versions = {} THEN "base"
        ELSE IF \E v \in last : last = {v} THEN CHOOSE v \in last : TRUE ELSE "markers"

\* The files a merge of b brings in, and those both sides have changed.
Brought(b) == {f \in Files : Theirs(b, f) # Base(b, f) /\ Theirs(b, f) # Tip.file[f]}
Conflicts(b) == {f \in Brought(b) : Tip.file[f] # Base(b, f)}

UpToDate(b) == b \in Tip.has
\* git merge does not start over an unfinished merge or over local edits.
Refused(b) == merging # None \/ (~UpToDate(b) /\ Brought(b) \intersect Modified # {})

MergedFile(b) == [f \in Files |-> IF f \in Brought(b) THEN Theirs(b, f) ELSE Tip.file[f]]

\* A branch that contains a file the other side deleted leaves it in place.
LeftInTree(b, f) ==
    CASE Tip.file[f] = "gone" -> Theirs(b, f)
      [] Theirs(b, f) = "gone" -> Tip.file[f]
      [] OTHER -> "markers"

\* What a merge does to the index and to the files.
StartMerge(b) ==
    LET c == Conflicts(b) IN
    /\ ~Refused(b) /\ ~UpToDate(b)
    /\ staged' = [f \in Files |-> IF f \in c THEN Tip.file[f] ELSE MergedFile(b)[f]]
    /\ tree' = [f \in Files |-> IF f \in c THEN LeftInTree(b, f)
                                ELSE IF f \in Brought(b) THEN MergedFile(b)[f]
                                ELSE tree[f]]
    /\ unmerged' = c
    /\ UNCHANGED head

\* A commit on the branch checked out brings in all that b contains.
CommitMerge(b, file) ==
    tips' = [tips EXCEPT ![head] = [has |-> @.has \union task[b].has, file |-> file]]

\* git merge b --no-ff --no-edit, with exit code 0
GitMerge(b) ==
    \/ UpToDate(b) /\ ~Refused(b) /\ UNCHANGED gitVars
    \/ Conflicts(b) = {} /\ StartMerge(b) /\ CommitMerge(b, MergedFile(b)) /\ UNCHANGED merging

\* The merge stops half way, on a conflict or, without one, when a hook of the
\* repository refuses its commit.
GitMergeStops(b) == StartMerge(b) /\ merging' = b /\ UNCHANGED tips

\* Slip: the abort is a reset --hard.
HardReset ==
    /\ staged' = Tip.file /\ tree' = Tip.file
    /\ unmerged' = {} /\ merging' = None
    /\ UNCHANGED <<head, tips>>

\* git merge --abort puts back what the index changed; with no merge it fails.
MergeAbort ==
    /\ IF merging = None THEN UNCHANGED <<staged, tree, unmerged, merging>>
       ELSE /\ staged' = Tip.file
            /\ tree' = [f \in Files |-> IF f \in unmerged \/ staged[f] # Tip.file[f]
                                        THEN Tip.file[f] ELSE tree[f]]
            /\ unmerged' = {} /\ merging' = None
    /\ UNCHANGED <<head, tips>>

SideOf(side, f) == IF side = "ours" THEN Tip.file[f] ELSE Theirs(merging, f)

\* git checkout --ours . (or --theirs): nothing at all when that side has
\* deleted one of the files in conflict, otherwise every file of the tree.
CheckoutSide(side) ==
    IF \E f \in unmerged : SideOf(side, f) = "gone" THEN tree
    ELSE [f \in Files |-> IF f \in unmerged THEN SideOf(side, f) ELSE staged[f]]

---------------------------------------------------------------------------
(* merge_branches: the two branches.                                       *)

RaiseMergeError ==
    /\ pc' = "raised"
    /\ UNCHANGED <<task, gitVars, interactive, todo, attempts, aborted, work, failures>>

\* git branch <backup> copies HEAD, whatever the target is.
CreateBackup ==
    /\ pc = "backup"
    /\ tips' = [tips EXCEPT !["backup"] = Tip]
    /\ pc' = "stage"
    /\ UNCHANGED <<task, head, staged, tree, unmerged, merging, interactive, todo,
                   attempts, aborted, work, failures>>

BackupFails == pc = "backup" /\ RaiseMergeError

\* checkout carries local edits along, unless the switch changes the file.
SwitchesOver(ref) == \A f \in Modified : Tip.file[f] = tips[ref].file[f]
TreeAt(ref) == [f \in Files |-> IF f \in Modified THEN tree[f] ELSE tips[ref].file[f]]

\* git checkout -b <staging> <target>
CreateStaging ==
    /\ pc = "stage" /\ SwitchesOver("target")
    /\ tips' = [tips EXCEPT !["staging"] = tips["target"]]
    /\ head' = "staging"
    /\ staged' = tips["target"].file /\ tree' = TreeAt("target")
    /\ pc' = "next"
    /\ UNCHANGED <<task, unmerged, merging, interactive, todo, attempts, aborted,
                   work, failures>>

StagingFails == pc = "stage" /\ RaiseMergeError

---------------------------------------------------------------------------
(* _merge_single_branch.                                                   *)

Exists(b) == b \in DOMAIN task
Current == Head(todo)

Record(status, resolution) ==
    /\ attempts' = Append(attempts,
           [branch |-> Current, status |-> status, resolution |-> resolution])
    /\ todo' = Tail(todo)

SkipMissing ==
    /\ pc = "next" /\ todo # <<>> /\ ~Exists(Current)
    /\ todo' = Tail(todo)
    /\ UNCHANGED <<task, gitVars, pc, interactive, attempts, aborted, work, failures>>

MergeClean ==
    /\ pc = "next" /\ todo # <<>> /\ Exists(Current)
    /\ GitMerge(Current)
    /\ Record("success", "none")
    /\ UNCHANGED <<task, pc, interactive, aborted, work, failures>>

\* Any other outcome of git merge counts as a conflict: also a merge that did
\* not start, be it refused or, say, for a file in the way that git does not
\* track, for a history of its own or for want of a committer's name.
MergeConflicts ==
    /\ pc = "next" /\ todo # <<>> /\ Exists(Current)
    /\ \/ /\ GitMergeStops(Current)
          /\ failures' = IF Conflicts(Current) = {} THEN failures \union {Current} ELSE failures
       \/ UNCHANGED gitVars /\ failures' = failures \union {Current}
    /\ pc' = IF interactive THEN "menu" ELSE "leave"
    /\ UNCHANGED <<task, interactive, todo, attempts, aborted, work>>

LeaveConflict ==
    /\ pc = "leave"
    /\ MergeAbort
    /\ Record("conflict", "none")
    /\ pc' = "next"
    /\ UNCHANGED <<task, interactive, aborted, work, failures>>

\* Slip: what was added is not committed.
ResolveWithoutCommit(side) ==
    /\ pc = "menu"
    /\ tree' = CheckoutSide(side) /\ staged' = CheckoutSide(side)
    /\ unmerged' = {}
    /\ UNCHANGED <<head, tips, merging, failures>>
    /\ Record("success", side)
    /\ pc' = "next"
    /\ UNCHANGED <<task, interactive, aborted, work>>

\* "Keep ours", "Keep theirs": checkout, add, commit, none of them looked at.
\* A commit concludes a merge unless a hook of the repository refuses it, and
\* without a merge it has no message and fails.
Resolve(side) ==
    /\ pc = "menu"
    /\ tree' = CheckoutSide(side) /\ staged' = CheckoutSide(side)
    /\ unmerged' = {}
    /\ \/ /\ merging # None
          /\ CommitMerge(merging, CheckoutSide(side))
          /\ merging' = None
          /\ UNCHANGED failures
       \/ /\ failures' = failures \union {Current}
          /\ UNCHANGED <<tips, merging>>
    /\ UNCHANGED head
    /\ Record("success", side)
    /\ pc' = "next"
    /\ UNCHANGED <<task, interactive, aborted, work>>

Skip ==
    /\ pc = "menu"
    /\ MergeAbort
    /\ Record("skipped", "none")
    /\ pc' = "next"
    /\ UNCHANGED <<task, interactive, aborted, work, failures>>

\* Slip: the merge in progress is left to the rollback.
AbortLeavingMerge ==
    /\ pc = "menu"
    /\ UNCHANGED gitVars
    /\ Record("failed", "none")
    /\ aborted' = TRUE
    /\ pc' = "rollback"
    /\ UNCHANGED <<task, interactive, work, failures>>

AbortAll ==
    /\ pc = "menu"
    /\ MergeAbort
    /\ Record("failed", "none")
    /\ aborted' = TRUE
    /\ pc' = "rollback"
    /\ UNCHANGED <<task, interactive, work, failures>>

\* "Show diff" calls asyncio.run in a running event loop: a RuntimeError that
\* nothing catches.
ShowDiff == pc = "menu" /\ RaiseMergeError

\* Slip: the target is reset to the backup, which was taken of HEAD.
RollbackToBackup ==
    /\ pc = "rollback"
    /\ IF unmerged = {} /\ SwitchesOver("target")
       THEN /\ head' = "target"
            /\ staged' = tips["backup"].file /\ tree' = TreeAt("backup")
            /\ merging' = None
            /\ tips' = [tips EXCEPT !["staging"] = None, !["target"] = tips["backup"]]
       ELSE UNCHANGED <<head, staged, tree, merging, tips>>
    /\ pc' = "returned"
    /\ UNCHANGED <<task, unmerged, interactive, todo, attempts, aborted, work, failures>>

\* _rollback: checkout of the target, then branch -D of the staging branch,
\* which git refuses as long as it is checked out.
Rollback ==
    /\ pc = "rollback"
    /\ IF unmerged = {} /\ SwitchesOver("target")
       THEN /\ head' = "target"
            /\ staged' = tips["target"].file /\ tree' = TreeAt("target")
            /\ merging' = None
            /\ tips' = [tips EXCEPT !["staging"] = None]
       ELSE UNCHANGED <<head, staged, tree, merging, tips>>
    /\ pc' = "returned"
    /\ UNCHANGED <<task, unmerged, interactive, todo, attempts, aborted, work, failures>>

\* The verification command, if there is one, does not touch the repository.
Finish ==
    /\ pc = "next" /\ todo = <<>>
    /\ pc' = "returned"
    /\ UNCHANGED <<task, gitVars, interactive, todo, attempts, aborted, work, failures>>

Next ==
    \/ CreateBackup \/ BackupFails \/ CreateStaging \/ StagingFails
    \/ SkipMissing \/ MergeClean \/ MergeConflicts \/ LeaveConflict
    \/ Resolve("ours") \/ Resolve("theirs") \/ Skip \/ AbortAll \/ ShowDiff
    \/ Rollback \/ Finish

Spec == Init /\ [][Next]_vars

---------------------------------------------------------------------------
(* Properties.                                                             *)

Attempts == [branch: Branches, status: {"success", "conflict", "skipped", "failed"},
             resolution: {"none", "ours", "theirs"}]

\* Every variable keeps its type.
TypeOK ==
    /\ task \in Histories
    /\ head \in {"target", "other", "staging"}
    /\ tips \in [Refs -> Commit \union {None}]
    /\ staged \in [Files -> Version] /\ tree \in [Files -> Version]
    /\ unmerged \subseteq Files /\ merging \in Branches \union {None}
    /\ pc \in {"backup", "stage", "next", "leave", "menu", "rollback", "returned", "raised"}
    /\ interactive \in BOOLEAN /\ aborted \in BOOLEAN /\ failures \subseteq Branches
    /\ todo \in Seq(Branches) /\ attempts \in Seq(Attempts)
    /\ work \subseteq Files

\* The target and the branch the user came from never move, and the backup
\* not once it is made: every merge, every resolution and the rollback act on
\* the staging branch.
OnlyStagingMoves ==
    [][\A r \in {"target", "other", "backup"} :
          tips'[r] # tips[r] => r = "backup" /\ tips[r] = None]_vars

\* After an abort nothing is left of the session but the backup: the target
\* is checked out, no merge is in progress, the staging branch is gone, and
\* all that differs from the target is the user's own work.
AbortUndone ==
    aborted /\ pc = "returned" =>
        /\ head = "target" /\ tips["staging"] = None
        /\ merging = None /\ unmerged = {} /\ staged = Tip.file
        /\ \A f \in Files : tree[f] \in {Tip.file[f], "local"}

\* What the user had not committed is still there, until a conflict is
\* answered with a side to keep.
WorkSurvives ==
    (\A i \in 1..Len(attempts) : attempts[i].resolution = "none") =>
        work \subseteq {f \in Files : tree[f] = "local"}

Merged == {a.branch : a \in {x \in ToSet(attempts) : x.status = "success"}}

Contained(bs) == UNION {task[b].has : b \in bs}

\* The staging branch contains the branches counted as merged, with all that
\* they contain, and nothing else.  The only ones counted that may be missing
\* are those whose merge failed without a conflict, or whose commit failed,
\* and that were answered with a side to keep; and only such a merge is left
\* unfinished when the next one is begun.
SuccessMeansMerged ==
    pc \in {"next", "returned"} /\ ~aborted =>
        /\ merging \in failures \union {None}
        /\ Contained(Merged \ failures) \subseteq tips["staging"].has
        /\ tips["staging"].has \subseteq Contained(Merged)
=============================================================================
