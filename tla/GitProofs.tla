------------------------------- MODULE GitProofs -------------------------------
(***************************************************************************)
(* Theorems about the two components that drive git on behalf of the user: *)
(* the merge assistant, for any branches, any files, any edits and any     *)
(* list of branches asked for, and compare, for any number of models,      *)
(* however many of them share a sanitized name, and whatever earlier       *)
(* comparisons left behind.                                                *)
(***************************************************************************)
EXTENDS Merger, Compare, TLAPS

---------------------------------------------------------------------------
(* The merge assistant: its inductive invariant.                           *)

\* The merges are made on the staging branch.
Active == pc \in {"next", "leave", "menu", "rollback"}
Early == pc \in {"backup", "stage"}

\* Where the branches are: none but the staging branch is moved.
Placed ==
    /\ tips["target"] = Fork
    /\ \A f \in Files : tips["other"].file[f] \in {"base", "other"}
    /\ tips["other"] \in Commit
    /\ pc = "backup" => tips["backup"] = None
    /\ Early => head \in {"target", "other"}
    /\ Active => head = "staging" /\ tips["staging"] \in Commit
    /\ pc \in {"leave", "menu"} => todo # <<>> /\ Exists(Current)
    /\ merging # None => Exists(merging)

\* A file of the tree is as committed, or as the user edited it at the fork.
Kept(f) ==
    \/ tree[f] = Tip.file[f]
    \/ work # {} /\ tree[f] = "local" /\ Tip.file[f] = "base"

\* All that git has changed in a file, git knows, and nothing without a merge.
Known(f) == f \in unmerged \/ staged[f] # Tip.file[f] \/ Kept(f)
Settled == merging = None => unmerged = {} /\ staged = Tip.file

Accounted ==
    /\ Early =>
         /\ merging = None /\ unmerged = {} /\ staged = Tip.file
         /\ \A f \in Files : tree[f] = Tip.file[f] \/ (work # {} /\ tree[f] = "local")
    /\ Active =>
         /\ \A f \in Files : Known(f)
         /\ Settled
         /\ pc \in {"next", "rollback"} => unmerged = {}
         /\ pc = "rollback" => merging = None

\* An abort leads to a rollback, and that to what AbortUndone says.
Undoing ==
    /\ aborted => pc \in {"rollback", "returned"}
    /\ pc = "rollback" => aborted
    /\ AbortUndone

\* The user's work is not committed, not staged and not in conflict.
Unanswered == \A i \in 1..Len(attempts) : attempts[i].resolution = "none"
Untouched(f) == f \notin unmerged /\ staged[f] = Tip.file[f] /\ Tip.file[f] \in {"base", "other"}
Surviving ==
    Unanswered => \A f \in work : tree[f] = "local" /\ (Early \/ Active => Untouched(f))

\* All that a branch contains comes with it.
Closed(bs) == \A b \in bs : b \in DOMAIN task /\ task[b].has \subseteq bs

\* A merge that is not finished is that of the branch at hand, or one whose
\* commit failed and that was counted.
Counted ==
    /\ Early => attempts = <<>>
    /\ Merged \subseteq DOMAIN task
    /\ Active \/ (pc = "returned" /\ ~aborted) =>
         /\ merging # None =>
              \/ merging \in failures \intersect Merged
              \/ pc \in {"leave", "menu"} /\ merging = Current
         /\ pc \in {"leave", "menu"} /\ Current \notin failures => merging = Current
         /\ Closed(tips["staging"].has)
         /\ Contained(Merged \ failures) \subseteq tips["staging"].has
         /\ tips["staging"].has \subseteq Contained(Merged)

IInv == TypeOK /\ Placed /\ Accounted /\ Undoing /\ Surviving /\ Counted

---------------------------------------------------------------------------
(* The types, and where the branches are.                                  *)

LEMMA CommitThere == TypeOK /\ Placed /\ (Early \/ Active) => Tip \in Commit
BY DEF TypeOK, Placed, Tip, Early, Active, Fork, Commit, Version, Refs

LEMMA TaskBranch ==
    ASSUME TypeOK, NEW b \in DOMAIN task
    PROVE  /\ b \in Branches /\ b # None
           /\ task[b].file \in [Files -> Version]
           /\ b \in task[b].has /\ task[b].has \subseteq Branches /\ Closed(task[b].has)
<1>1. IsHistory(task)
  BY MergerAssumption DEF TypeOK
<1>2. /\ b \in Branches /\ b \in task[b].has /\ task[b].has \subseteq DOMAIN task
      /\ DOMAIN task \subseteq Branches
      /\ \A c \in task[b].has : task[c].has \subseteq task[b].has
      /\ task[b].file \in [Files -> Branches \union {"base", "gone"}]
  BY <1>1 DEF IsHistory
<1>3. task[b].file \in [Files -> Version]
  BY <1>2 DEF Version
<1> QED
  BY <1>2, <1>3, MergerAssumption DEF Closed

LEMMA VersionTypes ==
    ASSUME TypeOK, Tip \in Commit
    PROVE  /\ \A b \in DOMAIN task, f \in Files : Theirs(b, f) \in Version
           /\ \A b \in DOMAIN task : MergedFile(b) \in [Files -> Version]
           /\ \A b \in DOMAIN task, f \in Files : LeftInTree(b, f) \in Version
           /\ Tip.file \in [Files -> Version] /\ Tip.has \subseteq Branches
<1>1. Tip.file \in [Files -> Version] /\ Tip.has \subseteq Branches
  BY DEF Commit
<1>2. \A b \in DOMAIN task, f \in Files : Theirs(b, f) \in Version
  BY TaskBranch DEF Theirs
<1>3. \A b \in DOMAIN task, f \in Files : LeftInTree(b, f) \in Version
  BY <1>1, <1>2 DEF LeftInTree, Version
<1> QED
  BY <1>1, <1>2, <1>3 DEF MergedFile

LEMMA SideTypes ==
    ASSUME TypeOK, Placed, Accounted, pc = "menu", NEW side \in {"ours", "theirs"}
    PROVE  CheckoutSide(side) \in [Files -> Version]
<1>1. Tip \in Commit
  BY CommitThere DEF Active
<1>2. CASE unmerged = {}
  BY <1>2 DEF CheckoutSide, TypeOK
<1>3. CASE unmerged # {} /\ merging \in DOMAIN task
  BY <1>1, <1>3, VersionTypes DEF CheckoutSide, SideOf, TypeOK
<1> QED
  BY <1>2, <1>3 DEF Accounted, Settled, Active, Placed, Exists

\* What git merge does, if anything: it moves the branch checked out, or none.
Merging(b) == GitMerge(b) \/ GitMergeStops(b) \/ UNCHANGED gitVars

LEMMA MergeTypes ==
    ASSUME TypeOK, Placed, Active, NEW b \in DOMAIN task, Merging(b)
    PROVE  /\ staged' \in [Files -> Version] /\ tree' \in [Files -> Version]
           /\ unmerged' \subseteq Files /\ merging' \in {merging, b}
           /\ head' = "staging" /\ tips["staging"] \in Commit
           /\ \E c \in Commit : tips' = [tips EXCEPT !["staging"] = c]
<1>1. Tip \in Commit /\ head = "staging" /\ tips["staging"] \in Commit
  BY CommitThere DEF Placed
<1>2. tips = [tips EXCEPT !["staging"] = tips["staging"]]
  BY DEF TypeOK, Refs
<1>3. CASE UNCHANGED gitVars
  BY <1>1, <1>2, <1>3 DEF gitVars, TypeOK
<1>4. CASE StartMerge(b)
  <2>1. staged' \in [Files -> Version] /\ tree' \in [Files -> Version] /\ head' = head
    BY <1>1, <1>4, VersionTypes DEF StartMerge, TypeOK
  <2>2. unmerged' \subseteq Files
    BY <1>4 DEF StartMerge, Conflicts, Brought
  <2>3. CASE GitMergeStops(b)
    BY <1>1, <1>2, <2>1, <2>2, <2>3 DEF GitMergeStops
  <2>4. CASE CommitMerge(b, MergedFile(b)) /\ UNCHANGED merging
    <3>1. [has |-> Tip.has \union task[b].has, file |-> MergedFile(b)] \in Commit
      BY <1>1, VersionTypes, TaskBranch DEF Commit
    <3>2. \E c \in Commit : tips' = [tips EXCEPT !["staging"] = c]
      BY <1>1, <2>4, <3>1 DEF CommitMerge, Tip
    <3> QED
      BY <1>1, <2>1, <2>2, <2>4, <3>2
  <2>5. UNCHANGED gitVars \/ GitMergeStops(b) \/ (CommitMerge(b, MergedFile(b)) /\ UNCHANGED merging)
    BY DEF Merging, GitMerge
  <2> QED
    BY <1>3, <2>3, <2>4, <2>5
<1> QED
  BY <1>3, <1>4 DEF Merging, GitMerge, GitMergeStops

LEMMA AbortTypes ==
    ASSUME TypeOK, Placed, Active, MergeAbort
    PROVE  /\ staged' \in [Files -> Version] /\ tree' \in [Files -> Version]
           /\ unmerged' \subseteq Files /\ merging' = None
           /\ UNCHANGED <<head, tips>>
<1>1. Tip.file \in [Files -> Version]
  BY CommitThere, VersionTypes
<1> QED
  BY <1>1 DEF MergeAbort, TypeOK

LEMMA InitInv == Init => IInv
<1> SUFFICES ASSUME Init PROVE IInv
  OBVIOUS
<1>1. PICK changed \in SUBSET Files :
         tips = [target |-> Fork, staging |-> None, backup |-> None,
                 other |-> [Fork EXCEPT !.file =
                               [f \in Files |-> IF f \in changed THEN "other" ELSE "base"]]]
  BY DEF Init
<1>2. Fork \in Commit /\ tips["other"] \in Commit /\ tips["target"] = Fork
  BY <1>1 DEF Fork, Commit, Version
<1>3. \A f \in Files : tips["other"].file[f] \in {"base", "other"}
  BY <1>1 DEF Fork
<1>4. Tip \in Commit /\ \A f \in Files : Tip.file[f] \in {"base", "other"}
  <2>1. CASE head = "target"
    BY <1>2, <2>1 DEF Tip, Fork
  <2>2. CASE head = "other"
    BY <1>2, <1>3, <2>2 DEF Tip
  <2> QED
    BY <2>1, <2>2 DEF Init
<1>5. TypeOK
  <2>1. tips \in [Refs -> Commit \union {None}]
    BY <1>1, <1>2 DEF Refs
  <2>2. staged \in [Files -> Version] /\ tree \in [Files -> Version]
    BY <1>4 DEF Init, Commit, Version
  <2>3. todo \in Seq(Branches) /\ attempts \in Seq(Attempts)
    BY MergerAssumption DEF Init
  <2> QED
    BY <2>1, <2>2, <2>3 DEF Init, TypeOK
<1>6. Placed
  BY <1>1, <1>2, <1>3 DEF Init, Placed, Early, Active
<1>7. Accounted
  BY DEF Init, Accounted, Early, Active
<1>8. Undoing
  BY DEF Init, Undoing, AbortUndone
<1>9. Surviving
  BY <1>4 DEF Init, Surviving, Untouched
<1>10. Counted
  <2>1. Merged = {}
    BY DEF Init, Merged, ToSet
  <2> QED
    BY <2>1 DEF Init, Counted, Early, Active
<1> QED
  BY <1>5, <1>6, <1>7, <1>8, <1>9, <1>10 DEF IInv

LEMMA RecordTypes ==
    ASSUME TypeOK, todo # <<>>, NEW s \in {"success", "conflict", "skipped", "failed"},
           NEW r \in {"none", "ours", "theirs"}, Record(s, r)
    PROVE  todo' \in Seq(Branches) /\ attempts' \in Seq(Attempts)
<1>1. Current \in Branches /\ Tail(todo) \in Seq(Branches)
  BY DEF TypeOK, Current
<1>2. [branch |-> Current, status |-> s, resolution |-> r] \in Attempts
  BY <1>1 DEF Attempts
<1> QED
  BY <1>1, <1>2 DEF TypeOK, Record

LEMMA TypesInv ==
    ASSUME IInv, Next
    PROVE  TypeOK' /\ Placed'
<1> USE DEF IInv
<1>1. CASE BackupFails \/ StagingFails \/ ShowDiff \/ Finish
  BY <1>1 DEF BackupFails, StagingFails, ShowDiff, Finish, RaiseMergeError, gitVars, TypeOK,
     Placed, Exists, Early, Active
<1>2. CASE CreateBackup
  <2>1. Tip \in Commit
    BY <1>2, CommitThere DEF CreateBackup, Early
  <2> QED
    BY <1>2, <2>1 DEF CreateBackup, TypeOK, Placed, Exists, Early, Active, Refs
<1>3. CASE CreateStaging
  <2>1. Fork \in Commit /\ tips["target"] = Fork
    BY DEF Fork, Commit, Version, Placed
  <2>2. tree' \in [Files -> Version] /\ staged' \in [Files -> Version]
    BY <1>3, <2>1 DEF CreateStaging, TreeAt, TypeOK, Commit
  <2> QED
    BY <1>3, <2>1, <2>2 DEF CreateStaging, TypeOK, Placed, Exists, Early, Active, Refs
<1>4. CASE SkipMissing
  BY <1>4 DEF SkipMissing, gitVars, TypeOK, Placed, Exists, Early, Active
<1>5. CASE MergeClean \/ MergeConflicts
  <2>1. Active /\ todo # <<>> /\ Current \in DOMAIN task /\ Merging(Current) /\ Current \in Branches
    BY <1>5, TaskBranch DEF MergeClean, MergeConflicts, Active, Exists, Merging
  <2>2. PICK c \in Commit : tips' = [tips EXCEPT !["staging"] = c]
    BY <2>1, MergeTypes
  <2>3. todo' \in Seq(Branches) /\ attempts' \in Seq(Attempts)
    BY <1>5, <2>1, RecordTypes DEF MergeClean, MergeConflicts, TypeOK
  <2>4. TypeOK'
    <3>1. failures' \subseteq Branches
      BY <1>5, <2>1 DEF MergeClean, MergeConflicts, TypeOK
    <3> QED
      BY <1>5, <2>1, <2>2, <2>3, <3>1, MergeTypes DEF MergeClean, MergeConflicts, TypeOK, Refs
  <2>5. merging' # None => Exists(merging)'
    BY <1>5, <2>1, MergeTypes DEF MergeClean, MergeConflicts, Placed, Exists
  <2>6. pc' \in {"leave", "menu"} => todo' # <<>> /\ Exists(Current)'
    BY <1>5, <2>1 DEF MergeClean, MergeConflicts, Exists, Current
  <2>7. Placed'
    BY <1>5, <2>1, <2>2, <2>5, <2>6, MergeTypes
       DEF MergeClean, MergeConflicts, TypeOK, Placed, Early, Active, Refs
  <2> QED
    BY <2>4, <2>7
<1>6. CASE LeaveConflict \/ Skip \/ AbortAll
  <2>1. Active /\ todo # <<>> /\ MergeAbort
    BY <1>6 DEF LeaveConflict, Skip, AbortAll, Active, Placed
  <2>2. todo' \in Seq(Branches) /\ attempts' \in Seq(Attempts)
    BY <1>6, <2>1, RecordTypes DEF LeaveConflict, Skip, AbortAll
  <2>3. TypeOK'
    BY <1>6, <2>1, <2>2, AbortTypes DEF LeaveConflict, Skip, AbortAll, TypeOK
  <2>4. Placed'
    BY <1>6, <2>1, AbortTypes DEF LeaveConflict, Skip, AbortAll, Placed, Exists, Early, Active
  <2> QED
    BY <2>3, <2>4
<1>7. ASSUME NEW side \in {"ours", "theirs"}, Resolve(side) PROVE TypeOK' /\ Placed'
  <2>1. Active /\ todo # <<>> /\ head = "staging" /\ tips["staging"] \in Commit
    BY <1>7 DEF Resolve, Active, Placed
  <2>2. todo' \in Seq(Branches) /\ attempts' \in Seq(Attempts)
    BY <1>7, <2>1, RecordTypes DEF Resolve
  <2>3. CheckoutSide(side) \in [Files -> Version]
    BY <1>7, SideTypes DEF Resolve
  <2>4. /\ merging' \in {merging, None} /\ failures' \subseteq Branches
        /\ \E c \in Commit : tips' = [tips EXCEPT !["staging"] = c]
    <3>1. CASE UNCHANGED <<tips, merging>> /\ failures' = failures \union {Current}
      BY <2>1, <3>1 DEF TypeOK, Refs, Current
    <3>2. CASE /\ merging # None /\ merging' = None /\ failures' = failures
               /\ CommitMerge(merging, CheckoutSide(side))
      <4>1. merging \in DOMAIN task
        BY <3>2 DEF Placed, Exists
      <4>2. [has |-> tips["staging"].has \union task[merging].has, file |-> CheckoutSide(side)] \in Commit
        BY <2>1, <2>3, <4>1, TaskBranch DEF TypeOK, Commit
      <4> QED
        BY <2>1, <3>2, <4>2 DEF CommitMerge, TypeOK
    <3> QED
      BY <1>7, <3>1, <3>2 DEF Resolve
  <2>5. TypeOK'
    BY <1>7, <2>2, <2>3, <2>4 DEF Resolve, TypeOK, Refs
  <2>6. Placed'
    BY <1>7, <2>1, <2>4 DEF Resolve, TypeOK, Placed, Early, Active, Refs, Exists
  <2> QED
    BY <2>5, <2>6
<1>8. CASE Rollback
  <2>1. Fork \in Commit /\ tips["target"] = Fork
    BY DEF Fork, Commit, Version, Placed
  <2>2. tree' \in [Files -> Version] /\ staged' \in [Files -> Version]
    BY <1>8, <2>1 DEF Rollback, TreeAt, TypeOK, Commit
  <2> QED
    BY <1>8, <2>1, <2>2 DEF Rollback, TypeOK, Placed, Exists, Early, Active, Refs
<1> QED
  BY <1>1, <1>2, <1>3, <1>4, <1>5, <1>6, <1>7, <1>8 DEF Next

---------------------------------------------------------------------------
(* What the git commands do to the files.                                  *)

\* The files a merge brings in are none that the user has edited.
LEMMA MergeEffect ==
    ASSUME IInv, pc = "next", NEW b \in DOMAIN task, Merging(b), StartMerge(b)
    PROVE  /\ merging = None /\ unmerged = {} /\ staged = Tip.file
           /\ \A f \in Files : Kept(f)
           /\ \A f \in Brought(b) : tree[f] = Tip.file[f]
           /\ head = "staging" /\ head' = "staging"
           /\ \A f \in Files \ Brought(b) : /\ tree'[f] = tree[f]
                                            /\ staged'[f] = Tip.file[f]
                                            /\ Tip'.file[f] = Tip.file[f]
           /\ unmerged' = Conflicts(b) /\ Conflicts(b) \subseteq Brought(b)
<1>1. Tip \in Commit /\ head = "staging" /\ tips["staging"] \in Commit
  BY CommitThere DEF IInv, Placed, Active
<1>2. merging = None /\ unmerged = {} /\ staged = Tip.file /\ \A f \in Files : Kept(f)
  BY DEF StartMerge, Refused, IInv, Accounted, Settled, Known, Active
<1>3. \A f \in Brought(b) : tree[f] = Tip.file[f]
  BY DEF StartMerge, Refused, Brought, Modified
<1>4. Conflicts(b) \subseteq Brought(b) /\ head' = "staging" /\ unmerged' = Conflicts(b)
  BY <1>1 DEF Conflicts, StartMerge
<1>5. \A f \in Files \ Brought(b) : tree'[f] = tree[f] /\ staged'[f] = Tip.file[f]
  BY <1>4 DEF StartMerge, MergedFile
<1>6. \A f \in Files \ Brought(b) : Tip'.file[f] = Tip.file[f]
  <2>1. CASE tips' = tips
    BY <1>1, <1>4, <2>1 DEF Tip
  <2>2. CASE CommitMerge(b, MergedFile(b))
    <3>1. Tip'.file = MergedFile(b)
      BY <1>1, <1>4, <2>2 DEF CommitMerge, Tip, IInv, TypeOK, Refs
    <3> QED
      BY <3>1 DEF MergedFile
  <2> QED
    BY <2>1, <2>2 DEF Merging, GitMerge, GitMergeStops, gitVars
<1> QED
  BY <1>1, <1>2, <1>3, <1>4, <1>5, <1>6

\* With exit code 0 the staging branch contains the branch, and what that
\* contains; with any other it is where it was.
LEMMA MergeBrings ==
    ASSUME IInv, pc = "next", NEW b \in DOMAIN task, Merging(b)
    PROVE  /\ GitMerge(b) =>
                /\ merging = None /\ merging' = None /\ unmerged' = {}
                /\ tips'["staging"].has = tips["staging"].has \union task[b].has
           /\ ~GitMerge(b) => tips' = tips
<1>1. head = "staging" /\ Active /\ (merging = None => unmerged = {})
  BY DEF IInv, Placed, Accounted, Active, Settled
<1>2. CASE UpToDate(b) /\ ~Refused(b) /\ UNCHANGED gitVars
  <2>1. task[b].has \subseteq tips["staging"].has
    BY <1>1, <1>2 DEF UpToDate, Tip, IInv, Counted, Closed
  <2> QED
    BY <1>1, <1>2, <2>1 DEF GitMerge, Refused, gitVars
<1>3. CASE Conflicts(b) = {} /\ StartMerge(b) /\ CommitMerge(b, MergedFile(b)) /\ UNCHANGED merging
  <2>1. merging = None /\ unmerged' = {}
    BY <1>3, MergeEffect
  <2>2. tips'["staging"].has = tips["staging"].has \union task[b].has
    BY <1>1, <1>3 DEF CommitMerge, IInv, TypeOK, Refs
  <2> QED
    BY <1>3, <2>1, <2>2 DEF GitMerge
<1>4. CASE GitMergeStops(b) \/ UNCHANGED gitVars
  BY <1>2, <1>3, <1>4 DEF GitMerge, GitMergeStops, gitVars
<1> QED
  BY <1>2, <1>3, <1>4 DEF Merging, GitMerge

LEMMA MergeKnown ==
    ASSUME IInv, pc = "next", NEW b \in DOMAIN task, Merging(b), work' = work
    PROVE  (\A f \in Files : Known(f)') /\ Settled'
<1>1. head = "staging" /\ Active
  BY DEF IInv, Placed, Accounted, Active, Settled
<1>2. CASE UNCHANGED gitVars
  BY <1>1, <1>2 DEF gitVars, IInv, Accounted, Known, Kept, Settled, Tip
<1>3. CASE StartMerge(b) /\ ~UNCHANGED gitVars
  <2>1. merging = None /\ head = "staging" /\ head' = "staging" /\ unmerged' = Conflicts(b)
    BY <1>3, MergeEffect
  <2>2. \A f \in Brought(b) : MergedFile(b)[f] = Theirs(b, f) /\ Theirs(b, f) # Tip.file[f]
    BY DEF Brought, MergedFile
  <2>3. \A f \in Files \ Brought(b) : Kept(f)'
    BY <1>3, MergeEffect DEF Kept
  <2>4. CASE Conflicts(b) = {} /\ CommitMerge(b, MergedFile(b)) /\ UNCHANGED merging
    <3>1. Tip'.file = MergedFile(b)
      BY <2>1, <2>4 DEF CommitMerge, Tip, IInv, TypeOK, Refs
    <3>2. staged' = [f \in Files |-> MergedFile(b)[f]]
      BY <1>3, <2>4 DEF StartMerge
    <3>3. staged' = Tip'.file
      BY <3>1, <3>2 DEF MergedFile
    <3>4. \A f \in Brought(b) : tree'[f] = Tip'.file[f]
      BY <1>3, <2>4, <3>1 DEF StartMerge, Brought
    <3> QED
      BY <2>1, <2>3, <2>4, <3>3, <3>4 DEF Known, Kept, Settled
  <2>5. CASE GitMergeStops(b)
    <3>1. tips' = tips /\ merging' = b /\ Tip' = Tip
      BY <2>1, <2>5 DEF GitMergeStops, Tip
    <3>2. \A f \in Brought(b) \ Conflicts(b) : staged'[f] # Tip'.file[f]
      BY <1>3, <2>2, <3>1 DEF StartMerge, Brought
    <3>3. merging' # None
      BY <3>1, TaskBranch DEF IInv
    <3> QED
      BY <2>1, <2>3, <3>1, <3>2, <3>3 DEF Known, Settled
  <2> QED
    BY <1>3, <2>4, <2>5 DEF Merging, GitMerge
<1> QED
  BY <1>2, <1>3 DEF Merging, GitMerge, GitMergeStops

\* An abort puts back what the merge has changed, and nothing else.
LEMMA AbortKnown ==
    ASSUME IInv, Active, MergeAbort, work' = work
    PROVE  /\ merging' = None /\ unmerged' = {} /\ staged' = Tip'.file
           /\ \A f \in Files : Kept(f)'
           /\ \A f \in Files : f \notin unmerged /\ staged[f] = Tip.file[f] => tree'[f] = tree[f]
           /\ Tip' = Tip /\ head' = head /\ tips' = tips
<1>1. Tip' = Tip /\ head' = head /\ tips' = tips
  BY DEF MergeAbort, Tip
<1>2. Tip.file \in [Files -> Version] /\ tree \in [Files -> Version]
  BY CommitThere, VersionTypes DEF IInv, TypeOK
<1>3. CASE merging = None
  BY <1>1, <1>3 DEF MergeAbort, IInv, Accounted, Known, Kept, Settled
<1>4. CASE merging # None
  <2>1. \A f \in Files : tree'[f] = IF f \in unmerged \/ staged[f] # Tip.file[f]
                                    THEN Tip.file[f] ELSE tree[f]
    BY <1>4 DEF MergeAbort
  <2> QED
    BY <1>1, <1>4, <2>1 DEF MergeAbort, IInv, Accounted, Known, Kept
<1> QED
  BY <1>3, <1>4

\* After "keep ours" or "keep theirs" the index says all there is in the tree.
LEMMA ResolveKnown ==
    ASSUME IInv, NEW side \in {"ours", "theirs"}, Resolve(side)
    PROVE  /\ \A f \in Files : Known(f)'
           /\ Settled' /\ unmerged' = {}
<1>1. head' = head /\ head = "staging" /\ Active /\ staged' = tree' /\ unmerged' = {}
  BY DEF Resolve, IInv, Placed, Active
<1>2. \A f \in Files : Known(f)'
  BY <1>1 DEF Known, Kept
<1>3. CASE merging # None /\ CommitMerge(merging, CheckoutSide(side))
  <2>1. Tip'.file = CheckoutSide(side) /\ staged' = CheckoutSide(side)
    BY <1>1, <1>3 DEF CommitMerge, Resolve, Tip, IInv, TypeOK, Refs
  <2> QED
    BY <1>1, <1>2, <2>1 DEF Settled
<1>4. CASE UNCHANGED <<tips, merging>>
  <2>1. CASE merging = None
    <3>1. unmerged = {} /\ staged = Tip.file
      BY <1>1, <2>1 DEF IInv, Accounted, Settled
    <3>2. staged' = staged
      BY <3>1 DEF Resolve, CheckoutSide, IInv, TypeOK
    <3> QED
      BY <1>1, <1>2, <1>4, <3>1, <3>2 DEF Settled, Tip
  <2> QED
    BY <1>1, <1>2, <1>4, <2>1 DEF Settled
<1> QED
  BY <1>3, <1>4 DEF Resolve

---------------------------------------------------------------------------
(* What the files are, at every step.                                      *)

LEMMA AccountedInv ==
    ASSUME IInv, Next
    PROVE  Accounted'
<1>0. work' = work
  BY DEF Next, BackupFails, StagingFails, ShowDiff, Finish, RaiseMergeError, CreateBackup,
     CreateStaging, SkipMissing, MergeClean, MergeConflicts, LeaveConflict, Skip, AbortAll,
     Resolve, Rollback
<1>1. CASE BackupFails \/ StagingFails \/ ShowDiff \/ Finish \/ Rollback
  <2>1. pc' \in {"raised", "returned"}
    BY <1>1 DEF BackupFails, StagingFails, ShowDiff, Finish, RaiseMergeError, Rollback
  <2> QED
    BY <2>1 DEF Accounted, Early, Active
<1>2. CASE CreateBackup
  <2>1. Tip' = Tip
    BY <1>2 DEF CreateBackup, Tip, IInv, TypeOK, Placed, Early, Refs
  <2> QED
    BY <1>2, <2>1 DEF CreateBackup, IInv, Accounted, Early, Active
<1>3. CASE CreateStaging
  <2>1. Tip' = Fork /\ tips["target"] = Fork
    BY <1>3 DEF CreateStaging, Tip, IInv, TypeOK, Placed, Refs
  <2>2. \A f \in Modified : Tip.file[f] = "base" /\ tree[f] = "local" /\ work # {}
    BY <1>3, <2>1 DEF CreateStaging, SwitchesOver, Modified, Fork, IInv, Accounted, Early
  <2>3. \A f \in Files : tree'[f] = IF f \in Modified THEN tree[f] ELSE "base"
    BY <1>3, <2>1 DEF CreateStaging, TreeAt, Fork
  <2>4. \A f \in Files : Kept(f)'
    BY <1>0, <2>1, <2>2, <2>3 DEF Kept, Fork
  <2>5. staged' = Tip'.file /\ unmerged' = {} /\ merging' = None /\ pc' = "next"
    BY <1>3, <2>1 DEF CreateStaging, IInv, Accounted, Early
  <2> QED
    BY <2>4, <2>5 DEF Accounted, Known, Settled, Early, Active
<1>4. CASE SkipMissing
  BY <1>4 DEF SkipMissing, gitVars, IInv, Accounted, Known, Kept, Settled, Tip, Early, Active
<1>5. CASE MergeClean \/ MergeConflicts
  <2>1. pc = "next" /\ Current \in DOMAIN task /\ Merging(Current)
    BY <1>5 DEF MergeClean, MergeConflicts, Exists, Merging
  <2>2. (\A f \in Files : Known(f)') /\ Settled'
    BY <1>0, <2>1, MergeKnown
  <2>3. /\ pc' \in {"next", "menu", "leave"}
        /\ pc' = "next" => unmerged' = {}
    <3>1. CASE MergeClean
      BY <2>1, <3>1, MergeBrings DEF MergeClean
    <3>2. CASE MergeConflicts
      BY <3>2 DEF MergeConflicts
    <3> QED
      BY <1>5, <3>1, <3>2
  <2> QED
    BY <2>2, <2>3 DEF Accounted, Early, Active
<1>6. CASE LeaveConflict \/ Skip \/ AbortAll
  <2>1. Active /\ MergeAbort /\ pc' \in {"next", "rollback"}
    BY <1>6 DEF LeaveConflict, Skip, AbortAll, Active
  <2> QED
    BY <1>0, <2>1, AbortKnown DEF Accounted, Known, Settled, Early, Active
<1>7. CASE \E side \in {"ours", "theirs"} : Resolve(side)
  BY <1>7, ResolveKnown DEF Resolve, Accounted, Early, Active
<1> QED
  BY <1>1, <1>2, <1>3, <1>4, <1>5, <1>6, <1>7 DEF Next

LEMMA UndoingInv ==
    ASSUME IInv, Next
    PROVE  Undoing'
<1>1. CASE Rollback
  <2>1. /\ tips["target"] = Fork /\ unmerged = {}
        /\ \A f \in Files : Kept(f)
    BY <1>1 DEF Rollback, IInv, Placed, Accounted, Known, Settled, Active
  <2>2. \A f \in Modified : Tip.file[f] = Fork.file[f] /\ tree[f] = "local"
    BY <2>1 DEF Modified, Kept, Fork
  <2>3. SwitchesOver("target")
    BY <2>1, <2>2 DEF SwitchesOver
  <2>4. /\ head' = "target" /\ tips'["target"] = Fork /\ tips'["staging"] = None
        /\ merging' = None /\ unmerged' = {} /\ staged' = Fork.file
    BY <1>1, <2>1, <2>3 DEF Rollback, IInv, TypeOK, Refs
  <2>5. Tip' = Fork
    BY <2>4 DEF Tip
  <2>6. \A f \in Files : tree'[f] \in {Fork.file[f], "local"}
    BY <1>1, <2>1, <2>2, <2>3 DEF Rollback, TreeAt
  <2>7. pc' = "returned"
    BY <1>1 DEF Rollback
  <2> QED
    BY <2>4, <2>5, <2>6, <2>7 DEF Undoing, AbortUndone
<1>2. CASE AbortAll
  BY <1>2 DEF AbortAll, Undoing, AbortUndone
<1>3. CASE ~Rollback /\ ~AbortAll
  <2>1. aborted' = aborted /\ pc \notin {"rollback", "returned"} /\ pc' # "rollback"
    BY <1>3 DEF Next, BackupFails, StagingFails, ShowDiff, Finish, RaiseMergeError, CreateBackup,
     CreateStaging, SkipMissing, MergeClean, MergeConflicts, LeaveConflict, Skip, Resolve
  <2> QED
    BY <2>1 DEF IInv, Undoing, AbortUndone
<1> QED
  BY <1>1, <1>2, <1>3

---------------------------------------------------------------------------
(* The attempts.                                                           *)

LEMMA RecordUnanswered ==
    ASSUME TypeOK, NEW s, NEW r, Record(s, r), Unanswered'
    PROVE  Unanswered /\ r = "none"
<1>1. /\ Len(attempts') = Len(attempts) + 1 /\ Len(attempts) \in Nat
      /\ \A i \in 1..Len(attempts) : attempts'[i] = attempts[i]
      /\ attempts'[Len(attempts) + 1].resolution = r
  BY DEF Record, TypeOK
<1> QED
  BY <1>1 DEF Unanswered

LEMMA RecordMerged ==
    ASSUME TypeOK, NEW s, NEW r, Record(s, r)
    PROVE  Merged' = Merged \union (IF s = "success" THEN {Current} ELSE {})
<1> DEFINE a == [branch |-> Current, status |-> s, resolution |-> r]
<1>1. ToSet(attempts') = ToSet(attempts) \union {a}
  <2>1. /\ DOMAIN attempts = 1..Len(attempts) /\ Len(attempts) \in Nat
        /\ DOMAIN attempts' = 1..(Len(attempts) + 1)
        /\ \A i \in 1..Len(attempts) : attempts'[i] = attempts[i]
        /\ attempts'[Len(attempts) + 1] = a
    BY DEF Record, TypeOK
  <2> HIDE DEF a
  <2> QED
    BY <2>1 DEF ToSet
<1>2. a.status = s /\ a.branch = Current
  OBVIOUS
<1> HIDE DEF a
<1> QED
  BY <1>1, <1>2 DEF Merged

LEMMA SurvivingInv ==
    ASSUME IInv, Next
    PROVE  Surviving'
<1> SUFFICES ASSUME Unanswered', NEW f \in work
             PROVE  tree'[f] = "local" /\ (Early' \/ Active' => Untouched(f)')
  <2>1. work' = work
    BY DEF Next, BackupFails, StagingFails, ShowDiff, Finish, RaiseMergeError, CreateBackup,
       CreateStaging, SkipMissing, MergeClean, MergeConflicts, LeaveConflict, Skip, AbortAll,
       Resolve, Rollback
  <2> QED
    BY <2>1 DEF Surviving
<1>0. f \in Files
  BY DEF IInv, TypeOK
<1>1. ASSUME Unanswered, Early \/ Active
      PROVE  tree[f] = "local" /\ Untouched(f) /\ f \in Modified
  BY <1>0, <1>1 DEF IInv, Surviving, Untouched, Modified
<1>2. CASE BackupFails \/ StagingFails \/ ShowDiff \/ Finish
  <2>1. UNCHANGED <<attempts, tree>> /\ pc' \in {"raised", "returned"} /\ (Early \/ Active)
    BY <1>2 DEF BackupFails, StagingFails, ShowDiff, Finish, RaiseMergeError, gitVars, Early, Active
  <2> QED
    BY <1>1, <2>1 DEF Unanswered, Early, Active
<1>3. CASE CreateBackup
  <2>1. Tip' = Tip
    BY <1>3 DEF CreateBackup, Tip, IInv, TypeOK, Placed, Early, Refs
  <2> QED
    BY <1>1, <1>3, <2>1 DEF CreateBackup, Unanswered, Untouched, Early
<1>4. CASE CreateStaging
  <2>1. Tip' = Fork /\ staged' = Fork.file /\ unmerged' = {} /\ tree' = TreeAt("target")
    BY <1>4 DEF CreateStaging, Tip, IInv, TypeOK, Placed, Accounted, Early, Refs
  <2>2. Unanswered
    BY <1>4 DEF CreateStaging, Unanswered
  <2> QED
    BY <1>0, <1>1, <1>4, <2>1, <2>2 DEF CreateStaging, TreeAt, Untouched, Fork, Early
<1>5. CASE SkipMissing
  BY <1>1, <1>5 DEF SkipMissing, gitVars, Unanswered, Untouched, Tip, Early, Active
<1>6. CASE MergeClean \/ MergeConflicts
  <2>1. pc = "next" /\ Current \in DOMAIN task /\ Merging(Current) /\ Active
    BY <1>6 DEF MergeClean, MergeConflicts, Exists, Merging, Active
  <2>2. Unanswered
    BY <1>6, RecordUnanswered DEF MergeClean, MergeConflicts, Unanswered, IInv
  <2>3. CASE UNCHANGED gitVars
    BY <1>1, <2>1, <2>2, <2>3 DEF gitVars, Untouched, Tip
  <2>4. CASE StartMerge(Current)
    <3>1. f \notin Brought(Current)
      BY <1>1, <2>1, <2>2, <2>4 DEF StartMerge, Refused
    <3>2. /\ tree'[f] = tree[f] /\ staged'[f] = Tip.file[f] /\ Tip'.file[f] = Tip.file[f]
          /\ unmerged' = Conflicts(Current)
      BY <1>0, <2>1, <2>4, <3>1, MergeEffect
    <3> QED
      BY <1>1, <2>1, <2>2, <3>1, <3>2 DEF Untouched, Conflicts
  <2> QED
    BY <2>1, <2>3, <2>4 DEF Merging, GitMerge, GitMergeStops
<1>7. CASE LeaveConflict \/ Skip \/ AbortAll
  <2>1. Active /\ MergeAbort /\ work' = work
    BY <1>7 DEF LeaveConflict, Skip, AbortAll, Active
  <2>2. Unanswered
    BY <1>7, RecordUnanswered DEF LeaveConflict, Skip, AbortAll, IInv
  <2> QED
    BY <1>0, <1>1, <2>1, <2>2, AbortKnown DEF Untouched
<1>8. ASSUME NEW side \in {"ours", "theirs"}, Resolve(side) PROVE FALSE
  BY <1>8, RecordUnanswered DEF Resolve, IInv
<1>9. CASE Rollback
  <2>1. UNCHANGED attempts /\ Active /\ pc' = "returned"
    BY <1>9 DEF Rollback, Active
  <2>2. tree' \in {tree, TreeAt("target")}
    BY <1>9 DEF Rollback
  <2> QED
    BY <1>0, <1>1, <2>1, <2>2 DEF TreeAt, Unanswered, Early, Active
<1> QED
  BY <1>2, <1>3, <1>4, <1>5, <1>6, <1>7, <1>8, <1>9 DEF Next

\* One branch more is counted, and a merge brought in what branch m contains.
LEMMA CountOne ==
    ASSUME TypeOK, Counted, Active, task' = task, failures' = failures,
           NEW c \in DOMAIN task, NEW m \in DOMAIN task, Merged' = Merged \union {c},
           m \in Merged \union {c}, c \notin failures => m = c,
           tips'["staging"].has = tips["staging"].has \union task[m].has
    PROVE  /\ Merged' \subseteq DOMAIN task'
           /\ Closed(tips["staging"].has)'
           /\ Contained(Merged \ failures)' \subseteq tips'["staging"].has
           /\ tips'["staging"].has \subseteq Contained(Merged)'
<1>1. /\ Merged \subseteq DOMAIN task /\ Closed(tips["staging"].has)
      /\ Contained(Merged \ failures) \subseteq tips["staging"].has
      /\ tips["staging"].has \subseteq Contained(Merged)
  BY DEF Counted
<1>2. Closed(tips["staging"].has)'
  BY <1>1, TaskBranch DEF Closed
<1>3. /\ Contained(Merged)' = Contained(Merged) \union task[c].has
      /\ Contained(Merged \ failures)' \subseteq
           Contained(Merged \ failures) \union (IF c \in failures THEN {} ELSE task[c].has)
      /\ task[m].has \subseteq Contained(Merged)'
  BY DEF Contained
<1> QED
  BY <1>1, <1>2, <1>3

LEMMA CountedInv ==
    ASSUME IInv, Next
    PROVE  Counted'
<1>0. task' = task /\ failures \subseteq failures' /\ TypeOK
  BY DEF Next, BackupFails, StagingFails, ShowDiff, Finish, RaiseMergeError, CreateBackup,
     CreateStaging, SkipMissing, MergeClean, MergeConflicts, LeaveConflict, Skip, AbortAll,
     Resolve, Rollback, IInv
<1>1. CASE BackupFails \/ StagingFails \/ ShowDiff
  <2>1. pc' = "raised" /\ attempts' = attempts
    BY <1>1 DEF BackupFails, StagingFails, ShowDiff, RaiseMergeError
  <2> QED
    BY <1>0, <2>1 DEF IInv, Counted, Merged, Early, Active
<1>2. CASE CreateBackup
  <2>1. pc' = "stage" /\ attempts' = attempts /\ attempts = <<>>
    BY <1>2 DEF CreateBackup, IInv, Counted, Early
  <2> QED
    BY <1>0, <2>1 DEF IInv, Counted, Merged, Early, Active
<1>3. CASE CreateStaging
  <2>1. tips'["staging"] = Fork /\ attempts' = <<>> /\ merging' = None /\ pc' = "next"
    BY <1>3 DEF CreateStaging, IInv, TypeOK, Placed, Accounted, Counted, Early, Refs
  <2>2. Merged' = {}
    BY <2>1 DEF Merged, ToSet
  <2> QED
    BY <2>1, <2>2 DEF Counted, Contained, Closed, Fork, Early, Active
<1>4. CASE SkipMissing \/ Finish
  <2>1. /\ UNCHANGED <<tips, merging, attempts, failures>> /\ pc = "next" /\ pc' \in {"next", "returned"}
    BY <1>4 DEF SkipMissing, Finish, gitVars
  <2>2. Merged' = Merged /\ Contained(Merged \ failures)' = Contained(Merged \ failures)
        /\ Contained(Merged)' = Contained(Merged)
    BY <1>0, <2>1 DEF Merged, Contained
  <2> QED
    BY <1>0, <2>1, <2>2 DEF IInv, Counted, Closed, Early, Active
<1>5. CASE MergeClean
  <2>1. /\ pc = "next" /\ pc' = "next" /\ Current \in DOMAIN task /\ GitMerge(Current)
        /\ failures' = failures
    BY <1>5 DEF MergeClean, Exists
  <2>2. Merged' = Merged \union {Current}
    BY <1>5, RecordMerged DEF MergeClean, IInv
  <2>3. tips'["staging"].has = tips["staging"].has \union task[Current].has /\ merging' = None
    BY <2>1, MergeBrings DEF Merging
  <2> QED
    BY <1>0, <2>1, <2>2, <2>3, CountOne DEF IInv, Counted, Early, Active
<1>6. CASE MergeConflicts
  <2>1. /\ pc = "next" /\ pc' \in {"menu", "leave"} /\ UNCHANGED <<todo, attempts, tips>>
        /\ (merging' = merging /\ Current \in failures') \/ merging' = Current
    BY <1>6 DEF MergeConflicts, GitMergeStops, gitVars
  <2>2. Merged' = Merged /\ Current' = Current
    BY <2>1 DEF Merged, Current
  <2>3. /\ Contained(Merged \ failures)' \subseteq Contained(Merged \ failures)
        /\ Contained(Merged)' = Contained(Merged)
    BY <1>0, <2>2 DEF Contained
  <2> QED
    BY <1>0, <2>1, <2>2, <2>3 DEF IInv, Counted, Closed, Early, Active
<1>7. CASE LeaveConflict \/ Skip \/ AbortAll
  <2>1. /\ Active /\ MergeAbort /\ pc' \in {"next", "rollback"} /\ work' = work
        /\ failures' = failures
    BY <1>7 DEF LeaveConflict, Skip, AbortAll, Active
  <2>2. Merged' = Merged
    BY <1>7, RecordMerged DEF LeaveConflict, Skip, AbortAll, IInv
  <2>3. merging' = None /\ tips' = tips
    BY <2>1, AbortKnown
  <2>4. /\ Contained(Merged \ failures)' = Contained(Merged \ failures)
        /\ Contained(Merged)' = Contained(Merged)
    BY <1>0, <2>1, <2>2 DEF Contained
  <2> QED
    BY <1>0, <2>1, <2>2, <2>3, <2>4 DEF IInv, Counted, Closed, Early, Active
<1>8. ASSUME NEW side \in {"ours", "theirs"}, Resolve(side) PROVE Counted'
  <2>1. pc = "menu" /\ pc' = "next" /\ head = "staging" /\ Current \in DOMAIN task
    BY <1>8 DEF Resolve, IInv, Placed, Active, Exists
  <2>2. Merged' = Merged \union {Current}
    BY <1>8, RecordMerged DEF Resolve, IInv
  <2>3. CASE UNCHANGED <<tips, merging>> /\ failures' = failures \union {Current}
    <3>1. /\ Contained(Merged \ failures)' \subseteq Contained(Merged \ failures)
          /\ Contained(Merged) \subseteq Contained(Merged)'
      BY <1>0, <2>2, <2>3 DEF Contained
    <3> QED
      BY <1>0, <2>1, <2>2, <2>3, <3>1 DEF IInv, Counted, Closed, Early, Active
  <2>4. CASE /\ merging # None /\ merging' = None /\ failures' = failures
             /\ CommitMerge(merging, CheckoutSide(side))
    <3>1. tips'["staging"].has = tips["staging"].has \union task[merging].has
      BY <2>1, <2>4 DEF CommitMerge, IInv, TypeOK, Refs
    <3>2. merging \in Merged \union {Current} /\ (Current \notin failures => merging = Current)
      BY <2>1, <2>4 DEF IInv, Counted, Active
    <3>3. merging \in DOMAIN task
      BY <2>4 DEF IInv, Placed, Exists
    <3> QED
      BY <1>0, <2>1, <2>2, <2>4, <3>1, <3>2, <3>3, CountOne DEF IInv, Counted, Early, Active
  <2> QED
    BY <1>8, <2>3, <2>4 DEF Resolve
<1>9. CASE Rollback
  <2>1. aborted' /\ pc' = "returned" /\ attempts' = attempts
    BY <1>9 DEF Rollback, IInv, Undoing
  <2> QED
    BY <1>0, <2>1 DEF IInv, Counted, Merged, Early, Active
<1> QED
  BY <1>1, <1>2, <1>3, <1>4, <1>5, <1>6, <1>7, <1>8, <1>9 DEF Next

---------------------------------------------------------------------------
(* The theorems.                                                           *)

THEOREM MergerInvariance == Spec => []IInv
<1>1. IInv /\ [Next]_vars => IInv'
  <2> SUFFICES ASSUME IInv, [Next]_vars PROVE IInv'
    OBVIOUS
  <2>1. CASE Next
    BY <2>1, TypesInv, AccountedInv, UndoingInv, SurvivingInv, CountedInv DEF IInv
  <2>2. CASE UNCHANGED vars
    BY <2>2 DEF vars, gitVars, sessionVars, IInv, TypeOK, Placed, Accounted, Undoing, Surviving,
       Counted, Known, Kept, Settled, Untouched, Unanswered, AbortUndone, Merged, Current, Tip,
       Exists, Closed, Contained, Early, Active
  <2> QED
    BY <2>1, <2>2
<1> QED
  BY InitInv, <1>1, PTL DEF Spec

\* Every variable of the merge assistant keeps its type.
THEOREM MergerTypeCorrect == Spec => []TypeOK
<1>1. IInv => TypeOK
  BY DEF IInv
<1> QED
  BY MergerInvariance, <1>1, PTL

\* An abort always finds its way back to the target: what the user had edited
\* is as in the target there, so that the checkout cannot be refused.
THEOREM Abort == Spec => []AbortUndone
<1>1. IInv => AbortUndone
  BY DEF IInv, Undoing
<1> QED
  BY MergerInvariance, <1>1, PTL

\* No merge and no abort costs the user an edit.
THEOREM Survival == Spec => []WorkSurvives
<1>1. IInv => WorkSurvives
  BY DEF IInv, Surviving, Unanswered, WorkSurvives, TypeOK
<1> QED
  BY MergerInvariance, <1>1, PTL

\* The report of a session against what the staging branch contains
\* (_merge_single_branch, merge.py): no branch is reported as merged that is
\* not, but for those whose merge failed without a conflict or whose commit
\* did, and no commit comes from elsewhere.
THEOREM Success == Spec => []SuccessMeansMerged
<1>1. IInv => SuccessMeansMerged
  BY DEF IInv, Counted, SuccessMeansMerged, Active
<1> QED
  BY MergerInvariance, <1>1, PTL

\* Only the staging branch is ever moved.
THEOREM Stillness == Spec => OnlyStagingMoves
<1>1. ASSUME IInv, Next, NEW r \in {"target", "other", "backup"}, tips'[r] # tips[r]
      PROVE  r = "backup" /\ tips[r] = None
  <2>1. CASE CreateBackup
    BY <1>1, <2>1 DEF CreateBackup, IInv, TypeOK, Placed, Refs
  <2>2. CASE MergeClean \/ MergeConflicts
    <3>1. Active /\ Current \in DOMAIN task /\ Merging(Current)
      BY <1>1, <2>2 DEF MergeClean, MergeConflicts, Exists, Merging, Active
    <3>2. PICK c \in Commit : tips' = [tips EXCEPT !["staging"] = c]
      BY <1>1, <3>1, MergeTypes DEF IInv
    <3> QED
      BY <1>1, <3>2 DEF IInv, TypeOK, Refs
  <2>3. CASE \E side \in {"ours", "theirs"} : Resolve(side)
    BY <1>1, <2>3 DEF Resolve, CommitMerge, IInv, TypeOK, Placed, Active, Refs
  <2>4. CASE CreateStaging \/ Rollback
    BY <1>1, <2>4 DEF CreateStaging, Rollback, IInv, TypeOK, Refs
  <2>5. CASE ~(\/ CreateBackup \/ MergeClean \/ MergeConflicts \/ CreateStaging \/ Rollback
              \/ \E side \in {"ours", "theirs"} : Resolve(side))
    <3>1. UNCHANGED tips
      BY <1>1, <2>5 DEF Next, BackupFails, StagingFails, ShowDiff, Finish, RaiseMergeError, gitVars,
         SkipMissing, LeaveConflict, Skip, AbortAll, MergeAbort
    <3> QED
      BY <1>1, <3>1
  <2> QED
    BY <2>1, <2>2, <2>3, <2>4, <2>5
<1>2. IInv /\ [Next]_vars => [\A r \in {"target", "other", "backup"} :
                              tips'[r] # tips[r] => r = "backup" /\ tips[r] = None]_vars
  BY <1>1
<1> QED
  BY MergerInvariance, <1>2, PTL DEF Spec, OnlyStagingMoves

---------------------------------------------------------------------------
(* compare.                                                                *)

USE CompareAssumption

CompareTypes ==
    /\ at \in [Models -> Points]
    /\ dirs \subseteq Ids /\ worktrees \subseteq Ids /\ branches \subseteq Ids

\* A model owns its name from the set-up of its worktree to the end of its
\* removal.  The branch stands for the name meanwhile, and keeps others out.
InGrind(m) == at[m] \in {"grinding", "leaving"}
Owner(m) == at[m] \in {"grinding", "leaving", "removing", "pruning", "deleting"}

Owned ==
    /\ \A m \in Models : Owner(m) => Name[m] \in branches
    /\ \A m, n \in Models : Owner(m) /\ Owner(n) /\ Name[m] = Name[n] => m = n
    /\ \A m \in Models : InGrind(m) => Name[m] \in dirs \cap worktrees

OwnInv == CompareTypes /\ Owned

LEMMA OwnInit == CompareInit => OwnInv
BY DEF CompareInit, OwnInv, CompareTypes, Owned, Owner, InGrind, Points

\* A set-up that ends or goes on to its next look-up.
LEMMA SetupInv ==
    ASSUME OwnInv, NEW m \in Models, CheckPath(m) \/ CheckBranch(m)
    PROVE  OwnInv'
<1>1. /\ \E p \in {"checking", "adding", "ended"} : at' = [at EXCEPT ![m] = p]
      /\ UNCHANGED worktreeVars
  BY DEF CheckPath, CheckBranch, SetupFails, Step
<1>2. PICK p \in {"checking", "adding", "ended"} : at' = [at EXCEPT ![m] = p]
  BY <1>1
<1> QED
  BY <1>1, <1>2 DEF OwnInv, CompareTypes, Owned, Owner, InGrind, Points, worktreeVars

LEMMA AddInv ==
    ASSUME OwnInv, NEW m \in Models, AddWorktree(m)
    PROVE  OwnInv'
<1>1. Name[m] \in Ids
  OBVIOUS
<1>2. CASE SetupFails(m)
  <2>1. at' = [at EXCEPT ![m] = "ended"]
    BY <1>2 DEF SetupFails
  <2>2. /\ dirs' \in {dirs, dirs \cup {Name[m]}}
        /\ worktrees' \in {worktrees, worktrees \cup {Name[m]}}
        /\ branches' \in {branches, branches \cup {Name[m]}}
    <3>1. at'[m] = "ended"
      BY <2>1 DEF OwnInv, CompareTypes
    <3> QED
      BY <3>1 DEF AddWorktree, AddFails, Add, Step, worktreeVars, OwnInv, CompareTypes
  <2> QED
    BY <1>1, <2>1, <2>2 DEF OwnInv, CompareTypes, Owned, Owner, InGrind, Points
<1>3. CASE ~Taken(Name[m]) /\ Step(m, "adding", "grinding") /\ Add(Name[m])
  <2>1. at' = [at EXCEPT ![m] = "grinding"]
    BY <1>3 DEF Step
  <2>2. \A n \in Models : Owner(n) => Name[n] # Name[m]
    BY <1>3 DEF OwnInv, Owned, Taken
  <2> QED
    BY <1>1, <1>3, <2>1, <2>2 DEF OwnInv, CompareTypes, Owned, Owner, InGrind, Points, Add
<1> QED
  BY <1>2, <1>3 DEF AddWorktree

LEMMA RemovalInv ==
    ASSUME OwnInv, NEW m \in Models,
           GrindEnds(m) \/ LeaveGrind(m) \/ RemoveWorktree(m) \/ Prune(m) \/ DeleteBranch(m)
    PROVE  OwnInv'
<1>1. CASE GrindEnds(m) \/ LeaveGrind(m)
  <2>1. InGrind(m) /\ at' = [at EXCEPT ![m] = "removing"] /\ UNCHANGED worktreeVars
    BY <1>1 DEF GrindEnds, LeaveGrind, Step, AfterGrind, InGrind
  <2> QED
    BY <2>1 DEF OwnInv, CompareTypes, Owned, Owner, InGrind, Points, worktreeVars
<1>2. CASE RemoveWorktree(m)
  <2>1. /\ at[m] = "removing" /\ at' = [at EXCEPT ![m] = "pruning"] /\ branches' = branches
        /\ dirs' \in {dirs, dirs \ {Name[m]}}
        /\ worktrees' \in {worktrees, worktrees \ {Name[m]}}
    BY <1>2 DEF RemoveWorktree, Step
  <2>2. \A n \in Models : InGrind(n) => Name[n] # Name[m]
    BY <2>1 DEF OwnInv, Owned, Owner, InGrind
  <2> QED
    BY <2>1, <2>2 DEF OwnInv, CompareTypes, Owned, Owner, InGrind, Points
<1>3. CASE Prune(m)
  <2>1. /\ at[m] = "pruning" /\ at' = [at EXCEPT ![m] = "deleting"]
        /\ branches' = branches /\ dirs' = dirs /\ worktrees' = worktrees \cap dirs
    BY <1>3 DEF Prune, Step
  <2> QED
    BY <2>1 DEF OwnInv, CompareTypes, Owned, Owner, InGrind, Points
<1>4. CASE DeleteBranch(m)
  <2>1. /\ at[m] = "deleting" /\ \E p \in {"ended", "cancelled"} : at' = [at EXCEPT ![m] = p]
        /\ branches' \in {branches, branches \ {Name[m]}}
        /\ dirs' = dirs /\ worktrees' = worktrees
    BY <1>4 DEF DeleteBranch, Step
  <2>2. \A n \in Models \ {m} : Owner(n) => Name[n] # Name[m]
    BY <2>1 DEF OwnInv, Owned, Owner, InGrind
  <2> QED
    BY <2>1, <2>2 DEF OwnInv, CompareTypes, Owned, Owner, InGrind, Points
<1> QED
  BY <1>1, <1>2, <1>3, <1>4

\* Where a cancellation leaves an owner: in the grind, or on the way out.
LEMMA Cancelled ==
    ASSUME OwnInv, CancelEach
    PROVE  /\ at' \in [Models -> Points]
           /\ \A m \in Models : Owner(m)' => InGrind(m)
           /\ \A m \in Models : InGrind(m)' => at[m] = "grinding"
           /\ \A m \in Models : at[m] = "grinding" => at'[m] = "leaving"
           /\ \A m \in Models : at[m] = "leaving" => at'[m] = "removing"
           /\ \A m \in Models : at[m] \in {"ended", "cancelled"} => at'[m] = at[m]
BY DEF CancelEach, WhenCancelled, OwnInv, CompareTypes, Points, Owner, InGrind

\* A command that is cut short had its effect under the names of those that
\* ran it only, none of which is that of a grind.
LEMMA CutShort ==
    ASSUME OwnInv, CancelEach, NEW m \in Models, InGrind(m)
    PROVE  /\ Name[m] \in branches'
           /\ Name[m] \in dirs' \cap worktrees'
<1>1. PICK made \in SUBSET {i \in Named("adding") : ~Taken(i)},
           removed \in SUBSET (Named("removing") \cap worktrees),
           deleted \in SUBSET (Named("deleting") \ worktrees) :
         \E added \in SUBSET made,
            unlisted \in SUBSET (removed \cup IF Named("pruning") = {} THEN {} ELSE worktrees \ dirs) :
           /\ dirs' = (dirs \cup added) \ removed
           /\ worktrees' = (worktrees \cup added) \ unlisted
           /\ branches' = (branches \cup made) \ deleted
  BY DEF CancelEach, Interrupted
<1>2. Name[m] \in branches \cap dirs \cap worktrees
  BY DEF OwnInv, Owned, Owner, InGrind
<1>3. Name[m] \notin removed /\ Name[m] \notin deleted
  BY <1>1, <1>2 DEF Named, OwnInv, Owned, Owner, InGrind
<1> QED
  BY <1>1, <1>2, <1>3

LEMMA CancelInv == OwnInv /\ CancelEach => OwnInv'
<1> SUFFICES ASSUME OwnInv, CancelEach PROVE OwnInv'
  OBVIOUS
<1>1. CompareTypes'
  <2>1. Named("adding") \subseteq Ids
    BY DEF Named
  <2> QED
    BY <2>1, Cancelled DEF CancelEach, Interrupted, OwnInv, CompareTypes
<1>2. \A m \in Models : Owner(m)' => InGrind(m) /\ Name[m] \in branches'
  BY Cancelled, CutShort
<1>3. \A m \in Models : InGrind(m)' => Name[m] \in dirs' \cap worktrees'
  BY Cancelled, CutShort DEF InGrind
<1>4. \A m, n \in Models : Owner(m)' /\ Owner(n)' /\ Name[m] = Name[n] => m = n
  BY <1>2 DEF OwnInv, Owned, Owner, InGrind
<1> QED
  BY <1>1, <1>2, <1>3, <1>4 DEF OwnInv, Owned

THEOREM Ownership == CompareSpec => []OwnInv
<1>1. OwnInv /\ [CompareNext]_compareVars => OwnInv'
  <2> SUFFICES ASSUME OwnInv, [CompareNext]_compareVars PROVE OwnInv'
    OBVIOUS
  <2>1. CASE \E m \in Models : ModelStep(m)
    BY <2>1, SetupInv, AddInv, RemovalInv DEF ModelStep
  <2>2. CASE Return \/ UNCHANGED compareVars
    BY <2>2 DEF Return, compareVars, worktreeVars, OwnInv, CompareTypes, Owned, Owner, InGrind
  <2> QED
    BY <2>1, <2>2, CancelInv DEF CompareNext, CancelAll, CancelRest
<1> QED
  BY OwnInit, <1>1, PTL DEF CompareSpec

\* Every variable of compare keeps its type, and git has no worktree without
\* its branch: none is deleted that is checked out.
THEOREM CompareTypeCorrect == CompareSpec => []CompareTypeOK
<1>1. CompareInit => CompareTypeOK
  BY DEF CompareInit, CompareTypeOK, Points
<1>2. OwnInv /\ CompareTypeOK /\ [CompareNext]_compareVars => CompareTypeOK'
  <2> SUFFICES ASSUME OwnInv, CompareTypeOK, [CompareNext]_compareVars PROVE CompareTypeOK'
    OBVIOUS
  <2>1. ASSUME NEW m \in Models, ModelStep(m) PROVE CompareTypeOK'
    <3>1. CASE CheckPath(m) \/ CheckBranch(m)
      BY <3>1 DEF CheckPath, CheckBranch, SetupFails, Step, worktreeVars, CompareTypeOK, Points
    <3>2. CASE AddWorktree(m)
      BY <3>2 DEF AddWorktree, AddFails, Add, SetupFails, Step, worktreeVars, CompareTypeOK, Points
    <3>3. CASE GrindEnds(m) \/ LeaveGrind(m)
      BY <3>3 DEF GrindEnds, LeaveGrind, Step, AfterGrind, worktreeVars, CompareTypeOK, Points
    <3>4. CASE RemoveWorktree(m) \/ Prune(m)
      BY <3>4 DEF RemoveWorktree, Prune, Step, CompareTypeOK, Points
    <3>5. CASE DeleteBranch(m)
      <4>1. \E p \in {"ended", "cancelled"} : at' = [at EXCEPT ![m] = p]
        BY <3>5 DEF DeleteBranch, Step
      <4> QED
        BY <3>5, <4>1 DEF DeleteBranch, CompareTypeOK, Points
    <3> QED
      BY <2>1, <3>1, <3>2, <3>3, <3>4, <3>5 DEF ModelStep
  <2>2. CASE Return \/ UNCHANGED compareVars
    BY <2>2 DEF Return, compareVars, worktreeVars, CompareTypeOK
  <2>3. CASE CancelAll \/ CancelRest
    <3>1. CancelEach /\ main' \in {"cancelling", "closing"}
      BY <2>3 DEF CancelAll, CancelRest
    <3>2. \A p \in {"adding", "removing", "pruning", "deleting"} : Named(p) \subseteq Ids
      BY DEF Named
    <3>3. troubled' \subseteq Ids
      BY <3>1, <3>2 DEF CancelEach, CompareTypeOK
    <3>4. dirs' \subseteq Ids /\ worktrees' \subseteq branches' /\ branches' \subseteq Ids
      <4>1. PICK made \in SUBSET {i \in Named("adding") : ~Taken(i)},
                 removed \in SUBSET (Named("removing") \cap worktrees),
                 deleted \in SUBSET (Named("deleting") \ worktrees) :
              \E added \in SUBSET made,
                 unlisted \in SUBSET (removed \cup IF Named("pruning") = {} THEN {} ELSE worktrees \ dirs) :
                /\ dirs' = (dirs \cup added) \ removed
                /\ worktrees' = (worktrees \cup added) \ unlisted
                /\ branches' = (branches \cup made) \ deleted
        BY <3>1 DEF CancelEach, Interrupted
      <4>2. made \cap deleted = {}
        BY <4>1 DEF Named, Taken, OwnInv, Owned, Owner
      <4> QED
        BY <3>2, <4>1, <4>2 DEF CompareTypeOK
    <3> QED
      BY <3>1, <3>3, <3>4, Cancelled DEF CancelEach, CompareTypeOK
  <2> QED
    BY <2>1, <2>2, <2>3 DEF CompareNext
<1> QED
  BY Ownership, <1>1, <1>2, PTL DEF CompareSpec

\* Two models of one name never get into each other's worktree: the branch
\* that the first one made keeps the second one out until it is deleted.
THEOREM Isolation == CompareSpec => []GrindsInOwnWorktree
<1>1. OwnInv => GrindsInOwnWorktree
  BY DEF OwnInv, Owned, Owner, InGrind, GrindsInOwnWorktree
<1> QED
  BY Ownership, <1>1, PTL

---------------------------------------------------------------------------
(* What is left behind.                                                    *)

\* Under a name that nobody owns all is as it was; the owner of a name made
\* all there is under it, and takes it away piece by piece.
AsBefore(i) ==
    /\ i \in dirs <=> i \in before.dirs
    /\ i \in branches <=> i \in before.branches

Stages(m) ==
    /\ Owner(m) => Name[m] \notin before.dirs \cup before.branches
    /\ at[m] = "removing" => Name[m] \in dirs \cap worktrees
    /\ at[m] \in {"pruning", "deleting"} => Name[m] \notin dirs \cup worktrees

Free(i) == \A m \in Models : Name[m] = i => ~Owner(m)

Traced(i) ==
    \/ i \in troubled
    \/ /\ Free(i) => AsBefore(i)
       /\ \A m \in Models : Name[m] = i => Stages(m)

AllOver == main \in {"returned", "cancelled"} => Ended = Models

TraceInv ==
    /\ AllOver
    /\ before.dirs \subseteq Ids /\ before.branches \subseteq Ids
    /\ \A i \in Ids : Traced(i)

LEMMA TraceInit == CompareInit => TraceInv
BY DEF CompareInit, TraceInv, AllOver, Traced, Free, AsBefore, Stages, Owner

\* A step of a model does nothing under the names of others, ...
LEMMA OtherNames ==
    ASSUME OwnInv, NEW m \in Models, ModelStep(m), NEW i \in Ids, Traced(i), Name[m] # i
    PROVE  Traced(i)'
<1>1. /\ i \in dirs' <=> i \in dirs
      /\ i \in branches' <=> i \in branches
      /\ i \in worktrees' => i \in worktrees
      /\ i \in worktrees /\ i \in dirs => i \in worktrees'
      /\ i \in troubled' <=> i \in troubled
      /\ before' = before
  BY DEF ModelStep, CheckPath, CheckBranch, AddWorktree, GrindEnds, LeaveGrind, RemoveWorktree, Prune,
     DeleteBranch, Add, AddFails, worktreeVars
<1>2. \A n \in Models \ {m} : at'[n] = at[n]
  BY DEF ModelStep, CheckPath, CheckBranch, AddWorktree, GrindEnds, LeaveGrind, RemoveWorktree, Prune,
     DeleteBranch, SetupFails, Step, OwnInv, CompareTypes
<1>3. \A n \in Models : Name[n] = i => at'[n] = at[n]
  BY <1>2
<1>4. CASE i \in troubled
  BY <1>1, <1>4 DEF Traced
<1>5. CASE i \notin troubled
  <2>1. Free(i)' <=> Free(i)
    BY <1>3 DEF Free, Owner
  <2>2. AsBefore(i)' <=> AsBefore(i)
    BY <1>1 DEF AsBefore
  <2>3. \A n \in Models : Name[n] = i /\ Stages(n) => Stages(n)'
    BY <1>1, <1>3 DEF Stages, Owner
  <2> QED
    BY <1>5, <2>1, <2>2, <2>3 DEF Traced
<1> QED
  BY <1>4, <1>5

\* ... and under its own name what the stage of the model says.
LEMMA OwnName ==
    ASSUME OwnInv, OwnInv', NEW m \in Models, ModelStep(m), Traced(Name[m])
    PROVE  Traced(Name[m])'
<1> DEFINE i == Name[m]
<1>0. /\ DOMAIN at = Models /\ i \in Ids /\ before' = before
      /\ i \in troubled => i \in troubled'
  BY DEF OwnInv, CompareTypes, ModelStep, CheckPath, CheckBranch, AddWorktree, AddFails, GrindEnds, LeaveGrind,
     RemoveWorktree, Prune, DeleteBranch
<1>1. CASE i \in troubled'
  BY <1>1 DEF Traced
<1>2. CASE i \notin troubled'
  <2>0. i \notin troubled /\ (Free(i) => AsBefore(i)) /\ (\A n \in Models : Name[n] = i => Stages(n))
    BY <1>0, <1>2 DEF Traced
  <2>1. CASE CheckPath(m) \/ CheckBranch(m) \/ (AddWorktree(m) /\ UNCHANGED worktreeVars /\ at'[m] = "ended")
    <3>1. /\ UNCHANGED worktreeVars /\ ~Owner(m) /\ ~Owner(m)'
          /\ \A n \in Models \ {m} : at'[n] = at[n]
      BY <1>0, <2>1 DEF CheckPath, CheckBranch, AddWorktree, SetupFails, Step, Owner, worktreeVars
    <3>2. \A n \in Models : Owner(n)' <=> Owner(n)
      BY <3>1 DEF Owner
    <3>3. (Free(i)' <=> Free(i)) /\ (AsBefore(i)' <=> AsBefore(i))
      BY <1>0, <3>1, <3>2 DEF Free, AsBefore, worktreeVars
    <3>4. \A n \in Models : Name[n] = i => Stages(n)'
      BY <1>0, <2>0, <3>1, <3>2 DEF Stages, Owner, worktreeVars
    <3> QED
      BY <2>0, <3>3, <3>4 DEF Traced
  <2>2. CASE AddWorktree(m) /\ ~(UNCHANGED worktreeVars /\ at'[m] = "ended")
    <3>1. ~Taken(i) /\ at' = [at EXCEPT ![m] = "grinding"]
      BY <1>0, <1>2, <2>2 DEF AddWorktree, AddFails, SetupFails, Step
    <3>2. Free(i)
      BY <3>1 DEF OwnInv, Owned, Free, Taken
    <3>3. i \notin before.dirs \cup before.branches
      BY <2>0, <3>1, <3>2 DEF AsBefore, Taken
    <3>4. at'[m] = "grinding" /\ \A n \in Models \ {m} : at'[n] = at[n]
      BY <1>0, <3>1
    <3>5. \A n \in Models : Name[n] = i => Stages(n)'
      BY <1>0, <3>2, <3>3, <3>4 DEF Stages, Owner, Free
    <3>6. ~Free(i)'
      BY <3>4 DEF Free, Owner
    <3> QED
      BY <3>5, <3>6 DEF Traced
  <2>3. CASE GrindEnds(m) \/ LeaveGrind(m) \/ RemoveWorktree(m) \/ Prune(m)
    <3>1. /\ Owner(m) /\ Owner(m)' /\ Stages(m)
          /\ \A n \in Models \ {m} : at'[n] = at[n]
      BY <1>0, <2>0, <2>3 DEF GrindEnds, LeaveGrind, AfterGrind, RemoveWorktree, Prune, Step, Owner
    <3>2. \A n \in Models \ {m} : Name[n] = i => ~Owner(n)
      BY <3>1 DEF OwnInv, Owned
    <3>3. Stages(m)'
      <4>1. CASE GrindEnds(m) \/ LeaveGrind(m)
        <5>1. InGrind(m) /\ at'[m] = "removing" /\ UNCHANGED worktreeVars
          BY <1>0, <4>1 DEF GrindEnds, LeaveGrind, Step, AfterGrind, InGrind
        <5> QED
          BY <1>0, <3>1, <5>1 DEF Stages, Owner, OwnInv, Owned, worktreeVars
      <4>2. CASE RemoveWorktree(m)
        <5>1. /\ at[m] = "removing" /\ at'[m] = "pruning"
              /\ worktrees' = worktrees \ {i}
              /\ dirs' = IF i \in worktrees THEN dirs \ {i} ELSE dirs
          BY <1>0, <1>2, <4>2 DEF RemoveWorktree, Step
        <5> QED
          BY <1>0, <3>1, <5>1 DEF Stages, Owner
      <4>3. CASE Prune(m)
        <5>1. /\ at[m] = "pruning" /\ at'[m] = "deleting"
              /\ worktrees' = worktrees \cap dirs /\ dirs' = dirs
          BY <1>0, <4>3 DEF Prune, Step
        <5> QED
          BY <1>0, <3>1, <5>1 DEF Stages, Owner
      <4> QED
        BY <2>3, <4>1, <4>2, <4>3
    <3>4. \A n \in Models \ {m} : Name[n] = i => Stages(n)'
      BY <3>1, <3>2 DEF Stages, Owner
    <3>5. ~Free(i)'
      BY <3>1 DEF Free
    <3> QED
      BY <3>3, <3>4, <3>5 DEF Traced
  <2>4. CASE DeleteBranch(m)
    <3>1. /\ at[m] = "deleting" /\ Stages(m) /\ Owner(m)
          /\ at'[m] \in {"ended", "cancelled"} /\ \A n \in Models \ {m} : at'[n] = at[n]
          /\ dirs' = dirs /\ worktrees' = worktrees
          /\ branches' = IF i \in worktrees THEN branches ELSE branches \ {i}
      BY <1>0, <1>2, <2>0, <2>4 DEF DeleteBranch, Step, Owner
    <3>2. \A n \in Models \ {m} : Name[n] = i => ~Owner(n)
      BY <3>1 DEF OwnInv, Owned
    <3>3. AsBefore(i)'
      BY <1>0, <3>1 DEF AsBefore, Stages
    <3>4. \A n \in Models : Name[n] = i => Stages(n)'
      BY <3>1, <3>2 DEF Stages, Owner
    <3> QED
      BY <3>3, <3>4 DEF Traced
  <2> QED
    BY <2>1, <2>2, <2>3, <2>4 DEF ModelStep
<1> QED
  BY <1>1, <1>2

LEMMA ModelTrace ==
    ASSUME OwnInv, OwnInv', TraceInv, NEW m \in Models, ModelStep(m)
    PROVE  TraceInv'
<1>1. \A i \in Ids : Traced(i)'
  BY OwnName, OtherNames DEF TraceInv
<1>2. before' = before /\ main' = main /\ m \notin Ended
  BY DEF ModelStep, CheckPath, CheckBranch, AddWorktree, GrindEnds, LeaveGrind, RemoveWorktree, Prune,
     DeleteBranch, Step, Ended
<1> QED
  BY <1>1, <1>2 DEF TraceInv, AllOver

\* A name that a cancelled comparison leaves untroubled is free, or that of a
\* grind, whose worktree is being removed.
LEMMA CancelTrace == OwnInv /\ TraceInv /\ CancelEach /\ main' \in {"cancelling", "closing"} => TraceInv'
<1> SUFFICES ASSUME OwnInv, TraceInv, CancelEach, main' \in {"cancelling", "closing"} PROVE TraceInv'
  OBVIOUS
<1>1. /\ troubled' = troubled \cup UNION {Named(p) : p \in {"adding", "removing", "pruning", "deleting"}}
      /\ before' = before
  BY DEF CancelEach
<1>2. PICK made \in SUBSET {i \in Named("adding") : ~Taken(i)},
           removed \in SUBSET (Named("removing") \cap worktrees),
           deleted \in SUBSET (Named("deleting") \ worktrees) :
         \E added \in SUBSET made,
            unlisted \in SUBSET (removed \cup IF Named("pruning") = {} THEN {} ELSE worktrees \ dirs) :
           /\ dirs' = (dirs \cup added) \ removed
           /\ worktrees' = (worktrees \cup added) \ unlisted
           /\ branches' = (branches \cup made) \ deleted
  BY DEF CancelEach, Interrupted
<1>3. ASSUME NEW i \in Ids PROVE Traced(i)'
  <2>1. CASE i \in troubled'
    BY <2>1 DEF Traced
  <2>2. CASE i \notin troubled'
    <3>1. \A p \in {"adding", "removing", "pruning", "deleting"} : i \notin Named(p)
      BY <1>1, <2>2
    <3>2. i \notin made /\ i \notin removed /\ i \notin deleted
      BY <3>1
    <3>3. \A m \in Models : Name[m] = i => at[m] \notin {"removing", "pruning", "deleting"}
      BY <3>1 DEF Named
    <3>4. \A m \in Models : Name[m] = i => (Owner(m)' <=> Owner(m))
      BY <3>3, Cancelled DEF Owner, InGrind
    <3>5. /\ Free(i) => AsBefore(i)
          /\ \A m \in Models : Name[m] = i => Stages(m)
      BY <1>1, <2>2 DEF TraceInv, Traced
    <3>6. Free(i)' => AsBefore(i)'
      BY <1>1, <1>2, <3>2, <3>4, <3>5 DEF Free, AsBefore
    <3>7. ASSUME NEW m \in Models, Name[m] = i PROVE Stages(m)'
      <4>1. Owner(m)' => InGrind(m) /\ at'[m] \in {"leaving", "removing"}
        BY Cancelled DEF InGrind
      <4>2. InGrind(m) => Name[m] \in dirs' \cap worktrees' /\ Owner(m)
        BY CutShort DEF InGrind, Owner
      <4> QED
        BY <1>1, <3>5, <3>7, <4>1, <4>2 DEF Stages, Owner
    <3> QED
      BY <3>6, <3>7 DEF Traced
  <2> QED
    BY <2>1, <2>2
<1> QED
  BY <1>1, <1>3 DEF TraceInv, AllOver

\* A comparison leaves the repository as it found it, cancelled or not,
\* wherever git did what it was told and no cancellation cut a set-up or a
\* removal short (run_compare and _run_one, compare.py).
THEOREM NoTrace == CompareSpec => []LeavesNoTrace
<1>1. CompareInit => TraceInv
  BY TraceInit
<1>2. OwnInv /\ OwnInv' /\ TraceInv /\ [CompareNext]_compareVars => TraceInv'
  <2> SUFFICES ASSUME OwnInv, OwnInv', TraceInv, [CompareNext]_compareVars PROVE TraceInv'
    OBVIOUS
  <2>1. CASE \E m \in Models : ModelStep(m)
    BY <2>1, ModelTrace
  <2>2. CASE Return \/ UNCHANGED compareVars
    <3>1. /\ UNCHANGED <<at, worktreeVars, before, troubled>>
          /\ main' = main \/ Ended = Models
      BY <2>2 DEF Return, compareVars
    <3> QED
      BY <3>1 DEF worktreeVars, TraceInv, AllOver, Traced, Free, AsBefore, Stages, Owner, Ended
  <2> QED
    BY <2>1, <2>2, CancelTrace DEF CompareNext, CancelAll, CancelRest
<1>3. OwnInv /\ TraceInv => LeavesNoTrace
  <2> SUFFICES ASSUME OwnInv, TraceInv, Ended = Models
               PROVE  /\ dirs \ troubled = before.dirs \ troubled
                      /\ branches \ troubled = before.branches \ troubled
    BY DEF LeavesNoTrace, TraceInv, AllOver
  <2>1. \A m \in Models : ~Owner(m)
    BY DEF Ended, Owner
  <2>2. \A i \in Ids \ troubled : AsBefore(i)
    BY <2>1 DEF TraceInv, Traced, Free
  <2> QED
    BY <2>2 DEF AsBefore, TraceInv, OwnInv, CompareTypes
<1> QED
  BY Ownership, <1>1, <1>2, <1>3, PTL DEF CompareSpec
=============================================================================
