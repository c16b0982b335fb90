----------------------------- MODULE ReleaseGate ---------------------------
(***************************************************************************)
(* Which builds become the release of a version                            *)
(* (.github/workflows/release.yml, ci/verify-release-*.sh).  Each push of  *)
(* the tag is a run of three jobs: the gate judges the tag, the rulesets   *)
(* and the checks one after the other, the builds follow, and the release  *)
(* is looked for and then created last.  Meanwhile the tag may be pushed   *)
(* again, a ruleset switched, a check or the run itself repeated.          *)
(***************************************************************************)
EXTENDS Naturals, Sequences

CONSTANTS
  Commit,
  OnMain,          \* the commits origin/main reaches
  VersionMatches,  \* the commits whose Version is that of the tag
  Arch,
  Workflow,        \* required_workflows
  TagObjects,      \* what may be pushed as the tag
  FirstChecks,     \* what the checks may have concluded before
  None,            \* no tag, no artifact, no release
  MaxPushes,       \* bounds of the model: pushes of the tag,
  MaxReruns,       \*   repeated runs,
  MaxChanges       \*   changes of rulesets and checks

ASSUME ReleaseAssumption ==
  /\ OnMain \subseteq Commit /\ VersionMatches \subseteq Commit
  /\ TagObjects \subseteq [commit : Commit, annotated : BOOLEAN, signed : BOOLEAN]
  /\ FirstChecks \subseteq [Commit -> [Workflow -> {"none", "failure", "success"}]]
  /\ None \notin Commit \cup TagObjects
  /\ None \notin [run : Nat, commit : Commit, assets : [Arch -> Commit \cup {None}]]
  /\ {MaxPushes, MaxReruns, MaxChanges} \subseteq Nat

Rulesets == {"creation", "immutability"}

VARIABLES
  tag,       \* what the tag of the version is at origin
  rulesets,  \* the active rulesets
  checks,    \* the conclusion of the latest completed run of each workflow
  runs,      \* the runs of the workflow, in the order of the pushes
  release,   \* what is published for the version
  reruns, changes,
  passed,    \* history: the checks that ever succeeded
  loose,     \* history: the runs since whose fetch the tag could be moved
  blind      \* history: the runs whose look for a release was not answered

settings == <<tag, rulesets, checks, changes, passed>>
vars == <<settings, runs, release, reruns, loose, blind>>

NoArtifacts == [a \in Arch |-> None]

\* The steps of the last job: gh release view, gh release create, the end.
ReleaseSteps == {"release", "create", "created"}

\* A run that waits for its turn, to go on from a step.
Queued(run, step) ==
  [run EXCEPT !.status = "queued", !.step = step,
              !.verified = IF step = "fetch" THEN {} ELSE @,
              !.artifacts = IF step = "fetch" THEN NoArtifacts ELSE @]

Init ==
  /\ tag = None
  /\ rulesets \in SUBSET Rulesets
  /\ checks \in FirstChecks
  /\ runs = <<>>
  /\ release = None
  /\ reruns = 0 /\ changes = 0
  /\ passed = {check \in Commit \X Workflow : checks[check[1]][check[2]] = "success"}
  /\ loose = {} /\ blind = {}

-----------------------------------------------------------------------------
(* The settings of the repository (external: GitHub).                      *)

\* The concurrency group of the tag: one run at a time, one waiting; a newer
\* one takes the place of the one that waits.
Superseded(rs) ==
  [j \in DOMAIN rs |-> IF rs[j].status = "queued" THEN [rs[j] EXCEPT !.status = "cancelled"]
                                                  ELSE rs[j]]

\* A push creates the tag, or moves it unless that is forbidden; GITHUB_SHA is
\* its commit.
PushTag(object) ==
  /\ Len(runs) < MaxPushes
  /\ object # tag
  /\ tag # None => "immutability" \notin rulesets
  /\ tag' = object
  /\ runs' = Append(Superseded(runs),
                    [sha |-> object.commit, status |-> "queued", step |-> "fetch",
                     tag |-> None, verified |-> {}, artifacts |-> NoArtifacts])
  /\ UNCHANGED <<rulesets, checks, changes, passed, release, reruns, loose, blind>>

DeleteTag ==
  /\ tag # None /\ "immutability" \notin rulesets /\ changes < MaxChanges
  /\ tag' = None
  /\ changes' = changes + 1
  /\ UNCHANGED <<rulesets, checks, passed, runs, release, reruns, loose, blind>>

SwitchRuleset(name) ==
  /\ changes < MaxChanges
  /\ rulesets' = IF name \in rulesets THEN rulesets \ {name} ELSE rulesets \cup {name}
  /\ loose' = IF "immutability" \in rulesets' THEN loose ELSE DOMAIN runs
  /\ changes' = changes + 1
  /\ UNCHANGED <<tag, checks, passed, runs, release, reruns, blind>>

\* While a check is repeated it has no completed run.
Recheck(commit, workflow, conclusion) ==
  /\ changes < MaxChanges
  /\ checks[commit][workflow] # conclusion
  /\ checks' = [checks EXCEPT ![commit][workflow] = conclusion]
  /\ passed' = IF conclusion = "success" THEN passed \cup {<<commit, workflow>>} ELSE passed
  /\ changes' = changes + 1
  /\ UNCHANGED <<tag, rulesets, runs, release, reruns, loose, blind>>

\* Where the jobs begin that a run which ended at a step may repeat.
FirstSteps(step) ==
  {"fetch"} \cup {first \in {"build", "release"} :
                   step = first \/ (first = "release" /\ step \in ReleaseSteps)}

\* All jobs of an ended run again, or only the job that failed.
Rerun(i) ==
  /\ reruns < MaxReruns
  /\ runs[i].status \in {"failed", "published"}
  /\ \E step \in FirstSteps(runs[i].step) :
       runs' = [Superseded(runs) EXCEPT ![i] = Queued(runs[i], step)]
  /\ reruns' = reruns + 1
  /\ UNCHANGED <<settings, release, loose, blind>>

-----------------------------------------------------------------------------
(* The workflow.                                                           *)

\* Mutated form: the concurrency group is of the run, not of the tag.
StartAnytime(i) ==
  /\ runs[i].status = "queued"
  /\ runs' = [runs EXCEPT ![i].status = "running"]
  /\ UNCHANGED <<settings, release, reruns, loose, blind>>

Start(i) ==
  /\ runs[i].status = "queued"
  /\ \A j \in DOMAIN runs : runs[j].status # "running"
  /\ runs' = [runs EXCEPT ![i].status = "running"]
  /\ UNCHANGED <<settings, release, reruns, loose, blind>>

At(i, step) == runs[i].status = "running" /\ runs[i].step = step

\* A step that does not succeed, for its own reason or because the runner is
\* lost or too slow, ends the run.
FailRun(i) ==
  /\ runs[i].status = "running"
  /\ runs' = [runs EXCEPT ![i].status = "failed"]
  /\ UNCHANGED <<settings, release, reruns, loose, blind>>

\* Fetches the tag object and judges it.
FetchTag(i, acceptable) ==
  /\ At(i, "fetch")
  /\ acceptable
  /\ runs' = [runs EXCEPT ![i].tag = tag, ![i].step = "rulesets"]
  /\ loose' = IF "immutability" \in rulesets THEN loose \ {i} ELSE loose \cup {i}
  /\ UNCHANGED <<settings, release, reruns, blind>>

\* Mutated form: the tag may name another commit than the one pushed.
VerifyReleaseTagAnyCommit(i) ==
  FetchTag(i, tag # None /\ tag.annotated /\ tag.commit \in OnMain /\ tag.signed)

VerifyReleaseTag(i) ==
  FetchTag(i, /\ tag # None /\ tag.annotated
              /\ tag.commit = runs[i].sha
              /\ tag.commit \in OnMain
              /\ tag.signed)

VerifyReleaseRulesets(i) ==
  /\ At(i, "rulesets")
  /\ rulesets = Rulesets
  /\ runs' = [runs EXCEPT ![i].step = "checks"]
  /\ UNCHANGED <<settings, release, reruns, loose, blind>>

Verified(i, workflow) ==
  /\ At(i, "checks") /\ workflow \notin runs[i].verified
  /\ LET verified == runs[i].verified \cup {workflow}
     IN  runs' = [runs EXCEPT ![i].verified = verified,
                              ![i].step = IF verified = Workflow THEN "build" ELSE @]
  /\ UNCHANGED <<settings, release, reruns, loose, blind>>

\* Mutated form: the latest run on main counts, whatever commit it was for.
VerifyReleaseCheckOfMain(i, workflow) ==
  (\E c \in Commit : checks[c][workflow] = "success") /\ Verified(i, workflow)

\* One workflow after the other; none is looked at again.
VerifyReleaseCheck(i, workflow) ==
  checks[runs[i].sha][workflow] = "success" /\ Verified(i, workflow)

\* Mutated form: the release does not need every architecture.
BuildCommitForRelease(i, arch, commit) ==
  /\ At(i, "build") /\ runs[i].artifacts[arch] = None
  /\ commit \in VersionMatches
  /\ runs' = [runs EXCEPT ![i].artifacts[arch] = commit, ![i].step = "release"]
  /\ UNCHANGED <<settings, release, reruns, loose, blind>>

BuildCommit(i, arch, commit) ==
  /\ At(i, "build") /\ runs[i].artifacts[arch] = None
  /\ commit \in VersionMatches
  /\ LET artifacts == [runs[i].artifacts EXCEPT ![arch] = commit]
     IN  runs' = [runs EXCEPT ![i].artifacts = artifacts,
                              ![i].step = IF \A a \in Arch : artifacts[a] # None
                                          THEN "release" ELSE @]
  /\ UNCHANGED <<settings, release, reruns, loose, blind>>

\* Mutated form: the tag is checked out, and vcs.revision is not compared.
BuildOfTag(i, arch) == tag # None /\ BuildCommit(i, arch, tag.commit)

\* The checkout is of GITHUB_SHA, and vcs.revision has to be.
Build(i, arch) == BuildCommit(i, arch, runs[i].sha)

\* Mutated form: the job that finds a release is content with it.
AcceptExisting(i) ==
  /\ At(i, "release") /\ release # None
  /\ runs' = [runs EXCEPT ![i].status = "published"]
  /\ UNCHANGED <<settings, release, reruns, loose, blind>>

\* gh release view finds a release: exit 1.
RefuseExisting(i) ==
  /\ At(i, "release") /\ release # None
  /\ runs' = [runs EXCEPT ![i].status = "failed"]
  /\ UNCHANGED <<settings, release, reruns, loose, blind>>

\* It finds none; or it fails without an answer, which the shell's `if` takes
\* for none.
NoReleaseSeen(i, answered) ==
  /\ At(i, "release")
  /\ answered => release = None
  /\ runs' = [runs EXCEPT ![i].step = "create"]
  /\ blind' = IF answered THEN blind \ {i} ELSE blind \cup {i}
  /\ UNCHANGED <<settings, release, reruns, loose>>

\* gh release create, a request of its own.  --verify-tag only asks that there
\* is a tag; that a tag has one release is up to GitHub (external).
CreateRelease(i) ==
  /\ At(i, "create")
  /\ tag # None /\ release = None
  /\ release' = [run |-> i, commit |-> runs[i].sha, assets |-> runs[i].artifacts]
  /\ runs' = [runs EXCEPT ![i].step = "created"]
  /\ UNCHANGED <<settings, reruns, loose, blind>>

Succeed(i) ==
  /\ At(i, "created")
  /\ runs' = [runs EXCEPT ![i].status = "published"]
  /\ UNCHANGED <<settings, release, reruns, loose, blind>>

WorkflowStep(i) ==
  \/ Start(i) \/ FailRun(i)
  \/ VerifyReleaseTag(i) \/ VerifyReleaseRulesets(i)
  \/ \E w \in Workflow : VerifyReleaseCheck(i, w)
  \/ \E a \in Arch : Build(i, a)
  \/ RefuseExisting(i)
  \/ \E answered \in BOOLEAN : NoReleaseSeen(i, answered)
  \/ CreateRelease(i) \/ Succeed(i)

Next ==
  \/ \E i \in DOMAIN runs : WorkflowStep(i) \/ Rerun(i)
  \/ \E object \in TagObjects : PushTag(object)
  \/ DeleteTag
  \/ \E name \in Rulesets : SwitchRuleset(name)
  \/ \E c \in Commit, w \in Workflow, conclusion \in {"none", "failure", "success"} :
       Recheck(c, w, conclusion)

\* Nothing has to happen: a runner may be lost, a push may never come.
Spec == Init /\ [][Next]_vars

-----------------------------------------------------------------------------
(* Properties.                                                             *)

\* One type invariant for the module: a run is never past what it has verified
\* and built, re-runs of its last jobs included.
TypeOK ==
  /\ tag \in TagObjects \cup {None}
  /\ rulesets \subseteq Rulesets
  /\ loose \cup blind \subseteq DOMAIN runs
  /\ \A i \in DOMAIN runs :
       LET r == runs[i]
       IN  /\ r.status \in {"queued", "running", "failed", "cancelled", "published"}
           /\ r.step \in {"fetch", "rulesets", "checks", "build"} \cup ReleaseSteps
           /\ r.step # "fetch" => r.tag # None
           /\ r.step \in {"build"} \cup ReleaseSteps => r.verified = Workflow
           /\ r.step \in ReleaseSteps => \A a \in Arch : r.artifacts[a] # None

\* "It rejects lightweight, unsigned, invalidly signed, off-main,
\* version-mismatched, or unchecked tags" (docs/releases.md:37-38): all
\* published files are of one commit, that commit was judged under a signed
\* tag that named it, and each required check succeeded on it.
PublishedIsGated ==
  release # None =>
    /\ \A a \in Arch : release.assets[a] = release.commit
    /\ release.commit \in OnMain \cap VersionMatches
    /\ LET judged == runs[release.run].tag
       IN  judged.commit = release.commit /\ judged.annotated /\ judged.signed
    /\ \A w \in Workflow : <<release.commit, w>> \in passed

\* The tag of the version goes on naming the published commit if the
\* immutability ruleset was in force since the gate fetched the tag.
TagNamesTheRelease ==
  (release # None /\ release.run \notin loose) =>
    tag # None /\ tag.commit = release.commit /\ tag.signed

\* "It refuses to replace an existing release" (docs/releases.md:64), and does
\* not take one of somebody else for its own: a run that succeeded, the first
\* time or repeated, has created the release, of the files it built.
SuccessIsPublished ==
  \A i \in DOMAIN runs : runs[i].status = "published" =>
    /\ release # None /\ release.run = i
    /\ release.commit = runs[i].sha /\ release.assets = runs[i].artifacts

\* Looking and creating are two requests (release.yml:191-198): what gh release
\* view answered still holds when gh release create asks, since no other run of
\* the tag is under way, whether pushed or repeated meanwhile.
AbsenceStillHolds ==
  \A i \in DOMAIN runs \ blind : At(i, "create") => release = None
=============================================================================
