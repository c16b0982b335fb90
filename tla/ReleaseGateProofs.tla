------------------------- MODULE ReleaseGateProofs -------------------------
(***************************************************************************)
(* Proofs about ReleaseGate, for every set of commits, tags, workflows and *)
(* architectures, and any number of pushes, repeated runs and changes of   *)
(* the settings.                                                           *)
(***************************************************************************)
EXTENDS ReleaseGate, TLAPS

-----------------------------------------------------------------------------
(* Why a release is gated: what each run has established.                  *)

Statuses == {"queued", "running", "failed", "cancelled", "published"}

RunSteps == {"fetch", "rulesets", "checks", "build"} \cup ReleaseSteps

Conclusions == {"none", "failure", "success"}

Run == [sha : Commit, status : Statuses, step : RunSteps, tag : TagObjects \cup {None},
        verified : SUBSET Workflow, artifacts : [Arch -> Commit \cup {None}]]

SettingsInv ==
  /\ tag \in TagObjects \cup {None}
  /\ rulesets \subseteq Rulesets
  /\ checks \in [Commit -> [Workflow -> Conclusions]]
  /\ \A c \in Commit, w \in Workflow : checks[c][w] = "success" => <<c, w>> \in passed

\* A tag that names the commit it was pushed for and passes the gate.
Judged(object, sha) ==
  /\ object \in TagObjects
  /\ object.annotated /\ object.signed
  /\ object.commit = sha /\ sha \in OnMain

\* What a run has judged, verified and built is of its own commit, and it is
\* at a step only after the steps before it.
GatedRun(r) ==
  /\ r.tag # None => Judged(r.tag, r.sha)
  /\ r.step # "fetch" => r.tag # None
  /\ \A w \in r.verified : <<r.sha, w>> \in passed
  /\ r.step \in {"build"} \cup ReleaseSteps => r.verified = Workflow
  /\ \A a \in Arch : r.artifacts[a] \in {None, r.sha}
  /\ r.step \in ReleaseSteps => r.sha \in VersionMatches /\ \A a \in Arch : r.artifacts[a] # None

RunsInv ==
  /\ runs \in Seq(Run)
  /\ \A i \in DOMAIN runs : GatedRun(runs[i])

\* A release is what its run had when it was at the last step; its run may have
\* been repeated since.
ReleaseInv ==
  release # None =>
    /\ release.run \in DOMAIN runs
    /\ runs[release.run].tag # None
    /\ runs[release.run].sha = release.commit
    /\ release.commit \in VersionMatches
    /\ \A a \in Arch : release.assets[a] = release.commit
    /\ \A w \in Workflow : <<release.commit, w>> \in passed

\* The tag stays what a run fetched while it can neither be moved nor deleted.
TagInv ==
  /\ loose \subseteq DOMAIN runs
  /\ \A i \in DOMAIN runs \ loose :
       runs[i].tag # None => "immutability" \in rulesets /\ tag = runs[i].tag

IInv == SettingsInv /\ RunsInv /\ ReleaseInv /\ TagInv

-----------------------------------------------------------------------------
(* Steps of the runs.                                                      *)

\* A step that leaves the commit and the tag of every run alone preserves the
\* invariant if each run is still past what it has established.
LEMMA RunsStep ==
  ASSUME IInv, UNCHANGED <<settings, release, loose>>,
         runs' \in Seq(Run), DOMAIN runs' = DOMAIN runs,
         \A j \in DOMAIN runs : /\ runs'[j].sha = runs[j].sha
                                /\ runs'[j].tag = runs[j].tag
                                /\ GatedRun(runs'[j])
  PROVE  IInv'
<1>1. SettingsInv'
  BY DEF IInv, SettingsInv, settings
<1>2. RunsInv'
  BY DEF RunsInv, GatedRun, Judged, settings
<1>3. ReleaseInv'
  BY DEF IInv, ReleaseInv, settings
<1>4. TagInv'
  BY DEF IInv, TagInv, settings
<1> QED
  BY <1>1, <1>2, <1>3, <1>4 DEF IInv

\* The same for a step of one run.
LEMMA OneRunStep ==
  ASSUME IInv, UNCHANGED <<settings, release, loose>>,
         NEW i \in DOMAIN runs, NEW r \in Run,
         runs' = [runs EXCEPT ![i] = r],
         r.sha = runs[i].sha, r.tag = runs[i].tag, GatedRun(r)
  PROVE  IInv'
<1>1. runs \in Seq(Run) /\ \A j \in DOMAIN runs : GatedRun(runs[j])
  BY DEF IInv, RunsInv
<1>2. runs' \in Seq(Run) /\ DOMAIN runs' = DOMAIN runs
  BY <1>1
<1>3. \A j \in DOMAIN runs : runs'[j] = IF j = i THEN r ELSE runs[j]
  BY <1>1
<1> QED
  BY <1>1, <1>2, <1>3, RunsStep

\* A newer push or a repeated run only changes the status of a waiting one.
LEMMA SupersededRuns ==
  ASSUME runs \in Seq(Run), \A j \in DOMAIN runs : GatedRun(runs[j])
  PROVE  /\ Superseded(runs) \in Seq(Run)
         /\ DOMAIN Superseded(runs) = DOMAIN runs
         /\ \A j \in DOMAIN runs : /\ Superseded(runs)[j].sha = runs[j].sha
                                   /\ Superseded(runs)[j].tag = runs[j].tag
                                   /\ GatedRun(Superseded(runs)[j])
<1>1. \A j \in DOMAIN runs : /\ Superseded(runs)[j] \in Run
                             /\ Superseded(runs)[j].sha = runs[j].sha
                             /\ Superseded(runs)[j].tag = runs[j].tag
                             /\ GatedRun(Superseded(runs)[j])
  <2> SUFFICES ASSUME NEW j \in DOMAIN runs
               PROVE  /\ Superseded(runs)[j] \in Run
                      /\ Superseded(runs)[j].sha = runs[j].sha
                      /\ Superseded(runs)[j].tag = runs[j].tag
                      /\ GatedRun(Superseded(runs)[j])
    OBVIOUS
  <2> DEFINE cancelled == [runs[j] EXCEPT !.status = "cancelled"]
  <2>1. runs[j] \in Run /\ GatedRun(runs[j])
    OBVIOUS
  <2>2. cancelled \in Run /\ cancelled.sha = runs[j].sha /\ cancelled.tag = runs[j].tag
    BY <2>1 DEF Run, Statuses
  <2>3. GatedRun(cancelled)
    BY <2>1 DEF GatedRun, Run
  <2>4. Superseded(runs)[j] \in {runs[j], cancelled}
    BY DEF Superseded
  <2> QED
    BY <2>1, <2>2, <2>3, <2>4
<1>2. DOMAIN Superseded(runs) = DOMAIN runs
  BY DEF Superseded
<1>3. Superseded(runs) \in Seq(Run)
  <2>1. Superseded(runs) \in [1 .. Len(runs) -> Run]
    BY <1>1 DEF Superseded
  <2> QED
    BY <2>1
<1> QED
  BY <1>1, <1>2, <1>3

\* A run that goes back to a step it has reached, or to the first one.
LEMMA QueuedRun ==
  ASSUME NEW r \in Run, GatedRun(r),
         NEW step \in FirstSteps(r.step)
  PROVE  /\ Queued(r, step) \in Run
         /\ Queued(r, step).sha = r.sha
         /\ Queued(r, step).tag = r.tag
         /\ GatedRun(Queued(r, step))
<1>1. CASE step = "fetch"
  BY <1>1 DEF Queued, Run, Statuses, RunSteps, ReleaseSteps, GatedRun, NoArtifacts
<1>2. CASE step # "fetch"
  BY <1>2 DEF Queued, Run, Statuses, RunSteps, ReleaseSteps, FirstSteps, GatedRun
<1> QED
  BY <1>1, <1>2

-----------------------------------------------------------------------------
(* The invariant is inductive.                                             *)

LEMMA InitIInv == Init => IInv
<1> SUFFICES ASSUME Init
             PROVE  IInv
  OBVIOUS
<1>1. SettingsInv
  BY ReleaseAssumption DEF Init, SettingsInv, Conclusions
<1>2. RunsInv /\ ReleaseInv /\ TagInv
  BY DEF Init, RunsInv, ReleaseInv, TagInv
<1> QED
  BY <1>1, <1>2 DEF IInv

LEMMA PushIInv ==
  ASSUME IInv, NEW object \in TagObjects, PushTag(object)
  PROVE  IInv'
<1> DEFINE new == [sha |-> object.commit, status |-> "queued", step |-> "fetch",
                   tag |-> None, verified |-> {}, artifacts |-> NoArtifacts]
<1>1. runs \in Seq(Run) /\ \A j \in DOMAIN runs : GatedRun(runs[j])
  BY DEF IInv, RunsInv
<1>2. new \in Run /\ GatedRun(new)
  BY ReleaseAssumption DEF Run, Statuses, RunSteps, ReleaseSteps, GatedRun, NoArtifacts
<1>3. /\ Superseded(runs) \in Seq(Run)
      /\ DOMAIN Superseded(runs) = DOMAIN runs
      /\ \A j \in DOMAIN runs : /\ Superseded(runs)[j].sha = runs[j].sha
                                /\ Superseded(runs)[j].tag = runs[j].tag
                                /\ GatedRun(Superseded(runs)[j])
  BY <1>1, SupersededRuns
<1>4. /\ runs' \in Seq(Run)
      /\ DOMAIN runs' = DOMAIN runs \cup {Len(runs) + 1}
      /\ runs'[Len(runs) + 1] = new
      /\ \A j \in DOMAIN runs : runs'[j] = Superseded(runs)[j]
  <2> HIDE DEF new
  <2>1. runs' = Append(Superseded(runs), new) /\ Len(Superseded(runs)) = Len(runs)
    BY <1>1, <1>3 DEF PushTag, new
  <2> QED
    BY <2>1, <1>1, <1>2, <1>3
<1>5. SettingsInv'
  BY DEF PushTag, IInv, SettingsInv
<1>6. RunsInv'
  <2>1. \A j \in DOMAIN runs' : GatedRun(runs'[j])
    BY <1>2, <1>3, <1>4
  <2> QED
    BY <1>4, <2>1 DEF RunsInv, GatedRun, Judged, PushTag
<1>7. ReleaseInv'
  BY <1>3, <1>4 DEF PushTag, IInv, ReleaseInv
\* A tag that some run relies on cannot be moved.
<1>8. TagInv'
  <2>1. ASSUME NEW j \in DOMAIN runs' \ loose', runs'[j].tag # None
        PROVE  FALSE
    <3>1. j # Len(runs) + 1
      BY <1>4, <2>1
    <3>2. j \in DOMAIN runs \ loose /\ runs[j].tag # None
      BY <1>3, <1>4, <2>1, <3>1 DEF PushTag
    <3>3. "immutability" \in rulesets /\ tag = runs[j].tag
      BY <3>2 DEF IInv, TagInv
    <3> QED
      BY <3>2, <3>3 DEF PushTag
  <2> QED
    BY <1>4, <2>1 DEF TagInv, IInv, PushTag
<1> QED
  BY <1>5, <1>6, <1>7, <1>8 DEF IInv

LEMMA SettingsIInv ==
  ASSUME IInv,
         \/ DeleteTag
         \/ \E name \in Rulesets : SwitchRuleset(name)
         \/ \E c \in Commit, w \in Workflow, conclusion \in Conclusions : Recheck(c, w, conclusion)
  PROVE  IInv'
<1>0. SettingsInv /\ RunsInv /\ ReleaseInv /\ TagInv
  BY DEF IInv
<1>1. CASE DeleteTag
  BY <1>0, <1>1
  DEF DeleteTag, IInv, SettingsInv, RunsInv, GatedRun, Judged, ReleaseInv, TagInv
<1>2. ASSUME NEW name \in Rulesets, SwitchRuleset(name)
      PROVE  IInv'
  BY <1>0, <1>2
  DEF SwitchRuleset, IInv, SettingsInv, RunsInv, GatedRun, Judged, ReleaseInv, TagInv, Rulesets
\* What was checked stays on record, whatever is concluded later.
<1>3. ASSUME NEW c \in Commit, NEW w \in Workflow, NEW conclusion \in Conclusions,
             Recheck(c, w, conclusion)
      PROVE  IInv'
  <2>1. passed \subseteq passed'
    BY <1>3 DEF Recheck
  <2>2. SettingsInv'
    BY <1>0, <1>3 DEF Recheck, SettingsInv, Conclusions
  <2>3. RunsInv'
    BY <1>0, <1>3, <2>1 DEF Recheck, RunsInv, GatedRun, Judged
  <2>4. ReleaseInv' /\ TagInv'
    BY <1>0, <1>3, <2>1 DEF Recheck, ReleaseInv, TagInv
  <2> QED
    BY <2>2, <2>3, <2>4 DEF IInv
<1> QED
  BY <1>1, <1>2, <1>3

LEMMA FetchIInv ==
  ASSUME IInv, NEW i \in DOMAIN runs, VerifyReleaseTag(i)
  PROVE  IInv'
<1> DEFINE judged == [runs[i] EXCEPT !.tag = tag, !.step = "rulesets"]
<1>0. SettingsInv /\ RunsInv /\ ReleaseInv /\ TagInv
  BY DEF IInv
<1>1. runs[i] \in Run /\ GatedRun(runs[i]) /\ tag \in TagObjects /\ tag # None
  BY <1>0, ReleaseAssumption DEF RunsInv, SettingsInv, VerifyReleaseTag, FetchTag
<1>2. Judged(tag, runs[i].sha)
  BY <1>1 DEF VerifyReleaseTag, FetchTag, Judged
<1>3. /\ judged \in Run /\ GatedRun(judged)
      /\ judged.sha = runs[i].sha /\ judged.tag = tag
  BY <1>1, <1>2 DEF Run, RunSteps, ReleaseSteps, GatedRun, VerifyReleaseTag, FetchTag, At
<1>4. runs' = [runs EXCEPT ![i] = judged]
  BY <1>0 DEF VerifyReleaseTag, FetchTag, RunsInv
<1> HIDE DEF judged
<1>5. /\ runs' \in Seq(Run) /\ DOMAIN runs' = DOMAIN runs
      /\ \A j \in DOMAIN runs : runs'[j] = IF j = i THEN judged ELSE runs[j]
  BY <1>0, <1>3, <1>4 DEF RunsInv
<1>6. SettingsInv' /\ RunsInv'
  <2>1. \A j \in DOMAIN runs : GatedRun(runs'[j])
    BY <1>0, <1>3, <1>5 DEF RunsInv
  <2> QED
    BY <1>0, <1>5, <2>1
    DEF VerifyReleaseTag, FetchTag, settings, SettingsInv, RunsInv, GatedRun, Judged
<1>7. ReleaseInv'
  BY <1>0, <1>1, <1>3, <1>5 DEF VerifyReleaseTag, FetchTag, settings, ReleaseInv
<1>8. TagInv'
  BY <1>0, <1>3, <1>5 DEF VerifyReleaseTag, FetchTag, settings, TagInv
<1> QED
  BY <1>6, <1>7, <1>8 DEF IInv

LEMMA CreateIInv ==
  ASSUME IInv, NEW i \in DOMAIN runs, CreateRelease(i)
  PROVE  IInv'
<1> DEFINE created == [runs[i] EXCEPT !.step = "created"]
<1>0. SettingsInv /\ RunsInv /\ ReleaseInv /\ TagInv
  BY DEF IInv
<1>1. runs[i] \in Run /\ GatedRun(runs[i]) /\ runs[i].step \in ReleaseSteps
  BY <1>0 DEF RunsInv, CreateRelease, At, ReleaseSteps
<1>2. /\ created \in Run /\ GatedRun(created)
      /\ created.sha = runs[i].sha /\ created.tag = runs[i].tag
  BY <1>1 DEF Run, RunSteps, ReleaseSteps, GatedRun
<1>3. runs' = [runs EXCEPT ![i] = created]
  BY <1>0 DEF CreateRelease, RunsInv
<1> HIDE DEF created
<1>4. /\ runs' \in Seq(Run) /\ DOMAIN runs' = DOMAIN runs
      /\ \A j \in DOMAIN runs : runs'[j] = IF j = i THEN created ELSE runs[j]
  BY <1>0, <1>2, <1>3 DEF RunsInv
<1>5. SettingsInv' /\ RunsInv'
  <2>1. \A j \in DOMAIN runs : GatedRun(runs'[j])
    BY <1>0, <1>2, <1>4 DEF RunsInv
  <2> QED
    BY <1>0, <1>4, <2>1 DEF CreateRelease, settings, SettingsInv, RunsInv, GatedRun, Judged
<1>6. ReleaseInv'
  BY <1>1, <1>2, <1>4 DEF CreateRelease, settings, ReleaseInv, GatedRun, Run
<1>7. TagInv'
  BY <1>0, <1>2, <1>4 DEF CreateRelease, settings, TagInv
<1> QED
  BY <1>5, <1>6, <1>7 DEF IInv

LEMMA NextIInv == IInv /\ [Next]_vars => IInv'
<1> SUFFICES ASSUME IInv, [Next]_vars
             PROVE  IInv'
  OBVIOUS
<1>0. runs \in Seq(Run) /\ \A j \in DOMAIN runs : GatedRun(runs[j])
  BY DEF IInv, RunsInv
<1>1. ASSUME NEW i \in DOMAIN runs, Rerun(i)
      PROVE  IInv'
  <2>1. PICK step \in FirstSteps(runs[i].step) :
          runs' = [Superseded(runs) EXCEPT ![i] = Queued(runs[i], step)]
    BY <1>1 DEF Rerun
  <2>2. /\ Queued(runs[i], step) \in Run
        /\ Queued(runs[i], step).sha = runs[i].sha
        /\ Queued(runs[i], step).tag = runs[i].tag
        /\ GatedRun(Queued(runs[i], step))
    BY <1>0, QueuedRun
  <2>3. /\ runs' \in Seq(Run) /\ DOMAIN runs' = DOMAIN runs
        /\ \A j \in DOMAIN runs : /\ runs'[j].sha = runs[j].sha
                                  /\ runs'[j].tag = runs[j].tag
                                  /\ GatedRun(runs'[j])
    BY <1>0, <2>1, <2>2, SupersededRuns
  <2> QED
    BY <1>1, <2>3, RunsStep DEF Rerun
<1>2. ASSUME NEW i \in DOMAIN runs, WorkflowStep(i)
      PROVE  IInv'
  <2>0. runs[i] \in Run /\ GatedRun(runs[i])
    BY <1>0
  <2>1. CASE Start(i)
    <3> DEFINE r == [runs[i] EXCEPT !.status = "running"]
    <3>1. r \in Run /\ r.sha = runs[i].sha /\ r.tag = runs[i].tag /\ GatedRun(r)
      BY <2>0 DEF Run, Statuses, GatedRun
    <3>2. runs' = [runs EXCEPT ![i] = r] /\ UNCHANGED <<settings, release, loose>>
      BY <2>1, <1>0 DEF Start
    <3> QED
      BY <3>1, <3>2, OneRunStep
  <2>2. CASE FailRun(i)
    <3> DEFINE r == [runs[i] EXCEPT !.status = "failed"]
    <3>1. r \in Run /\ r.sha = runs[i].sha /\ r.tag = runs[i].tag /\ GatedRun(r)
      BY <2>0 DEF Run, Statuses, GatedRun
    <3>2. runs' = [runs EXCEPT ![i] = r] /\ UNCHANGED <<settings, release, loose>>
      BY <2>2, <1>0 DEF FailRun
    <3> QED
      BY <3>1, <3>2, OneRunStep
  <2>3. CASE VerifyReleaseTag(i)
    BY <2>3, FetchIInv
  <2>4. CASE VerifyReleaseRulesets(i)
    <3> DEFINE r == [runs[i] EXCEPT !.step = "checks"]
    <3>1. r \in Run /\ r.sha = runs[i].sha /\ r.tag = runs[i].tag /\ GatedRun(r)
      BY <2>0, <2>4 DEF VerifyReleaseRulesets, At, Run, RunSteps, ReleaseSteps, GatedRun
    <3>2. runs' = [runs EXCEPT ![i] = r] /\ UNCHANGED <<settings, release, loose>>
      BY <2>4, <1>0 DEF VerifyReleaseRulesets
    <3> QED
      BY <3>1, <3>2, OneRunStep
  <2>5. ASSUME NEW w \in Workflow, VerifyReleaseCheck(i, w)
        PROVE  IInv'
    <3> DEFINE verified == runs[i].verified \cup {w}
               r == [runs[i] EXCEPT !.verified = verified,
                                    !.step = IF verified = Workflow THEN "build" ELSE @]
    <3>1. <<runs[i].sha, w>> \in passed
      BY <2>0, <2>5 DEF VerifyReleaseCheck, IInv, SettingsInv, Run
    <3>2. r \in Run /\ r.sha = runs[i].sha /\ r.tag = runs[i].tag /\ GatedRun(r)
      BY <2>0, <2>5, <3>1
      DEF VerifyReleaseCheck, Verified, At, Run, RunSteps, ReleaseSteps, GatedRun
    <3>3. runs' = [runs EXCEPT ![i] = r] /\ UNCHANGED <<settings, release, loose>>
      BY <2>5, <1>0 DEF VerifyReleaseCheck, Verified
    <3> QED
      BY <3>2, <3>3, OneRunStep
  <2>6. ASSUME NEW a \in Arch, Build(i, a)
        PROVE  IInv'
    <3> DEFINE artifacts == [runs[i].artifacts EXCEPT ![a] = runs[i].sha]
               r == [runs[i] EXCEPT !.artifacts = artifacts,
                                    !.step = IF \A b \in Arch : artifacts[b] # None
                                             THEN "release" ELSE @]
    <3>1. runs[i].sha \in VersionMatches /\ runs[i].step = "build"
      BY <2>6 DEF Build, BuildCommit, At
    <3>2. /\ artifacts \in [Arch -> Commit \cup {None}]
          /\ \A b \in Arch : artifacts[b] \in {None, runs[i].sha}
      BY <2>0 DEF Run, GatedRun
    <3>3. r \in Run /\ r.sha = runs[i].sha /\ r.tag = runs[i].tag /\ GatedRun(r)
      <4> HIDE DEF artifacts
      <4> QED
        BY <2>0, <3>1, <3>2 DEF Run, RunSteps, ReleaseSteps, GatedRun
    <3>4. runs' = [runs EXCEPT ![i] = r] /\ UNCHANGED <<settings, release, loose>>
      BY <2>6, <1>0 DEF Build, BuildCommit
    <3> QED
      BY <3>3, <3>4, OneRunStep
  <2>7. CASE RefuseExisting(i) \/ Succeed(i)
    <3> PICK status \in {"failed", "published"} :
          runs' = [runs EXCEPT ![i].status = status] /\ UNCHANGED <<settings, release, loose>>
      BY <2>7 DEF RefuseExisting, Succeed
    <3> DEFINE r == [runs[i] EXCEPT !.status = status]
    <3>1. r \in Run /\ r.sha = runs[i].sha /\ r.tag = runs[i].tag /\ GatedRun(r)
      BY <2>0 DEF Run, Statuses, GatedRun
    <3>2. runs' = [runs EXCEPT ![i] = r]
      BY <1>0
    <3> QED
      BY <3>1, <3>2, OneRunStep
  <2>8. ASSUME NEW answered \in BOOLEAN, NoReleaseSeen(i, answered)
        PROVE  IInv'
    <3> DEFINE r == [runs[i] EXCEPT !.step = "create"]
    <3>1. r \in Run /\ r.sha = runs[i].sha /\ r.tag = runs[i].tag /\ GatedRun(r)
      BY <2>0, <2>8 DEF NoReleaseSeen, At, Run, RunSteps, ReleaseSteps, GatedRun
    <3>2. runs' = [runs EXCEPT ![i] = r] /\ UNCHANGED <<settings, release, loose>>
      BY <2>8, <1>0 DEF NoReleaseSeen
    <3> QED
      BY <3>1, <3>2, OneRunStep
  <2>9. CASE CreateRelease(i)
    BY <2>9, CreateIInv
  <2> QED
    BY <1>2, <2>1, <2>2, <2>3, <2>4, <2>5, <2>6, <2>7, <2>8, <2>9 DEF WorkflowStep
<1>3. ASSUME NEW object \in TagObjects, PushTag(object)
      PROVE  IInv'
  BY <1>3, PushIInv
<1>4. CASE UNCHANGED vars
  BY <1>4 DEF vars, settings, IInv, SettingsInv, RunsInv, GatedRun, Judged, ReleaseInv, TagInv
<1> QED
  BY <1>1, <1>2, <1>3, <1>4, SettingsIInv DEF Next, Conclusions

\* Every reachable state is one whose runs are past only what they established.
THEOREM InductiveInvariant == Spec => []IInv
BY InitIInv, NextIInv, PTL DEF Spec

-----------------------------------------------------------------------------
(* One run at a time: why the release is that of the run under way.        *)

Owns(i) ==
  /\ release # None /\ release.run = i
  /\ release.commit = runs[i].sha /\ release.assets = runs[i].artifacts

\* A run that waits starts before it looks for a release; one that found none
\* is right about it; one that created the release, or ended well, owns it.
Turn(i) ==
  /\ runs[i].status = "queued" => runs[i].step \notin {"create", "created"}
  /\ At(i, "create") /\ i \notin blind => release = None
  /\ At(i, "created") \/ runs[i].status = "published" => Owns(i)

TurnInv ==
  /\ blind \subseteq DOMAIN runs
  /\ \A i, j \in DOMAIN runs :
       runs[i].status = "running" /\ runs[j].status = "running" => i = j
  /\ \A i \in DOMAIN runs : Turn(i)

\* A step of the only run under way, or of the one that starts: the release may
\* appear, and is not replaced.
LEMMA TurnStep ==
  ASSUME TurnInv, NEW i \in DOMAIN runs,
         \A j \in DOMAIN runs \ {i} : runs[j].status # "running",
         DOMAIN runs' = DOMAIN runs,
         \A j \in DOMAIN runs \ {i} : runs'[j] = runs[j],
         blind' \subseteq blind \cup {i},
         release' = release \/ release = None,
         Turn(i)'
  PROVE  TurnInv'
<1>1. ASSUME NEW j \in DOMAIN runs \ {i}
      PROVE  Turn(j)'
  <2>1. Turn(j) /\ runs[j].status # "running" /\ runs'[j] = runs[j]
    BY DEF TurnInv
  <2>2. runs[j].status = "published" => release' = release
    BY <2>1 DEF Turn, Owns
  <2> QED
    BY <2>1, <2>2 DEF Turn, Owns, At
<1> QED
  BY <1>1 DEF TurnInv

LEMMA NextTurnInv == IInv /\ TurnInv /\ [Next]_vars => TurnInv'
<1> SUFFICES ASSUME IInv, TurnInv, [Next]_vars
             PROVE  TurnInv'
  OBVIOUS
<1>0. runs \in Seq(Run) /\ \A j \in DOMAIN runs : runs[j] \in Run /\ GatedRun(runs[j])
  BY DEF IInv, RunsInv
<1>1. ASSUME NEW i \in DOMAIN runs, Rerun(i)
      PROVE  TurnInv'
  <2>1. PICK step \in FirstSteps(runs[i].step) :
          runs' = [Superseded(runs) EXCEPT ![i] = Queued(runs[i], step)]
    BY <1>1 DEF Rerun
  <2>2. step \notin {"create", "created"}
    BY DEF FirstSteps
  <2>3. Queued(runs[i], step).status = "queued" /\ Queued(runs[i], step).step = step
    BY <1>0 DEF Queued, Run
  <2>4. DOMAIN runs' = DOMAIN runs /\ runs'[i] = Queued(runs[i], step)
    BY <2>1 DEF Superseded
  <2>5. \A j \in DOMAIN runs \ {i} :
          runs'[j] = runs[j] \/ runs'[j] = [runs[j] EXCEPT !.status = "cancelled"]
    BY <2>1 DEF Superseded
  <2>6. \A j \in DOMAIN runs \ {i} : runs'[j] = runs[j] \/ runs'[j].status = "cancelled"
    BY <2>5, <1>0 DEF Run
  <2>7. UNCHANGED <<release, blind>>
    BY <1>1 DEF Rerun
  <2> QED
    BY <2>2, <2>3, <2>4, <2>6, <2>7 DEF TurnInv, Turn, Owns, At
<1>2. ASSUME NEW i \in DOMAIN runs, WorkflowStep(i)
      PROVE  TurnInv'
  <2> DEFINE r == runs'[i]
  <2>0. runs[i] \in Run /\ Turn(i)
    BY <1>0 DEF TurnInv
  <2>1. \A j \in DOMAIN runs \ {i} : runs[j].status # "running"
    BY <1>2
    DEF TurnInv, WorkflowStep, Start, FailRun, VerifyReleaseTag, FetchTag,
        VerifyReleaseRulesets, VerifyReleaseCheck, Verified, Build, BuildCommit,
        RefuseExisting, NoReleaseSeen, CreateRelease, Succeed, At
  <2>2. DOMAIN runs' = DOMAIN runs /\ \A j \in DOMAIN runs \ {i} : runs'[j] = runs[j]
    BY <1>2
    DEF WorkflowStep, Start, FailRun, VerifyReleaseTag, FetchTag,
        VerifyReleaseRulesets, VerifyReleaseCheck, Verified, Build, BuildCommit,
        RefuseExisting, NoReleaseSeen, CreateRelease, Succeed
  <2>3. /\ blind' \subseteq blind \cup {i}
        /\ release' = release \/ release = None
    BY <1>2
    DEF WorkflowStep, Start, FailRun, VerifyReleaseTag, FetchTag,
        VerifyReleaseRulesets, VerifyReleaseCheck, Verified, Build, BuildCommit,
        RefuseExisting, NoReleaseSeen, CreateRelease, Succeed
  <2>4. Turn(i)'
    <3>1. CASE Start(i)
      BY <3>1, <2>0 DEF Start, Turn, At, Run
    <3>2. CASE FailRun(i) \/ RefuseExisting(i)
      <4>1. r.status = "failed"
        BY <3>2, <2>0 DEF FailRun, RefuseExisting, Run
      <4> QED
        BY <4>1 DEF Turn, At
    <3>3. CASE VerifyReleaseTag(i) \/ VerifyReleaseRulesets(i)
      <4>1. r.status = "running" /\ r.step \in {"rulesets", "checks"}
        BY <3>3, <2>0 DEF VerifyReleaseTag, FetchTag, VerifyReleaseRulesets, At, Run
      <4> QED
        BY <4>1 DEF Turn, At
    <3>4. ASSUME NEW w \in Workflow, VerifyReleaseCheck(i, w)
          PROVE  Turn(i)'
      <4>1. r.status = "running" /\ r.step \in {"checks", "build"}
        BY <3>4, <2>0 DEF VerifyReleaseCheck, Verified, At, Run
      <4> QED
        BY <4>1 DEF Turn, At
    <3>5. ASSUME NEW a \in Arch, Build(i, a)
          PROVE  Turn(i)'
      <4>1. r.status = "running" /\ r.step \in {"build", "release"}
        BY <3>5, <2>0 DEF Build, BuildCommit, At, Run
      <4> QED
        BY <4>1 DEF Turn, At
    <3>6. ASSUME NEW answered \in BOOLEAN, NoReleaseSeen(i, answered)
          PROVE  Turn(i)'
      <4>1. r.status = "running" /\ r.step = "create"
        BY <3>6, <2>0 DEF NoReleaseSeen, At, Run
      <4>2. i \notin blind' => release' = None
        BY <3>6 DEF NoReleaseSeen
      <4> QED
        BY <4>1, <4>2 DEF Turn, At
    <3>7. CASE CreateRelease(i)
      <4>1. /\ r.status = "running" /\ r.step = "created"
            /\ r.sha = runs[i].sha /\ r.artifacts = runs[i].artifacts
        BY <3>7, <2>0 DEF CreateRelease, At, Run
      <4>2. release' = [run |-> i, commit |-> runs[i].sha, assets |-> runs[i].artifacts]
        BY <3>7 DEF CreateRelease
      <4>3. release' # None
        <5>1. i \in Nat
          BY <1>0
        <5> QED
          BY <5>1, <2>0, <4>2, ReleaseAssumption DEF Run
      <4> QED
        BY <4>1, <4>2, <4>3 DEF Turn, At, Owns
    <3>8. CASE Succeed(i)
      <4>1. /\ r.status = "published"
            /\ r.sha = runs[i].sha /\ r.artifacts = runs[i].artifacts
        BY <3>8, <2>0 DEF Succeed, At, Run
      <4> QED
        BY <4>1, <3>8, <2>0 DEF Succeed, Turn, At, Owns
    <3> QED
      BY <1>2, <3>1, <3>2, <3>3, <3>4, <3>5, <3>6, <3>7, <3>8 DEF WorkflowStep
  <2> QED
    BY <2>1, <2>2, <2>3, <2>4, TurnStep
<1>3. ASSUME NEW object \in TagObjects, PushTag(object)
      PROVE  TurnInv'
  <2> DEFINE new == [sha |-> object.commit, status |-> "queued", step |-> "fetch",
                     tag |-> None, verified |-> {}, artifacts |-> NoArtifacts]
  <2>1. runs' = Append(Superseded(runs), new) /\ UNCHANGED <<release, blind>>
    BY <1>3 DEF PushTag
  <2>2. Superseded(runs) \in Seq(Run) /\ DOMAIN Superseded(runs) = DOMAIN runs
    BY <1>0, SupersededRuns
  <2>3. new.status = "queued" /\ new.step = "fetch"
    OBVIOUS
  <2> HIDE DEF new
  <2>4. /\ DOMAIN runs' = DOMAIN runs \cup {Len(runs) + 1}
        /\ runs'[Len(runs) + 1] = new
        /\ \A j \in DOMAIN runs : runs'[j] = Superseded(runs)[j]
    BY <1>0, <2>1, <2>2
  <2>5. \A j \in DOMAIN runs : runs'[j] = runs[j] \/ runs'[j].status = "cancelled"
    BY <1>0, <2>4 DEF Superseded, Run
  <2> QED
    BY <2>1, <2>3, <2>4, <2>5 DEF TurnInv, Turn, Owns, At
<1>4. CASE UNCHANGED <<runs, release, blind>>
  BY <1>4 DEF TurnInv, Turn, Owns, At
<1> QED
  BY <1>1, <1>2, <1>3, <1>4 DEF Next, vars, DeleteTag, SwitchRuleset, Recheck

\* Whatever is pushed or repeated, the runs take their turn.
THEOREM TurnInvariant == Spec => []TurnInv
<1>1. Init => TurnInv
  BY DEF Init, TurnInv
<1> QED
  BY <1>1, InductiveInvariant, NextTurnInv, PTL DEF Spec

-----------------------------------------------------------------------------
(* What follows from it.                                                   *)

\* The model is well typed: a run is never past what it has verified and built.
THEOREM TypeCorrect == Spec => []TypeOK
<1>1. IInv /\ TurnInv => TypeOK
  <2> SUFFICES ASSUME IInv, TurnInv
               PROVE  TypeOK
    OBVIOUS
  <2>1. \A i \in DOMAIN runs : runs[i] \in Run /\ GatedRun(runs[i])
    BY DEF IInv, RunsInv
  <2> QED
    BY <2>1 DEF IInv, SettingsInv, TagInv, TurnInv, TypeOK, Run, Statuses, RunSteps, GatedRun
<1> QED
  BY <1>1, InductiveInvariant, TurnInvariant, PTL

\* The published files are of one commit that passed the gate: signed, on
\* main, of the right version, with every required check.
THEOREM PublishedIsGatedCorrect == Spec => []PublishedIsGated
<1>1. IInv => PublishedIsGated
  <2> SUFFICES ASSUME IInv, release # None
               PROVE  PublishedIsGated
    BY DEF PublishedIsGated
  <2>1. /\ release.run \in DOMAIN runs
        /\ GatedRun(runs[release.run])
        /\ runs[release.run].tag # None
    BY DEF IInv, RunsInv, ReleaseInv
  <2>2. Judged(runs[release.run].tag, release.commit)
    BY <2>1 DEF GatedRun, IInv, ReleaseInv
  <2> QED
    BY <2>2 DEF Judged, IInv, ReleaseInv, PublishedIsGated
<1> QED
  BY <1>1, InductiveInvariant, PTL

\* While the immutability ruleset is in force from the fetch on, the tag of the
\* version names the published commit.
THEOREM TagNamesTheReleaseCorrect == Spec => []TagNamesTheRelease
<1>1. IInv => TagNamesTheRelease
  <2> SUFFICES ASSUME IInv, release # None, release.run \notin loose
               PROVE  tag # None /\ tag.commit = release.commit /\ tag.signed
    BY DEF TagNamesTheRelease
  <2>1. /\ release.run \in DOMAIN runs
        /\ runs[release.run].tag # None
        /\ GatedRun(runs[release.run])
        /\ tag = runs[release.run].tag
    BY DEF IInv, RunsInv, ReleaseInv, TagInv
  <2> QED
    BY <2>1 DEF GatedRun, Judged, IInv, ReleaseInv
<1> QED
  BY <1>1, InductiveInvariant, PTL

\* A run that succeeds has published what it built: no run takes the release of
\* another for its own.
THEOREM SuccessIsPublishedCorrect == Spec => []SuccessIsPublished
<1>1. TurnInv => SuccessIsPublished
  BY DEF TurnInv, Turn, Owns, SuccessIsPublished
<1> QED
  BY <1>1, TurnInvariant, PTL

\* No release appears between the look of a run and its creating one.
THEOREM AbsenceStillHoldsCorrect == Spec => []AbsenceStillHolds
<1>1. TurnInv => AbsenceStillHolds
  BY DEF TurnInv, Turn, AbsenceStillHolds
<1> QED
  BY <1>1, TurnInvariant, PTL
=============================================================================
