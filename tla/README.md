# Formal models of landrun

landrun starts a command inside a Landlock sandbox: it reads a policy from the
command line and from a policy file, resolves the command, confines itself,
and executes the command in its own place. This directory holds TLA+ models of
that program, the TLC configurations that check them on small instances, and
proofs checked by TLAPS that hold for every value of the constants. Source
paths below are relative to the repository.

## 1. The system

| component | state it keeps | operations |
|---|---|---|
| sandbox policy engine, `internal/sandbox/sandbox.go` | the configuration, the rules collected, the effective policy; in the kernel: the ruleset, the domain | `ValidateConfig`, `RequiredABI`, `effectivePolicyForABI`, `Apply` |
| inherited descriptors, `internal/exec/fds_linux.go` | the process's descriptor table | `ValidateInheritedDescriptors`, `PrepareInheritedDescriptors` |
| opened executable, `internal/exec/executable_linux.go` | an `O_PATH` descriptor | `OpenExecutable`, `RunFile` |
| launcher, `cmd/landrun/main.go` | the merged policy | `Action`, `policyFromCommand`, `processEnvironmentVars`, `reportProbe` |
| policy files, `cmd/landrun/policy.go` | none | `loadPolicyFile`, `rejectDuplicateJSONKeys`, `mergeLaunchPolicies` |
| library dependencies, `internal/elfdeps/elfdeps.go` | work list, processed and found paths | `GetLibraryDependencies`, `resolveSonames`, `normalizeRpaths` |
| release gate, `ci/verify-release-*.sh`, `release.yml` | the tag, its checks, the published release | verification and publication jobs |
| logging, `exec.Run`, stubs for other systems, test harness | | |

The launcher calls the others in one fixed order: policy file, preserve list,
`LookPath`, `OpenExecutable`, `--ldd`, `sandbox.Apply`,
`PrepareInheritedDescriptors`, `RunFile`. Any error ends the process with
status 125 and the target is never started. There is one thread of control in
the launcher; what is concurrent is the rest of the machine, which may replace
what any path names between two system calls, and the Go runtime, which opens
descriptors of its own.

What is hard, and what makes each part correct:

* **Policy engine.** The sandbox is decided three times: by `RequiredABI`
  (refuse an old kernel), by `effectivePolicyForABI` (what is logged) and by
  go-landlock (what is enforced, with its own downgrade for `--best-effort`).
  The three must agree on every kernel. Each path is resolved twice, by
  `os.Stat` for the kind of rule and by go-landlock for the rule itself.
  Correct means: an explicit rule is never dropped silently, everything else
  the request restricts is denied, nothing is granted beyond the rules, the
  log is true, and failure leaves no half-made domain.
* **Descriptors.** The kernel reuses the lowest number, so a number the caller
  listed but left closed can be taken by something landrun opens. Correct
  means: the target inherits exactly the list, and only what the caller opened.
* **Launcher.** The path of the binary is resolved four times: by `LookPath`,
  `OpenExecutable`, `--ldd`, and go-landlock for the rule of `--add-exec`.
  Correct means: what runs is the file that was opened, under the policy that
  was asked for, or nothing runs.
* **Library dependencies.** A cyclic graph, unreadable files, `$ORIGIN`.
  Correct means: the loop ends and the result is closed under dependency, or
  the launch fails, and it fails only for a library that is nowhere.
* **Policy files.** Two readers of the same JSON, a file that may be rewritten,
  two translations of the same options, a merge by union and or. Correct means:
  an accepted file has one meaning for every reader, and it makes no difference
  which options are in the file and which on the command line.
* **Release gate.** A tag may be pushed again, and runs repeated, between jobs.
  Correct means: what is published was built and judged from one commit, the
  tag goes on naming it, and a run succeeds only with a release of its own.

The full list of hazards, each at its line with the properties that cover it,
is in `PROJECT.json`.

## 2. The modules

| module | content |
|---|---|
| `LandlockABI` | rights, scopes, audit flags; the ABI that introduced each (kernel, external); the classes of rules and the rights of each class |
| `SandboxConfig` | `Config`, `ValidateConfig`, `RequiredABI`, `effectivePolicyForABI` |
| `SandboxPromise` | what a configuration means to its user and when a domain honours it |
| `SandboxContract` | abstract specification of `Apply`: one atomic decision |
| `SandboxApply` | `Apply` step by step, with a filesystem that changes |
| `MCSandboxApply` | instances of `SandboxApply` for TLC |
| `SandboxApplyProofs` | theorems about `SandboxApply` |
| `InheritedDescriptors` | the descriptor table from the start of landrun to the exec |
| `MCInheritedDescriptors` | instances of it for TLC |
| `InheritedDescriptorsProofs` | theorems about it |
| `LaunchPolicy` | options, their translation to a policy, the merge of two policies |
| `PolicyFile` | from the invocation to the merged policy: open, read, scan, decode, merge |
| `LibraryClosure` | abstract specification of `--ldd`: the closure, or an error |
| `ElfDeps` | `GetLibraryDependencies`: the work list, rpaths, resolution |
| `Launcher` | from the merged policy to the target, with paths that change |
| `ReleaseGate` | the release workflow and its scripts |
| `MCPolicyFile`, `MCElfDeps`, `MCLauncher`, `MCReleaseGate` | instances for TLC |
| `LauncherProofs`, `PolicyFileProofs`, `ElfDepsProofs`, `ReleaseGateProofs` | theorems about the module of the name |
| `SequenceFacts` | lemmas about sequences and sets of numbers |
| `SandboxFacts` | lemmas about what a request asks for |

`SandboxConfig` extends `LandlockABI`; `SandboxPromise` extends
`SandboxConfig`; `SandboxContract` and `SandboxApply` extend `SandboxPromise`,
and `SandboxApply` instantiates `SandboxContract` with variables of the same
names. `LaunchPolicy` extends `SandboxConfig`, and `PolicyFile` and `Launcher`
extend `LaunchPolicy`. `SandboxFacts` extends `SandboxPromise` and
`SequenceFacts`; the proofs about `SandboxApply`, `Launcher` and `PolicyFile`
extend it.

The modules compose along the launch. `PolicyFile` ends with the merged policy
`Launcher` starts from (`Policies`). In `Launcher`, `sandbox.Apply` is one
step, the `Confine` or `Refuse` of

    Decision == INSTANCE SandboxContract
                  WITH request <- policy.sandbox, outcome <- applied

which is what `SandboxApply` is shown to implement, so `SandboxApply`'s results
hold of the domain the target gets. The result of `--ldd` is a function of the
file the path names, which is what `ElfDeps` is shown to compute:

    Closure == INSTANCE LibraryClosure WITH graph <- DependencyGraph

where `DependencyGraph` is defined from the files and the search directories
alone, and not from the work list. The descriptor table is not repeated in
`Launcher`: there an open or `close_range` just may fail, and
`InheritedDescriptors` says when and what follows.

### SandboxApply and the code

A right is its name and a bit mask a set of names; a path is a model value and
what it resolves to (`names`) an inode, `Missing` (ENOENT) or `Unreachable`
(any other failure). A request has lists, as flags and JSON give them; after
`ValidateConfig` a configuration has sets, because the code's lists are then
sorted and free of duplicates and nothing later depends on their order but the
order of the classes (`ClassRank`).

| step (`pc`) | actions | code |
|---|---|---|
| `validate` | `RejectInvalid`, `Validate` | sandbox.go:457-461, 87-184 |
| `probe` | `RefuseOldKernel`, `NothingToRestrict`, `StartCollecting` | 462-506 |
| `collect` | `CollectPath` (one `os.Stat` each), `FinishCollecting` | 512-553 |
| `restrict` | `RefuseStrictKernel`, `RestrictNothing`, `CreateRuleset` | 555-587 and go-landlock |
| `add` | `IgnoreMissingRule`, `RefuseRule`, `AddRule`, `RestrictSelf` | 587-593, 445-454 and go-landlock |
| any | `Relink`: the environment changes one path | (environment) |

External, modelled from how the code uses it: which rights a kernel supports,
go-landlock's downgrade (rights the kernel lacks leave the handled set and the
rules; a rule with `refer` on a kernel without it voids the configuration),
the refusal of directory rights on another inode, and the last call, which may
fail for a limit of the kernel.

### InheritedDescriptors and the code

`owner[fd]` says who opened a descriptor above stderr ("none": closed),
`cloexec` which are close-on-exec. Each action is one step of `Action`
(main.go:158-227) seen from the descriptor table; `open` takes the lowest free
number. The first `os.Open` of the process starts the Go runtime's network
poller, which keeps an epoll and an eventfd descriptor; `OpenExecutable` calls
`open(2)` directly and does not. A standard stream that the caller has made
non-blocking starts the poller before `main` (`os.NewFile` of stdin, stdout and
stderr); `nonblocking` says whether there is one, and `CallersWithoutPolicyFile`
is about launches without. The runtime is assumed to hold no other descriptor:
the `go 1.24.0` line of `go.mod` keeps the later runtime's
cgroup-aware scheduling, which would hold one, off by default.

### PolicyFile and the code

Options are what one source says: a sequence for each list flag, and the set of
switches that are on. A JSON text is its top value, its members in order (the
field a key spells, whether in the exact case, and the value), whether anything
follows, and its size; `MaxSize` stands for 1 MiB. `Members`, `ValueOf` and
`OptionsAs` describe any JSON reader (folding case or not, first or last member
wins, null in a list dropped or zero); `encoding/json` is one of them
(`Decoded`).

| step (`pc`) | actions | code |
|---|---|---|
| `start` | `NoPolicyFile`, `RejectInvocation`, `OpenPolicyFile` | main.go:167-176, policy.go:76-80 |
| `stat` | `RejectKind`, `StatPolicyFile` | policy.go:82-88 |
| `read` | `ReadPolicyFile` | policy.go:90-96 |
| `scan` | `RejectDuplicateJSONKeys` | policy.go:97-99, 179-256 |
| `decode` | `RejectDecoded`, `DecodePolicyFile` | policy.go:101-118, 121-145 |
| `merge` | `Merge` | main.go:177-179, 231-257, policy.go:147-177 |
| any | `Rewrite`, `OpenWriter`: somebody writes the file or opens the FIFO | (environment) |

### ElfDeps and the code

A filesystem (`tree`) says what is at each path, a path being a directory and a
name. The machine, class, byte order and float flags of an ELF header are one
name, an ABI; `arm_ambiguous` and `riscv64` stand for what
`standardLibDirs` refuses. The queue is a set: its order has no effect on the
result. Each iteration of the loop is `SkipProcessed`, `SkipUnreadable`, `Fail`
or `Expand` (elfdeps.go:206-259), and `Finish` returns. The files do not change
during the walk; that they may change before and after it is in `Launcher`.

### Launcher and the code

`names` says which inode each path names, and `Relink` changes it at any
moment; `executable` is the inode behind the `O_PATH` descriptor; `bound` is
what each path named when go-landlock opened it for its rule.

| step (`pc`) | actions | code |
|---|---|---|
| `start` | `ReportProbe`, `RefuseInvocation`, `AcceptInvocation` | main.go:159-184, 282-309 |
| `look` | `LookPath`, `NotFound` | main.go:186-189 |
| `open` | `OpenExecutable`, `NotOpened` | main.go:190-193, executable_linux.go:16-22 |
| `add_exec` | `AddExecutable` | main.go:197-200 |
| `ldd` | `AddLibraries`, `LibrariesUnresolved` | main.go:203-211 |
| `environment` | `SetEnvironment` | main.go:214, 312-328 |
| `apply` | `Apply`, `ApplyRefused` | main.go:216-218 |
| `prepare` | `PrepareInheritedDescriptors`, `NotPrepared` | main.go:219-221 |
| `run` | `RunFile` | main.go:223-226, executable_linux.go:27-67 |

External: what the kernel executes (`Runs`). It looks at the inode, at the
rules that cover it and its interpreter, and refuses scripts, whose descriptor
is closed on exec.

### ReleaseGate and the code

A run of the workflow is a record: `GITHUB_SHA`, the step it is at, the tag
object the gate fetched, the workflows verified so far, an artifact for each
architecture. `VerifyReleaseTag`, `VerifyReleaseRulesets` and
`VerifyReleaseCheck` are the three scripts, the last one workflow at a time;
`Build` is the second job. The last one looks for a release and creates one by
two requests (release.yml:191-198): `RefuseExisting` or `NoReleaseSeen`, then
`CreateRelease`, then `Succeed`; a runner may be lost between any two. The shell
takes a `gh release view` that fails without an answer for one that found
nothing (`NoReleaseSeen(i, FALSE)`); then only GitHub, which gives a tag one
release (external), refuses the second. Nobody but the workflow is assumed to
create a release. The repository's settings are
external actions: the tag is pushed or deleted when the immutability ruleset
does not forbid it, rulesets are switched, checks repeated, ended runs repeated
wholly or from the failed job. `passed`, `loose` and `blind` are history
variables.

## 3. What is checked

| run | instance | result |
|---|---|---|
| `apply_matrix` | ABIs 0..10; all unrestricted domains; no rule or one path in each class; two paths; ports at 0, 8080, 65535, -1, 65536; two audit flags or none; `--best-effort` or not | `TypeOK`, `NoRuleDropped`, `DenyByDefault`, `LeastAuthority`, `ReportIsTruthful`, `PolicyABIIsLowest` hold |
| `apply_race` | path rules on ABIs 1, 3, 9; every way two paths can name a directory, a file, nothing or something unreachable; two concurrent changes | `RightsMatchKind`, `RefusalsAreExplained`, `Implements` (refinement of `SandboxContract`) and `Returns` hold |
| `apply_unix` | as `apply_race` without changes | violates `UnixRuleOnlyConnects`: finding 1 |
| `descriptors_policy` | 6 descriptors, 10 preserve lists, any descriptors left open by the caller, two ELF files, with and without a policy file, standard streams that block or not | `TypeOK`, `InheritsExactlyListed`, `CallersWithoutPolicyFile`, `NoOpenedFileLeaks`, `RevalidationSucceeds` hold |
| `descriptors_poller` | the same with a policy file, standard streams that block | violates `PreservedAreCallers`: finding 2 |
| `policy_load` | every pair of 18 members, good and bad, after the version, in either order; every version, kind, size and top value; five command lines; one rewrite | `TypeOK`, `OneMeaning`, `WholeFileJudged`, `RejectedWithReason`, `SourceMakesNoDifference`, `NoRuleMadeMoot`, `Settles` hold |
| `policy_fifo` | the same | violates `NonRegularIsRefused`: finding 3 |
| `elf_walk` | a binary, an interpreter and two libraries that need each other in 64 ways, in four directories, with rpaths that are empty, relative, absolute or from `$ORIGIN`; unreadable files, missing files, foreign ABIs, and a library that resolves to `ld.so.cache` | `TypeOK`, `FailsOnlyIfMissing`, `Implements` (refinement of `LibraryClosure`) and `Returns` hold |
| `elf_relative` | a binary given by a relative path | violates `FailsOnlyIfMissing`: finding 4 |
| `elf_mixed` | a library of another ABI in front of the right one | violates `LibrariesMatchABI`: finding 5 |
| `launch` | policies of every combination of helpers, ABIs 0, 2, 9; the binary's path names a dynamic or static program, one `--ldd` cannot read or resolve, a static one of an unknown ABI, a script, data, the directory above, or nothing, with one change at any moment | `TypeOK`, `TargetUnderPolicy`, `RunsTheOpenedFile`, `DeniedForReason`, `EnvironmentIsListed`, `Ends` hold |
| `release` | three commits, four tags, two architectures, two checks; two pushes, one repeated run, two changes of the settings | `TypeOK`, `PublishedIsGated`, `TagNamesTheRelease`, `SuccessIsPublished`, `AbsenceStillHolds` hold |

What the deeper ones say. `OneMeaning`: whatever reader one takes of an
accepted text, it finds the policy that was loaded, so the scan lets nothing
through on which readers differ. `SourceMakesNoDifference`: moving an option
from the file to the command line changes nothing after `ValidateConfig` has
normalised, though the code translates the two separately and merges later.
`TargetUnderPolicy`: everything the merged policy denies is denied to the
target, all its rules are in force, and any other rule is one of `--add-exec`
or `--ldd`, whatever fails or is renamed on the way. `RunsTheOpenedFile`: the
target is the opened inode, and if only `--add-exec` could permit it, its path
named it, or a directory above it, when the rule was made. `DeniedForReason`: with both helpers and
a quiet filesystem, a confined exec fails only for a script, for a binary
`--ldd` could not read, or with `--ignore-missing`. `TagNamesTheRelease` is
conditional on the immutability ruleset since the tag was *fetched*: since its
verification would be too late, because the tag may move between the fetch and
the look at the rulesets. `AbsenceStillHolds`: when a run asks for a release to
be created, there is none, as it was told; the look and the request are two
steps, and what keeps another run from coming in between is the concurrency
group of the tag alone. `SuccessIsPublished`: a green run has created the
release, of the files it built, however often and from whichever job runs were
repeated.

**Bounds.** Eleven ABIs are all there is to tell apart: none, each of the nine,
and one newer. Rights depend on a path only through its class and its kind, so
one path per class and two kinds meet every case of the pure functions; the
second path is there for the order of classes, for rules that differ in fate,
and for a path listed twice. `MaxRelinks = 2` lets a path change after its stat
and change back before its open. Six descriptors hold two of the caller's next
to the poller's two, the executable and one file, or run out. Two members after the
version are enough for every conflict between members, and `MaxSize` and
`MaxSize + 1` are the two sides of the limit. Two libraries make cycles through
the binary and through each other, and a first match in each kind of directory.
One rename in a launch can fall before, between and after the four resolutions;
it makes two of them differ, which is all a property compares. Two pushes of
the tag are needed for two runs, one repeated run for a second attempt to publish, and
two changes switch the immutability ruleset off and on again. Deadlock checking
is off in all runs because each system stops: `Apply` returns, the launcher
becomes the target or exits, a policy is loaded or rejected, the walk ends, and
nobody has to push a tag.

**Fairness.** `WF(ApplyStep)`, `WF(LoadStep)` and `WF(LaunchStep)` beside an
environment, and `WF(Next)` in `ElfDeps`, where there is none: each is the only
thread doing its work, and none of its steps waits, except the open of a FIFO:
in `PolicyFile` that is not enabled until there is a writer, and `ElfDeps` has
no FIFO among its files. `InheritedDescriptors` assumes no fairness, since the
opens it goes through may wait; that launches end is the matter of the modules
that know what is opened. `ReleaseGate` assumes none either: a runner may be
lost. Nothing is assumed of the environment: `Relink` is not fair. The number of its changes is
bounded by `MaxRelinks`, but `Returns` does not rest on that, since `ApplyStep`
stays enabled through any of them.

**Findings.**

1. `--unix DIR` gives `read_file` (and `read_dir`) on the directory
   (`getUnixSocketRights`, sandbox.go:424-434), so the target can read every
   file below it. README.md:126 documents connecting and sending only. The
   tests (sandbox_test.go:102-119) assert the wider set.
2. `ValidateInheritedDescriptors` (fds_linux.go:14-16) is meant to run before
   landrun opens any descriptor, so that a closed number in the list "is not
   accidentally satisfied by launcher setup"; with `--policy` the file is opened
   first (main.go:168-184), and the runtime's poller descriptors, which that
   open creates, stay. A listed number that the caller left closed can then be
   the runtime's epoll or eventfd, and the target inherits it. The file itself
   does not leak (`NoOpenedFileLeaks`), and without a policy file the promise
   holds (`CallersWithoutPolicyFile` in `descriptors_policy`, and the theorem),
   unless a non-blocking standard stream has started the poller before.
3. A FIFO given to `--policy` is not refused: `os.Open` (policy.go:76) waits for
   a writer before the check for a regular file (policy.go:86) is reached.
   docs/policy-files.md:91 requires a regular file. Once somebody opens it for
   writing it is refused as documented.
4. `normalizeRpaths` puts `$ORIGIN` entries of a binary given by a relative path
   below the origin twice (`build/build/lib`), so `--ldd` fails although the
   library is there. For absolute paths `FailsOnlyIfMissing` holds
   (`elf_walk`, and the theorem).
5. `resolveSingleSoname` takes the first file of the right name, of whatever
   architecture; elfdeps_test.go:64-65 expects matching ones. The loader would
   pass over it, and then lack the rule for the right file.

Three observations that no run is about. `--add-exec` makes its rule from the
path (main.go:198), so when the path is replaced after the open the rule is for
the replacement. The opened file then runs only if another rule permits it or
the replacement is a directory above it. And the workflow's own refusal to
replace a release fails open, as section 2 says: after a `gh release view` that
was not answered it asks for the release to be created, whether there is one or
not, and relies on GitHub's refusal. Last, `GetLibraryDependencies` passes over
a file it cannot open (elfdeps.go:216-221), the binary included: for one of mode
0111, which can be executed and not read, `--ldd` succeeds with neither
interpreter nor libraries, where docs/usage-guide.md:48-50 has it grant both.
The target then cannot start (the second case of `DeniedForReason`), and nothing
says why.

## 4. What is proved

Every invariant and refinement of section 3's passing runs is a theorem here, `FailsOnlyIfMissing` for binaries and interpreters given by
absolute paths; what stays with TLC is named at the end. The assumptions give
the sets of inputs their types and say that the distinguished values ("no
inode", "no file", the empty path) are not among the ordinary ones; no theorem
needs a constant to be finite, and none bounds the interference (`MaxRelinks`,
`MaxRewrites`, `MaxPushes`, ... are any numbers). Most of the safety properties
speak of the end of a run, so none of these is inductive: each module of proofs
has an `IInv` that says what every step so far has established, shown to be
preserved action by action, and the theorems follow from it.

**SandboxApply** (`ObjectAssumption`, `InputAssumption`,
`EmptyPathAssumption`). `TypeCorrect`, `NoRuleDroppedCorrect`,
`DenyByDefaultCorrect`, `LeastAuthorityCorrect`, `ApplyImplementsContract`:
Apply is one atomic decision, every state before its return maps to "running"
without a domain, and its return maps to `Refuse` or `Confine`. From `probe`
on, the configuration is the normalised request; after the probe the kernel has
every ABI the explicit rules require; while collecting, each explicit path rule
is collected or still to do, and each collected rule carries a right set of its
class; while adding, the ruleset together with the rules still to be added is
already an acceptable domain (`RulesetInv`), which each added or ignored rule
preserves and `RestrictSelf` turns into the domain. The step that matters is
`CreateRuleset`: `PromisesSupported` shows that a kernel that passed
`RequiredABI` has every right the classes promise, and `refer` too when there
is a write rule, so the downgrade can neither take a promised right away nor be
void (`RulesetCreated`).

Three more clauses, together `ReasonInv`, give the rest. `ReportInv` says that
a report is `effectivePolicyForABI` of the normalised request and that the
kernel was not too old; `TruthfulReport` then compares it with go-landlock's
downgrade for a kernel of any ABI (`ReportIsTruthfulCorrect`), and
`LowestLevel` shows that the code's maximum of levels is the least ABI with all
of the policy (`PolicyABIIsLowestCorrect`). `KindInv` says that while no path
has changed every rule, collected, in the ruleset or in the domain, has
directory rights exactly when its path is a directory, and otherwise only
rights a file can carry (`RightsMatchKindCorrect`). It is also why a rule is
refused for its kind only after a change: `RefusalsAreExplainedCorrect`, for
which `OldKernelLacksPromise` shows that the ABI `RequiredABI` asks for always
stands for something the request was promised.

**InheritedDescriptors** (`DescriptorAssumption`). `TypeCorrect`,
`InheritsExactlyListedCorrect`, `NoOpenedFileLeaksCorrect`,
`RevalidationSucceedsCorrect`, and `PreservedAreCallersCorrect` for launches
without a policy file and without a non-blocking standard stream
(`CallersWithoutPolicyFile`). The invariant adds who may
own a descriptor at each step (`OwnersInv`), that since the first check every
preserved descriptor is open and not one of landrun's files (`CheckedInv`), and
what is unmarked so far (`MarkedInv`).

**PolicyFile** (`SizeAssumption`, `ContentAssumption`), for texts of any length
and with the file rewritten at any moment. `FileInv` says what the checks have
established of the bytes that were read, and that these are the file's while it
has not been rewritten. `ScannedMembers` and `ScannedValue` are the heart of
`OneMeaningCorrect`: an accepted text has at most one member for each field, in
the exact case and without nulls, so that folding, the choice of a member and
the reading of nulls have nothing to differ on. `WellFormedPasses` is the
converse and gives `RejectedWithReasonCorrect`. `MergeIsJoin` carries
`SourceMakesNoDifferenceCorrect`: the merge of two translated policies has the
lists of the translation of the joined options up to order and repetition,
which `ValidateConfig` removes (`NormalizedEqual`). Also `TypeCorrect`,
`WholeFileJudgedCorrect` and `NoRuleMadeMootCorrect`.

**ElfDeps** (`TreeAssumption`), for any filesystem, cyclic or not, and any order
of the queue. `WalkInv` has both halves of a reachability argument: what is
queued or processed is in every set that is closed under the edges and has the
binary, and the edges of what is processed are queued or processed. With an
empty queue the processed files are therefore the least such set, which is the
closure `LibraryClosure` defines: `WalkImplementsClosure`. A subtlety that only
the proof shows is `ld.so.cache`: it is found before the walk, so a library
that resolves to it is never queued, which is right only because it is no ELF
file (`CacheLeadsNowhere`). `FailsOnlyIfMissingCorrect` has the hypothesis
`Rooted`: the paths of the binary and of its interpreter are absolute. Then so
is every directory the walk searches. Without it the property is false, which
is finding 4.

**Launcher** (`LaunchAssumption`, `PolicyAssumption`), for any policies,
programs and number of renames. The policy is the one asked for, with rules of
the helpers and nothing else (`PolicyInv`), each helper has added what it should
for the binary of its time (`HelperInv`), without a rename all steps see the
same files (`QuietInv`), and the decision of the sandbox holds from then on
(`DomainInv`: what `Decision!Confine` demands of it, and no rule of a path that
named nothing). From this follow
`TargetUnderPolicyCorrect`, `RunsTheOpenedFileCorrect` and
`DeniedForReasonCorrect`. `EnvironmentIsListedCorrect` is an induction over the
list of entries, see below.

**ReleaseGate** (`ReleaseAssumption`), for any number of commits, tags, checks,
architectures, pushes and repeated runs. `GatedRun` says of one run that what it
has judged, verified and built is of its own commit, which is why the runs of a
tag that was moved do not mix; `TagInv` that the tag is still what a run fetched
while the immutability ruleset has held since: `PublishedIsGatedCorrect` and
`TagNamesTheReleaseCorrect`. A second invariant, `TurnInv`, is about the runs
together: one at a time is under way, a run that waits has not yet looked for a
release, one that found none is right about it, and one that created the release
or succeeded owns it. A step of the run under way finds no other one to disturb
(`TurnStep`), hence `AbsenceStillHoldsCorrect` and `SuccessIsPublishedCorrect`.

**Shared lemmas.** `SequenceFacts` has what joined lists contain
(`RangeConcat`), the least element of a set of numbers (`LeastElement`, from
the well-foundedness of `<`), and from it `SetInduction`, induction stated for a
*set* of numbers instead of an operator, so that the provers can use it. With
it `FlattenRange` says what the community module's `FlattenSeq` returns for a
list of any length, which `processEnvironmentVars` is written with.

**What the proof attempts corrected.** Two statements were wrong in cases the
earlier instances did not contain; each case is now among the inputs of a run.
`RunsTheOpenedFile` claimed that under `--add-exec` alone the path of the binary
names the target when its rule is made; it may also name a directory above it,
put in its place by a rename, as `tool` and `dirnode` of `MCLauncher` show. In
`ElfDeps` the directories a file names did not agree with the code on an empty
entry of an rpath, which `normalizeRpaths` skips. And `FailsOnlyIfMissing` needs
the interpreter to be absolute as well as the binary, hence both halves of
`Rooted`: a relative interpreter searches relative directories too.

**Only model-checked.** The liveness properties `Returns` (of `SandboxApply` and
of `ElfDeps`), `Settles` and `Ends`, since TLAPS does not support
reasoning about fairness. The link between modules is as strong as section
2 says: `Launcher` takes the actions of `SandboxContract`, which
`ApplyImplementsContract` is about, but has the result of `--ldd` as a datum of
each file (`Libraries`).

## 5. What is not modelled

* Formatting of errors and logs, flag parsing by the library, the version
  string and the output of `--probe`; `internal/log`: output only.
* `exec.Run` (runner.go), which nothing calls, and the stubs for other systems.
* NUL bytes in arguments and environment entries, which make `RunFile` fail
  like any other error of its step.
* The characters of JSON texts, paths and ELF structures; reading errors in the
  middle of a file.
* A FIFO with the name of a library, whose open (elfdeps.go:216) would wait as
  that of a policy file does.
* A release made by hand beside the workflow, and the drafts and uploads that
  one `gh release create` consists of.
* What the dynamic loader really searches: `ElfDeps` is judged by the
  directories the files themselves name. In particular the rpaths of the
  executable do not extend to its libraries in the code.
* The key server, SBOM, checksums and attestations of a release.
* The test harness, CI and `test.sh`: they exercise the program.

## 6. Plan

All properties of the runs but the liveness ones are proved. What is left, in
order:

1. Results about the composition: that a domain `SandboxApply` reaches is one
   from which `Launcher`'s results follow, for `Apply` run in the launcher's own
   states.
2. The operators at the edge of the proofs: `Normalize` is idempotent and keeps
   what is requested, `MergeLaunchPolicies` has `ZeroLaunchPolicy` as its unit
   and is associative up to `Normalize`.
3. `InheritedDescriptors`: what exactly a listed number can be with a policy
   file, as the counterpart of finding 2.
