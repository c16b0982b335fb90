------------------------------ MODULE Launcher -----------------------------
(***************************************************************************)
(* A launch from its merged policy to the target (cmd/landrun/main.go:     *)
(* 158-227, internal/exec/executable_linux.go).  The path of the binary is *)
(* resolved by LookPath, by OpenExecutable, by the ELF walk of --ldd, and  *)
(* by the rule --add-exec makes of it; anybody may rename what it names in *)
(* between.                                                                *)
(*                                                                         *)
(* The policy comes from PolicyFile.  sandbox.Apply is the decision of     *)
(* SandboxContract, which SandboxApply implements; the result of --ldd is  *)
(* that of LibraryClosure, which ElfDeps implements; the descriptor table  *)
(* is the subject of InheritedDescriptors and only makes steps fail here.  *)
(***************************************************************************)
EXTENDS LaunchPolicy, SandboxPromise, SequencesExt

CONSTANTS
  Policies,    \* the merged policies
  KernelABIs,  \* ABIs of the running kernels, 0 when the probe fails
  Binary,      \* the path LookPath finds for the command
  Inode,       \* what a path may name
  Missing,     \* what a path names that does not exist
  None,        \* no inode, no path
  Files,       \* what each inode is as a program
  Beneath,     \* the inodes below each inode that is a directory
  Namings,     \* what the paths name at first
  Key, Value,  \* keys and values of environment entries
  Environ,     \* landrun's environment: a value for each key, or Unset
  Unset,
  MaxRelinks   \* bound of the model on renames

ASSUME LaunchAssumption ==
  /\ Binary \in Path
  /\ Missing \notin Inode /\ None \notin Inode \cup Path
  /\ Files \in [Inode -> [kind : {"static", "dynamic", "script", "data"}, readable : BOOLEAN,
                          interp : Path \cup {None}, libs : Seq(Path), resolvable : BOOLEAN]]
  /\ Beneath \in [Inode -> SUBSET Inode]
  /\ Namings \subseteq [Path -> Inode \cup {Missing}]
  /\ KernelABIs \subseteq Nat
  /\ MaxRelinks \in Nat

\* launchPolicy; an entry of env is KEY or KEY=VALUE.
Policy ==
  [sandbox  : Request,
   env      : Seq([key : Key, value : Value \cup {None}]),
   preserve : Seq(Int),
   ldd      : BOOLEAN,
   addExec  : BOOLEAN]

ASSUME PolicyAssumption ==
  /\ None \notin Value
  /\ Environ \in [Key -> Value \cup {Unset}]
  /\ Policies \subseteq Policy

VARIABLES
  pc,          \* the step of Action
  outcome,     \* "running", "failed" (exit status 125), "reported" or "target"
  mode,        \* "probe", "no_command" or "launch"
  asked,       \* the merged policy
  policy,      \* the policy as the helpers extend it
  names,       \* what each path names now
  relinks,     \* renames so far
  executable,  \* the opened inode
  kernelABI, applied, domain, skipped,  \* as in SandboxContract (applied: its outcome)
  bound,       \* what each path named when its rule was made
  envVars,     \* the environment of the target
  target       \* the inode that replaced landrun

Decision == INSTANCE SandboxContract
              WITH request <- policy.sandbox, outcome <- applied

inputs == <<mode, asked, kernelABI>>
sandboxed == <<applied, domain, skipped, bound>>
vars == <<pc, outcome, inputs, policy, names, relinks, executable, sandboxed, envVars, target>>

Steps == {"start", "look", "open", "add_exec", "ldd", "environment", "apply", "prepare", "run", "done"}

Init ==
  /\ pc = "start" /\ outcome = "running"
  /\ mode \in {"probe", "no_command", "launch"}
  /\ asked \in Policies
  /\ policy = asked
  /\ names \in Namings
  /\ relinks = 0
  /\ executable = None
  /\ kernelABI \in KernelABIs
  /\ applied = "running" /\ domain = NoDomain /\ skipped = {}
  /\ bound = names
  /\ envVars = <<>>
  /\ target = None

Step(from, to) ==
  /\ outcome = "running" /\ pc = from
  /\ pc' = to
  /\ UNCHANGED outcome

\* run: any error is exit status 125; the step it happened at is kept.
Fail(from) ==
  /\ outcome = "running" /\ pc = from
  /\ outcome' = "failed"
  /\ UNCHANGED <<pc, inputs, policy, names, relinks, executable, sandboxed, envVars, target>>

-----------------------------------------------------------------------------
(* Steps of Action.                                                        *)

\* --probe fails on a kernel without Landlock.
ReportProbe ==
  /\ outcome = "running" /\ pc = "start" /\ mode = "probe"
  /\ outcome' = IF kernelABI = 0 THEN "failed" ELSE "reported"
  /\ pc' = "done"
  /\ UNCHANGED <<inputs, policy, names, relinks, executable, sandboxed, envVars, target>>

\* No command, an invalid policy file, or a preserved descriptor not open.
RefuseInvocation == mode # "probe" /\ Fail("start")

AcceptInvocation ==
  /\ Step("start", "look")
  /\ mode = "launch"
  /\ UNCHANGED <<inputs, policy, names, relinks, executable, sandboxed, envVars, target>>

\* The permission bits of what the path names.
Executable(inode) == inode \in Inode /\ Files[inode].kind # "data"

\* Mutated form: without a helper the binary is not opened beforehand.
LookPathOnly ==
  /\ Step("look", IF policy.addExec \/ policy.ldd THEN "open" ELSE "add_exec")
  /\ Executable(names[Binary])
  /\ UNCHANGED <<inputs, policy, names, relinks, executable, sandboxed, envVars, target>>

LookPath ==
  /\ Step("look", "open")
  /\ Executable(names[Binary])
  /\ UNCHANGED <<inputs, policy, names, relinks, executable, sandboxed, envVars, target>>

NotFound == ~Executable(names[Binary]) /\ Fail("look")

\* The descriptor is an O_PATH descriptor: it stands for the inode, and its
\* permission bits are not looked at.
OpenExecutable ==
  /\ Step("open", "add_exec")
  /\ names[Binary] # Missing
  /\ executable' = names[Binary]
  /\ UNCHANGED <<inputs, policy, names, relinks, sandboxed, envVars, target>>

NotOpened == Fail("open")  \* gone, or no descriptor left

WithExecutables(paths) ==
  [policy EXCEPT !.sandbox.paths["rox"] = @ \o paths]

\* Mutated form: the rule is added to every policy with --ldd too.
AddExecutableWithLdd ==
  /\ Step("add_exec", "ldd")
  /\ policy' = IF policy.addExec \/ policy.ldd THEN WithExecutables(<<Binary>>) ELSE policy
  /\ UNCHANGED <<inputs, names, relinks, executable, sandboxed, envVars, target>>

\* --add-exec adds the path, not the opened inode.
AddExecutable ==
  /\ Step("add_exec", "ldd")
  /\ policy' = IF policy.addExec THEN WithExecutables(<<Binary>>) ELSE policy
  /\ UNCHANGED <<inputs, names, relinks, executable, sandboxed, envVars, target>>

\* What --ldd finds for an inode: nothing if it cannot be read as ELF.
Libraries(inode) ==
  IF inode \in Inode /\ Files[inode].readable /\ Files[inode].kind = "dynamic"
  THEN Files[inode].libs \o IF Files[inode].interp = None THEN <<>> ELSE <<Files[inode].interp>>
  ELSE <<>>

\* A library that is not found; or an ABI landrun does not know, of a program
\* that needs no library just as well.
LibraryFailure(inode) ==
  /\ inode \in Inode /\ Files[inode].readable
  /\ Files[inode].kind \in {"static", "dynamic"}
  /\ ~Files[inode].resolvable

\* Mutated form: the interpreter is not among the libraries.
AddLibrariesWithoutInterpreter ==
  /\ Step("ldd", "environment")
  /\ policy.ldd => ~LibraryFailure(names[Binary])
  /\ policy' = IF policy.ldd /\ names[Binary] \in Inode
               THEN WithExecutables(Files[names[Binary]].libs) ELSE policy
  /\ UNCHANGED <<inputs, names, relinks, executable, sandboxed, envVars, target>>

AddLibraries ==
  /\ Step("ldd", "environment")
  /\ policy.ldd => ~LibraryFailure(names[Binary])
  /\ policy' = IF policy.ldd THEN WithExecutables(Libraries(names[Binary])) ELSE policy
  /\ UNCHANGED <<inputs, names, relinks, executable, sandboxed, envVars, target>>

LibrariesUnresolved == policy.ldd /\ LibraryFailure(names[Binary]) /\ Fail("ldd")

\* Mutated form: a listed key without a value is passed on as empty.
ProcessEnvironmentVarsKeepUnset(entries) ==
  [i \in DOMAIN entries |->
     <<entries[i].key, IF entries[i].value = None THEN Environ[entries[i].key] ELSE entries[i].value>>]

\* KEY=VALUE is kept; KEY takes landrun's own value, if it has one.
Passed(entry) ==
  IF entry.value # None THEN <<<<entry.key, entry.value>>>>
  ELSE IF Environ[entry.key] = Unset THEN <<>>
  ELSE <<<<entry.key, Environ[entry.key]>>>>

ProcessEnvironmentVars(entries) ==
  FlattenSeq([i \in DOMAIN entries |-> Passed(entries[i])])

SetEnvironment ==
  /\ Step("environment", "apply")
  /\ envVars' = ProcessEnvironmentVars(policy.env)
  /\ UNCHANGED <<inputs, policy, names, relinks, executable, sandboxed, target>>

\* The rules whose path does not exist when the sandbox is built.
MissingRules ==
  {rule \in Requested(policy.sandbox) : rule[1] \in PathClasses /\ names[rule[2]] = Missing}

\* The domain with exactly what the classes promise.
Enforced(missing) ==
  LET handled == Denied(policy.sandbox) \cap Supported(kernelABI)
  IN  [handled |-> handled,
       flags   |-> policy.sandbox.audit,
       grants  |-> {[class |-> rule[1], name |-> rule[2],
                     rights |-> Promised[rule[1]] \cap handled] :
                       rule \in Requested(policy.sandbox) \ missing}]

ApplyRefused ==
  /\ outcome = "running" /\ pc = "apply"
  /\ outcome' = "failed"
  /\ UNCHANGED <<pc, mode, asked, policy, names, relinks, executable, skipped, bound, envVars, target>>
  /\ Decision!Refuse

Apply ==
  /\ Step("apply", "prepare")
  /\ skipped' = MissingRules
  /\ domain' = Enforced(MissingRules)
  /\ bound' = names
  /\ UNCHANGED <<mode, asked, policy, names, relinks, executable, envVars, target>>
  /\ Decision!Confine

PrepareInheritedDescriptors ==
  /\ Step("prepare", "run")
  /\ UNCHANGED <<inputs, policy, names, relinks, executable, sandboxed, envVars, target>>

NotPrepared == Fail("prepare")  \* close_range

-----------------------------------------------------------------------------
(* execveat (external: the kernel and Landlock).                           *)

\* A rule holds for the inode its path named and for all below it.
Covers(path, inode) == inode \in {bound[path]} \cup Beneath[bound[path]]

MayExecute(inode) ==
  "execute" \in domain.handled =>
    \E g \in domain.grants : "execute" \in g.rights /\ Covers(g.name, inode)

\* The kernel runs ELF files it may execute, with an interpreter it may
\* execute.  A script is refused: its interpreter could not open the
\* descriptor, which is closed on exec.
Runs(inode) ==
  /\ Files[inode].kind \in {"static", "dynamic"}
  /\ MayExecute(inode)
  /\ (Files[inode].kind = "dynamic" /\ Files[inode].interp # None) =>
       /\ names[Files[inode].interp] # Missing
       /\ MayExecute(names[Files[inode].interp])

Execute(inode) ==
  /\ outcome = "running" /\ pc = "run"
  /\ IF Runs(inode) THEN outcome' = "target" /\ target' = inode
                    ELSE outcome' = "failed" /\ UNCHANGED target
  /\ UNCHANGED <<pc, inputs, policy, names, relinks, executable, sandboxed, envVars>>

\* Mutated form: the target is executed by its path.
RunFileByPath == names[Binary] \in Inode /\ Execute(names[Binary])

\* Mutated form: a failed exec is tried again.
RunFileRetries ==
  outcome = "running" /\ pc = "run" /\ Runs(executable) /\ Execute(executable)

RunFile == Execute(executable)

-----------------------------------------------------------------------------
LaunchStep ==
  \/ ReportProbe   \/ RefuseInvocation \/ AcceptInvocation
  \/ LookPath      \/ NotFound         \/ OpenExecutable \/ NotOpened
  \/ AddExecutable \/ AddLibraries     \/ LibrariesUnresolved
  \/ SetEnvironment
  \/ ApplyRefused  \/ Apply
  \/ PrepareInheritedDescriptors       \/ NotPrepared
  \/ RunFile

\* Somebody renames, replaces or removes what a path names.
Relink(path, inode) ==
  /\ outcome = "running" /\ relinks < MaxRelinks
  /\ inode # names[path]
  /\ names' = [names EXCEPT ![path] = inode]
  /\ relinks' = relinks + 1
  /\ UNCHANGED <<pc, outcome, inputs, policy, executable, sandboxed, envVars, target>>

Next ==
  \/ LaunchStep
  \/ \E path \in Path, inode \in Inode \cup {Missing} : Relink(path, inode)

\* The launcher is one thread, and none of its steps waits for another.
Spec == Init /\ [][Next]_vars /\ WF_vars(LaunchStep)

-----------------------------------------------------------------------------
(* Properties.                                                             *)

\* One type invariant for the module.
TypeOK ==
  /\ pc \in Steps
  /\ outcome \in {"running", "failed", "reported", "target"}
  /\ asked \in Policies
  /\ names \in [Path -> Inode \cup {Missing}] /\ bound \in [Path -> Inode \cup {Missing}]
  /\ relinks \in 0 .. MaxRelinks
  /\ executable \in Inode \cup {None}
  /\ pc \in Steps \ {"start", "look", "open", "done"} => executable # None
  /\ applied \in {"running", "ok"} \cup Refusals
  /\ (outcome = "target") <=> (target # None)

\* The rules the helpers may add.
HelperRules ==
  {<<"rox", p>> : p \in {Binary} \cap {q \in Path : asked.addExec}}
    \cup {<<"rox", p>> : p \in {q \in Path : asked.ldd /\ \E i \in Inode : q \in Range(Libraries(i))}}

\* A target runs under what was asked for on the command line and in the file:
\* what that denies is denied, each of its rules is in force, and every other
\* rule is one of --add-exec or --ldd; whatever fails or is renamed on the way.
TargetUnderPolicy ==
  outcome = "target" =>
    /\ DeniesByDefault(asked.sandbox, kernelABI, domain)
    /\ EveryRulePresent(asked.sandbox, domain, skipped)
    /\ \A g \in domain.grants :
         <<g.class, g.name>> \in Requested(asked.sandbox) \cup HelperRules

ExecuteRules(request) ==
  {rule \in Requested(request) : rule[1] \in {"rox", "rwx"}}

\* "The resolved command is opened before policy setup and executed by
\* descriptor" (README.md:289): what runs is what was opened; and when only
\* --add-exec permits it, a path replaced between the open and the sandbox
\* makes the launch fail, unless a directory with the opened file took its
\* place.
RunsTheOpenedFile ==
  outcome = "target" =>
    /\ target = executable
    /\ (/\ "execute" \in domain.handled
        /\ asked.addExec /\ ~asked.ldd
        /\ ExecuteRules(asked.sandbox) = {}) => Covers(Binary, target)

\* --add-exec and --ldd are enough: on a quiet filesystem the target fails to
\* execute only as a script, or when --ldd could not read it.
DeniedForReason ==
  (outcome = "failed" /\ pc = "run" /\ relinks = 0 /\ asked.addExec /\ asked.ldd) =>
    \/ Files[executable].kind = "script"
    \/ ~Files[executable].readable
    \/ asked.sandbox.ignoreMissing /\ skipped # {}

\* The target's environment is what is listed and nothing else: an entry with a
\* value as it stands, a bare key with landrun's own value, and no entry for a
\* bare key that landrun does not have, however often a key is listed.
EnvironmentIsListed ==
  outcome = "target" =>
    Range(envVars) =
      {<<e.key, e.value>> : e \in {f \in Range(asked.env) : f.value # None}}
        \cup {<<e.key, Environ[e.key]>> :
                e \in {f \in Range(asked.env) : f.value = None /\ Environ[f.key] # Unset}}

\* Every launch ends: landrun becomes the target or exits.
Ends == <>(outcome # "running")
=============================================================================
