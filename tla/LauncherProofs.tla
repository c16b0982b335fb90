--------------------------- MODULE LauncherProofs --------------------------
(***************************************************************************)
(* Proofs about Launcher, for every set of policies, programs, directories *)
(* and kernels, and any number of renames on the way.                      *)
(***************************************************************************)
EXTENDS Launcher, SandboxFacts, TLAPS

-----------------------------------------------------------------------------
(* Why the target is confined as asked: what each step has established.    *)

\* The policy is the one asked for with rules of the helpers.
PolicyInv ==
  /\ policy \in Policy
  /\ policy.ldd = asked.ldd /\ policy.addExec = asked.addExec
  /\ policy.sandbox.unrestricted = asked.sandbox.unrestricted
  /\ policy.sandbox.bestEffort = asked.sandbox.bestEffort
  /\ policy.sandbox.ignoreMissing = asked.sandbox.ignoreMissing
  /\ policy.sandbox.audit = asked.sandbox.audit
  /\ Requested(asked.sandbox) \subseteq Requested(policy.sandbox)
  /\ Requested(policy.sandbox) \subseteq Requested(asked.sandbox) \cup HelperRules

\* Each helper has added its rules; those of --ldd are for what the binary was
\* then.
HelperInv ==
  /\ (asked.addExec /\ pc \in {"ldd", "environment", "apply", "prepare", "run"}) =>
       <<"rox", Binary>> \in Requested(policy.sandbox)
  /\ (asked.ldd /\ relinks = 0 /\ pc \in {"environment", "apply", "prepare", "run"}) =>
       \A p \in Range(Libraries(names[Binary])) : <<"rox", p>> \in Requested(policy.sandbox)

\* Without a rename every step sees the same files.
QuietInv ==
  relinks = 0 =>
    /\ bound = names
    /\ pc \in Steps \ {"start", "look", "done"} => Executable(names[Binary])
    /\ executable \in {None, names[Binary]}

DomainInv ==
  pc \in {"prepare", "run"} =>
    /\ Acceptable(policy.sandbox, kernelABI, domain, skipped)
    /\ \A rule \in Requested(policy.sandbox) \ skipped :
         rule[1] \in PathClasses => bound[rule[2]] # Missing

OutcomeInv ==
  /\ outcome = "target" => pc = "run" /\ target = executable /\ MayExecute(target)
  /\ (outcome = "failed" /\ pc = "run") => ~Runs(executable)

IInv == TypeOK /\ PolicyInv /\ HelperInv /\ QuietInv /\ DomainInv /\ OutcomeInv

-----------------------------------------------------------------------------
(* The decision of the sandbox, in the vocabulary of the launcher.         *)

LEMMA DecisionVocabulary ==
  /\ Decision!PathClasses = PathClasses
  /\ Decision!PortClasses = PortClasses
  /\ Decision!AuditFlags = AuditFlags
  /\ Decision!FullFSAccess = FullFSAccess
  /\ Decision!FullNetAccess = FullNetAccess
  /\ Decision!FullScoped = FullScoped
  /\ Decision!Rights = Rights
BY DEF Decision!PathClasses, PathClasses, Decision!PortClasses, PortClasses,
       Decision!AuditFlags, AuditFlags, Decision!FullFSAccess, FullFSAccess,
       Decision!MakeRights, MakeRights, Decision!FullNetAccess, FullNetAccess,
       Decision!FullScoped, FullScoped, Decision!Rights, Rights

LEMMA DecisionMeaning ==
  /\ Decision!Introduced = Introduced
  /\ Decision!Promised = Promised
  /\ Decision!Withheld = Withheld
  /\ \A req : Decision!Denied(req) = Denied(req)
  /\ \A req : Decision!Requested(req) = Requested(req)
  /\ \A abi : Decision!Supported(abi) = Supported(abi)
  /\ Decision!Refusals = Refusals
<1> USE DecisionVocabulary
<1>1. Decision!Introduced = Introduced
  BY DEF Decision!Introduced, Introduced
<1>2. Decision!Promised = Promised
  BY DEF Decision!Promised, Promised
<1>3. Decision!Withheld = Withheld
  BY DEF Decision!Withheld, Withheld
<1>4. \A req : Decision!Denied(req) = Denied(req)
  BY DEF Decision!Denied, Denied
<1>5. \A req : Decision!Requested(req) = Requested(req)
  BY DEF Decision!Requested, Requested, Decision!Range, Range
<1>6. \A abi : Decision!Supported(abi) = Supported(abi)
  BY <1>1 DEF Decision!Supported, Supported
<1>7. Decision!Refusals = Refusals
  BY DEF Decision!Refusals, Refusals
<1> QED
  BY <1>1, <1>2, <1>3, <1>4, <1>5, <1>6, <1>7

LEMMA DecisionAcceptable ==
  ASSUME NEW req, NEW abi, NEW d, NEW skips
  PROVE  Decision!Acceptable(req, abi, d, skips) <=> Acceptable(req, abi, d, skips)
BY DecisionMeaning
DEF Decision!Acceptable, Acceptable, Decision!DeniesByDefault, DeniesByDefault,
    Decision!EveryRulePresent, EveryRulePresent,
    Decision!NoExcessAuthority, NoExcessAuthority

-----------------------------------------------------------------------------
(* The helpers.                                                            *)

\* What --ldd finds for a file is a list of paths.
LEMMA LibrariesType ==
  ASSUME NEW inode
  PROVE  Libraries(inode) \in Seq(Path)
<1>1. CASE inode \in Inode /\ Files[inode].readable /\ Files[inode].kind = "dynamic"
  <2>1. Files[inode].libs \in Seq(Path) /\ Files[inode].interp \in Path \cup {None}
    BY <1>1, LaunchAssumption
  <2>2. (IF Files[inode].interp = None THEN <<>> ELSE <<Files[inode].interp>>) \in Seq(Path)
    BY <2>1
  <2>3. Files[inode].libs \o (IF Files[inode].interp = None THEN <<>> ELSE <<Files[inode].interp>>)
          \in Seq(Path)
    BY <2>1, <2>2, RangeConcat
  <2> QED
    BY <1>1, <2>3 DEF Libraries
<1>2. CASE ~(inode \in Inode /\ Files[inode].readable /\ Files[inode].kind = "dynamic")
  BY <1>2 DEF Libraries
<1> QED
  BY <1>1, <1>2

\* The interpreter of a file --ldd can read is among its libraries.
LEMMA InterpreterAmongLibraries ==
  ASSUME NEW inode \in Inode, Files[inode].readable, Files[inode].kind = "dynamic",
         Files[inode].interp # None
  PROVE  Files[inode].interp \in Range(Libraries(inode))
<1> DEFINE libs == Files[inode].libs
           last == <<Files[inode].interp>>
<1>1. libs \in Seq(Path) /\ Files[inode].interp \in Path
  BY LaunchAssumption
<1>2. last \in Seq(Path) /\ Files[inode].interp \in Range(last)
  BY <1>1 DEF Range
<1>3. Libraries(inode) = libs \o last
  BY DEF Libraries
<1> HIDE DEF libs, last
<1>4. Range(libs \o last) = Range(libs) \cup Range(last)
  BY <1>1, <1>2, RangeConcat
<1> QED
  BY <1>2, <1>3, <1>4

\* Rules the helpers may add extend the policy, and nothing else changes.
LEMMA HelperExtends ==
  ASSUME PolicyInv, NEW paths \in Seq(Path),
         \A p \in Range(paths) : <<"rox", p>> \in HelperRules,
         policy' = WithExecutables(paths), UNCHANGED asked
  PROVE  /\ PolicyInv'
         /\ Requested(policy'.sandbox) =
              Requested(policy.sandbox) \cup {<<"rox", p>> : p \in Range(paths)}
<1> DEFINE more == [policy.sandbox EXCEPT !.paths["rox"] = @ \o paths]
<1>1. policy.sandbox \in Request
  BY DEF PolicyInv, Policy
<1>2. /\ more \in Request
      /\ more.unrestricted = policy.sandbox.unrestricted
      /\ more.bestEffort = policy.sandbox.bestEffort
      /\ more.ignoreMissing = policy.sandbox.ignoreMissing
      /\ more.audit = policy.sandbox.audit
      /\ Requested(more) = Requested(policy.sandbox) \cup {<<"rox", p>> : p \in Range(paths)}
  BY <1>1, RequestedExtended
<1>3. policy' = [policy EXCEPT !.sandbox = more]
  BY DEF WithExecutables
<1> HIDE DEF more
<1>4. /\ policy'.sandbox = more /\ policy' \in Policy
      /\ policy'.ldd = policy.ldd /\ policy'.addExec = policy.addExec
  BY <1>2, <1>3 DEF PolicyInv, Policy
<1>5. HelperRules' = HelperRules
  BY DEF HelperRules
<1> QED
  BY <1>2, <1>4, <1>5 DEF PolicyInv

-----------------------------------------------------------------------------
(* The invariant is inductive.                                             *)

LEMMA InitIInv == Init => IInv
<1> SUFFICES ASSUME Init
             PROVE  IInv
  OBVIOUS
<1>1. TypeOK
  BY LaunchAssumption DEF Init, TypeOK, Steps
<1>2. PolicyInv
  BY PolicyAssumption DEF Init, PolicyInv
<1>3. HelperInv /\ QuietInv /\ DomainInv /\ OutcomeInv
  BY DEF Init, HelperInv, QuietInv, DomainInv, OutcomeInv
<1> QED
  BY <1>1, <1>2, <1>3 DEF IInv

\* A step of the launch that changes neither the policy nor the domain.
LEMMA PlainStep ==
  ASSUME IInv, UNCHANGED <<inputs, policy, names, relinks, sandboxed, target>>,
         TypeOK', outcome' # "target", ~(outcome' = "failed" /\ pc' = "run"),
         pc' = pc \/ /\ pc' \in {"look", "open", "add_exec", "done", "apply", "run"}
                     /\ pc' = "open" => Executable(names[Binary])
                     /\ pc' = "add_exec" => pc = "open"
                     /\ pc' = "apply" => pc = "environment"
                     /\ pc' = "run" => pc = "prepare",
         executable' \in {executable, names[Binary]}
  PROVE  IInv'
<1> USE DEF inputs, sandboxed
<1>1. PolicyInv'
  BY DEF IInv, PolicyInv, HelperRules
<1>2. HelperInv'
  BY DEF IInv, HelperInv
<1>3. QuietInv'
  BY DEF IInv, QuietInv, TypeOK, Steps
<1>4. DomainInv'
  BY DEF IInv, DomainInv
<1>5. OutcomeInv'
  BY DEF OutcomeInv
<1> QED
  BY <1>1, <1>2, <1>3, <1>4, <1>5 DEF IInv

\* The steps of the helpers.
LEMMA HelperStep ==
  ASSUME IInv, NEW paths \in Seq(Path),
         \A p \in Range(paths) : <<"rox", p>> \in HelperRules,
         policy' = policy \/ policy' = WithExecutables(paths),
         UNCHANGED <<outcome, inputs, names, relinks, executable, sandboxed, envVars, target>>,
         outcome = "running",
         \/ /\ pc = "add_exec" /\ pc' = "ldd"
            /\ asked.addExec => paths = <<Binary>> /\ policy' = WithExecutables(paths)
         \/ /\ pc = "ldd" /\ pc' = "environment"
            /\ asked.ldd => paths = Libraries(names[Binary]) /\ policy' = WithExecutables(paths)
  PROVE  IInv'
<1> USE DEF inputs, sandboxed
<1>1. TypeOK'
  BY DEF IInv, TypeOK, Steps
<1>2. /\ PolicyInv'
      /\ Requested(policy.sandbox) \subseteq Requested(policy'.sandbox)
      /\ policy' = WithExecutables(paths) =>
           \A p \in Range(paths) : <<"rox", p>> \in Requested(policy'.sandbox)
  <2>1. CASE policy' = policy
    <3>1. PolicyInv'
      BY <2>1 DEF IInv, PolicyInv, HelperRules
    <3>2. policy' = WithExecutables(paths) =>
            \A p \in Range(paths) : <<"rox", p>> \in Requested(policy'.sandbox)
      BY HelperExtends DEF IInv
    <3> QED
      BY <2>1, <3>1, <3>2
  <2>2. CASE policy' = WithExecutables(paths)
    BY <2>2, HelperExtends DEF IInv
  <2> QED
    BY <2>1, <2>2
<1>3. HelperInv'
  <2>1. CASE pc = "add_exec"
    <3>1. Binary \in Range(<<Binary>>)
      BY DEF Range
    <3> QED
      BY <1>2, <2>1, <3>1 DEF HelperInv
  <2>2. CASE pc = "ldd"
    BY <1>2, <2>2 DEF IInv, HelperInv
  <2> QED
    BY <2>1, <2>2
<1>4. QuietInv' /\ DomainInv' /\ OutcomeInv'
  BY DEF IInv, QuietInv, DomainInv, OutcomeInv, Steps
<1> QED
  BY <1>1, <1>2, <1>3, <1>4 DEF IInv

\* The sandbox: an acceptable domain, or no target.
LEMMA ApplyIInv ==
  ASSUME IInv, Apply
  PROVE  IInv'
<1> USE DEF inputs, sandboxed, Step
<1>0. /\ outcome = "running" /\ pc = "apply" /\ pc' = "prepare"
      /\ bound' = names /\ skipped' = MissingRules /\ applied' = "ok"
      /\ UNCHANGED <<mode, asked, policy, names, relinks, executable, envVars, target, outcome, kernelABI>>
  BY DEF Apply, Decision!Confine
<1>1. TypeOK'
  BY <1>0 DEF IInv, TypeOK, Steps
<1>2. PolicyInv'
  BY <1>0 DEF IInv, PolicyInv, HelperRules
<1>3. HelperInv' /\ QuietInv' /\ OutcomeInv'
  BY <1>0 DEF IInv, HelperInv, QuietInv, OutcomeInv, Steps
<1>4. DomainInv'
  <2>1. Acceptable(policy.sandbox, kernelABI, domain', skipped')
    BY DecisionAcceptable DEF Apply, Decision!Confine
  <2>2. \A rule \in Requested(policy.sandbox) \ skipped' :
          rule[1] \in PathClasses => bound'[rule[2]] # Missing
    BY <1>0 DEF MissingRules
  <2> QED
    BY <1>0, <2>1, <2>2 DEF DomainInv
<1> QED
  BY <1>1, <1>2, <1>3, <1>4 DEF IInv

LEMMA RelinkIInv ==
  ASSUME IInv, NEW path \in Path, NEW inode \in Inode \cup {Missing}, Relink(path, inode)
  PROVE  IInv'
<1> USE DEF inputs, sandboxed
<1>0. relinks \in Nat /\ relinks < MaxRelinks /\ relinks' = relinks + 1
  BY LaunchAssumption DEF IInv, TypeOK, Relink
<1>1. TypeOK'
  BY <1>0, LaunchAssumption DEF IInv, TypeOK, Relink
<1>2. PolicyInv'
  BY DEF Relink, IInv, PolicyInv, HelperRules
<1>3. HelperInv' /\ QuietInv'
  BY <1>0 DEF Relink, IInv, HelperInv, QuietInv
<1>4. DomainInv' /\ OutcomeInv'
  BY DEF Relink, IInv, DomainInv, OutcomeInv
<1> QED
  BY <1>1, <1>2, <1>3, <1>4 DEF IInv

LEMMA RunIInv ==
  ASSUME IInv, RunFile
  PROVE  IInv'
<1> USE DEF inputs, sandboxed
<1>0. /\ outcome = "running" /\ pc = "run" /\ pc' = "run"
      /\ executable \in Inode /\ None \notin Inode
      /\ UNCHANGED <<inputs, policy, names, relinks, executable, sandboxed, envVars>>
  BY LaunchAssumption DEF RunFile, Execute, IInv, TypeOK, Steps
<1>1. \/ /\ Runs(executable) /\ outcome' = "target" /\ target' = executable
      \/ /\ ~Runs(executable) /\ outcome' = "failed" /\ target' = target
  BY DEF RunFile, Execute
<1>2. TypeOK'
  BY <1>0, <1>1 DEF IInv, TypeOK
<1>3. PolicyInv'
  BY <1>0 DEF IInv, PolicyInv, HelperRules
<1>4. HelperInv' /\ QuietInv' /\ DomainInv'
  BY <1>0 DEF IInv, HelperInv, QuietInv, DomainInv
<1>5. OutcomeInv'
  BY <1>0, <1>1 DEF OutcomeInv, Runs, MayExecute, Covers
<1> QED
  BY <1>2, <1>3, <1>4, <1>5 DEF IInv

LEMMA NextIInv == IInv /\ [Next]_vars => IInv'
<1> SUFFICES ASSUME IInv, [Next]_vars
             PROVE  IInv'
  OBVIOUS
<1> USE DEF Step, Fail, inputs, sandboxed
<1>0. TypeOK /\ PolicyInv
  BY DEF IInv
<1>1. CASE ReportProbe
  BY <1>0, <1>1, PlainStep DEF ReportProbe, TypeOK, Steps
<1>2. CASE RefuseInvocation
  BY <1>0, <1>2, PlainStep DEF RefuseInvocation, TypeOK, Steps
<1>3. CASE AcceptInvocation
  BY <1>0, <1>3, PlainStep DEF AcceptInvocation, TypeOK, Steps
<1>4. CASE LookPath
  BY <1>0, <1>4, PlainStep DEF LookPath, TypeOK, Steps
<1>5. CASE NotFound
  BY <1>0, <1>5, PlainStep DEF NotFound, TypeOK, Steps
<1>6. CASE OpenExecutable
  <2>1. names[Binary] \in Inode /\ None \notin Inode
    BY <1>0, <1>6, LaunchAssumption DEF OpenExecutable, TypeOK
  <2>2. TypeOK'
    BY <1>0, <1>6, <2>1 DEF OpenExecutable, TypeOK, Steps
  <2> QED
    BY <1>6, <2>2, PlainStep DEF OpenExecutable
<1>7. CASE NotOpened
  BY <1>0, <1>7, PlainStep DEF NotOpened, TypeOK, Steps
<1>8. CASE AddExecutable
  <2>1. CASE asked.addExec
    <3>1. <<Binary>> \in Seq(Path) /\ \A p \in Range(<<Binary>>) : p = Binary
      BY LaunchAssumption DEF Range
    <3>2. <<"rox", Binary>> \in HelperRules
      BY <2>1, LaunchAssumption DEF HelperRules
    <3>3. policy' = WithExecutables(<<Binary>>)
      BY <1>0, <1>8, <2>1 DEF AddExecutable, PolicyInv
    <3> QED
      BY <1>8, <3>1, <3>2, <3>3, HelperStep DEF AddExecutable
  <2>2. CASE ~asked.addExec
    <3>1. policy' = policy
      BY <1>0, <1>8, <2>2 DEF AddExecutable, PolicyInv
    <3>2. <<>> \in Seq(Path) /\ Range(<<>>) = {}
      BY DEF Range
    <3> QED
      BY <1>8, <2>2, <3>1, <3>2, HelperStep DEF AddExecutable
  <2> QED
    BY <2>1, <2>2
<1>9. CASE AddLibraries
  <2>1. CASE asked.ldd
    <3>1. Libraries(names[Binary]) \in Seq(Path)
      BY LibrariesType
    <3>2. ASSUME NEW p \in Range(Libraries(names[Binary]))
          PROVE  <<"rox", p>> \in HelperRules
      <4>1. p \in Path
        BY <3>1, <3>2 DEF Range
      <4>2. names[Binary] \in Inode
        <5>1. names[Binary] \notin Inode => Libraries(names[Binary]) = <<>>
          BY DEF Libraries
        <5>2. Range(<<>>) = {}
          BY DEF Range
        <5> QED
          BY <3>2, <5>1, <5>2
      <4> QED
        BY <2>1, <3>2, <4>1, <4>2 DEF HelperRules
    <3>3. policy' = WithExecutables(Libraries(names[Binary]))
      BY <1>0, <1>9, <2>1 DEF AddLibraries, PolicyInv
    <3> QED
      BY <1>9, <3>1, <3>2, <3>3, HelperStep DEF AddLibraries
  <2>2. CASE ~asked.ldd
    <3>1. policy' = policy
      BY <1>0, <1>9, <2>2 DEF AddLibraries, PolicyInv
    <3>2. <<>> \in Seq(Path) /\ Range(<<>>) = {}
      BY DEF Range
    <3> QED
      BY <1>9, <2>2, <3>1, <3>2, HelperStep DEF AddLibraries
  <2> QED
    BY <2>1, <2>2
<1>10. CASE LibrariesUnresolved
  BY <1>0, <1>10, PlainStep DEF LibrariesUnresolved, TypeOK, Steps
<1>11. CASE SetEnvironment
  BY <1>0, <1>11, PlainStep DEF SetEnvironment, TypeOK, Steps
<1>12. CASE ApplyRefused
  <2>1. applied' \in Refusals /\ UNCHANGED <<kernelABI, domain>>
    BY <1>12, DecisionMeaning DEF ApplyRefused, Decision!Refuse
  <2>2. TypeOK'
    BY <1>0, <1>12, <2>1 DEF ApplyRefused, TypeOK
  <2>3. PolicyInv'
    BY <1>0, <1>12 DEF ApplyRefused, PolicyInv, HelperRules
  <2>4. HelperInv' /\ QuietInv' /\ DomainInv' /\ OutcomeInv'
    BY <1>12, <2>1 DEF ApplyRefused, IInv, HelperInv, QuietInv, DomainInv, OutcomeInv
  <2> QED
    BY <2>2, <2>3, <2>4 DEF IInv
<1>13. CASE Apply
  BY <1>13, ApplyIInv
<1>14. CASE PrepareInheritedDescriptors
  BY <1>0, <1>14, PlainStep DEF PrepareInheritedDescriptors, TypeOK, Steps
<1>15. CASE NotPrepared
  BY <1>0, <1>15, PlainStep DEF NotPrepared, TypeOK, Steps
<1>16. CASE RunFile
  BY <1>16, RunIInv
<1>17. CASE \E path \in Path, inode \in Inode \cup {Missing} : Relink(path, inode)
  BY <1>17, RelinkIInv
<1>18. CASE UNCHANGED vars
  <2>1. TypeOK' /\ PolicyInv'
    BY <1>0, <1>18 DEF vars, TypeOK, PolicyInv, HelperRules
  <2>2. HelperInv' /\ QuietInv' /\ DomainInv'
    BY <1>18 DEF vars, IInv, HelperInv, QuietInv, DomainInv
  <2>3. OutcomeInv'
    BY <1>18 DEF vars, IInv, OutcomeInv, Runs, MayExecute, Covers
  <2> QED
    BY <2>1, <2>2, <2>3 DEF IInv
<1> QED
  BY <1>1, <1>2, <1>3, <1>4, <1>5, <1>6, <1>7, <1>8, <1>9, <1>10, <1>11, <1>12, <1>13,
     <1>14, <1>15, <1>16, <1>17, <1>18 DEF Next, LaunchStep

\* Every reachable state of a launch satisfies the invariant.
THEOREM InductiveInvariant == Spec => []IInv
BY InitIInv, NextIInv, PTL DEF Spec

-----------------------------------------------------------------------------
(* What follows from it.                                                   *)

\* Each variable of a launch stays in its type, and there is a target exactly
\* when landrun has become one.
THEOREM TypeCorrect == Spec => []TypeOK
<1>1. IInv => TypeOK
  BY DEF IInv
<1> QED
  BY <1>1, InductiveInvariant, PTL

\* A target runs under what was asked for and the rules of the helpers only.
THEOREM TargetUnderPolicyCorrect == Spec => []TargetUnderPolicy
<1>1. IInv => TargetUnderPolicy
  <2> SUFFICES ASSUME IInv, outcome = "target"
               PROVE  /\ DeniesByDefault(asked.sandbox, kernelABI, domain)
                      /\ EveryRulePresent(asked.sandbox, domain, skipped)
                      /\ \A g \in domain.grants :
                           <<g.class, g.name>> \in Requested(asked.sandbox) \cup HelperRules
    BY DEF TargetUnderPolicy
  <2>1. Acceptable(policy.sandbox, kernelABI, domain, skipped)
    BY DEF IInv, OutcomeInv, DomainInv
  <2>2. PolicyInv
    BY DEF IInv
  <2>3. Denied(asked.sandbox) = Denied(policy.sandbox)
    BY <2>2 DEF PolicyInv, Denied
  <2>4. DeniesByDefault(asked.sandbox, kernelABI, domain)
    BY <2>1, <2>2, <2>3 DEF Acceptable, DeniesByDefault, PolicyInv
  <2>5. EveryRulePresent(asked.sandbox, domain, skipped)
    BY <2>1, <2>2 DEF Acceptable, EveryRulePresent, PolicyInv
  <2>6. \A g \in domain.grants : <<g.class, g.name>> \in Requested(asked.sandbox) \cup HelperRules
    BY <2>1, <2>2 DEF Acceptable, NoExcessAuthority, PolicyInv
  <2> QED
    BY <2>4, <2>5, <2>6
<1> QED
  BY <1>1, InductiveInvariant, PTL

\* A rule that lets something execute is of a class that asks for it.
LEMMA ExecuteGrant ==
  ASSUME NEW req \in Request, NEW d, NoExcessAuthority(req, d),
         NEW g \in d.grants, "execute" \in g.rights
  PROVE  <<g.class, g.name>> \in ExecuteRules(req)
<1>1. <<g.class, g.name>> \in Requested(req) /\ "execute" \notin Withheld[g.class]
  BY DEF NoExcessAuthority
<1>2. g.class \in PathClasses \cup PortClasses
  BY <1>1, RequestedRule
<1>3. "execute" \in Rights
  BY DEF Rights, FullFSAccess
<1>4. g.class \in {"rox", "rwx"}
  BY <1>1, <1>2, <1>3 DEF Withheld, PathClasses, PortClasses
<1> QED
  BY <1>1, <1>4 DEF ExecuteRules

\* What runs is what was opened; when only --add-exec permits it, its path
\* named it, or a directory that has it, when the sandbox was built.
THEOREM RunsTheOpenedFileCorrect == Spec => []RunsTheOpenedFile
<1>1. IInv => RunsTheOpenedFile
  <2> SUFFICES ASSUME IInv, outcome = "target"
               PROVE  /\ target = executable
                      /\ (/\ "execute" \in domain.handled
                          /\ asked.addExec /\ ~asked.ldd
                          /\ ExecuteRules(asked.sandbox) = {}) => Covers(Binary, target)
    BY DEF RunsTheOpenedFile
  <2>1. target = executable /\ MayExecute(target) /\ pc = "run"
    BY DEF IInv, OutcomeInv
  <2>2. ASSUME "execute" \in domain.handled, ~asked.ldd, ExecuteRules(asked.sandbox) = {}
        PROVE  Covers(Binary, target)
    <3>1. PICK g \in domain.grants : "execute" \in g.rights /\ Covers(g.name, target)
      BY <2>1, <2>2 DEF MayExecute
    <3>2. policy.sandbox \in Request /\ NoExcessAuthority(policy.sandbox, domain)
      BY <2>1 DEF IInv, PolicyInv, Policy, DomainInv, Acceptable
    <3>3. <<g.class, g.name>> \in ExecuteRules(policy.sandbox)
      BY <3>1, <3>2, ExecuteGrant
    <3>4. <<g.class, g.name>> \in HelperRules
      BY <2>2, <3>3 DEF IInv, PolicyInv, ExecuteRules
    <3>5. g.name = Binary
      BY <2>2, <3>4 DEF HelperRules
    <3> QED
      BY <3>1, <3>5
  <2> QED
    BY <2>1, <2>2
<1> QED
  BY <1>1, InductiveInvariant, PTL

\* The rule of a helper lets what its path names execute.
LEMMA HelperRuleExecutes ==
  ASSUME IInv, pc = "run", relinks = 0, skipped = {},
         NEW p, <<"rox", p>> \in Requested(policy.sandbox)
  PROVE  names[p] # Missing /\ MayExecute(names[p])
<1>1. bound = names
  BY DEF IInv, QuietInv
<1>2. bound[p] # Missing
  BY DEF IInv, DomainInv, PathClasses
<1>3. PICK g \in domain.grants : g.class = "rox" /\ g.name = p /\ Promised["rox"] \subseteq g.rights
  BY DEF IInv, DomainInv, Acceptable, EveryRulePresent
<1>4. "execute" \in Promised["rox"]
  BY DEF Promised, PathClasses
<1> QED
  BY <1>1, <1>2, <1>3, <1>4 DEF MayExecute, Covers

\* With both helpers and a quiet filesystem, what fails to execute is a script
\* or could not be read, unless a missing rule was ignored.
THEOREM DeniedForReasonCorrect == Spec => []DeniedForReason
<1>1. IInv => DeniedForReason
  <2> SUFFICES ASSUME IInv, outcome = "failed", pc = "run", relinks = 0,
                      asked.addExec, asked.ldd,
                      Files[executable].kind # "script", Files[executable].readable,
                      ~(asked.sandbox.ignoreMissing /\ skipped # {})
               PROVE  FALSE
    BY DEF DeniedForReason
  <2>1. skipped = {}
    BY DEF IInv, PolicyInv, DomainInv, Acceptable, EveryRulePresent
  <2>2. executable = names[Binary] /\ executable \in Inode /\ Files[executable].kind # "data"
    BY DEF IInv, QuietInv, TypeOK, Steps, Executable
  <2>3. Files[executable].kind \in {"static", "dynamic"}
    BY <2>2, LaunchAssumption
  <2>4. MayExecute(executable)
    <3>1. <<"rox", Binary>> \in Requested(policy.sandbox)
      BY DEF IInv, HelperInv
    <3> QED
      BY <2>1, <2>2, <3>1, HelperRuleExecutes
  <2>5. ASSUME Files[executable].kind = "dynamic", Files[executable].interp # None
        PROVE  /\ names[Files[executable].interp] # Missing
               /\ MayExecute(names[Files[executable].interp])
    <3>1. Files[executable].interp \in Range(Libraries(executable))
      BY <2>2, <2>5, InterpreterAmongLibraries
    <3>2. <<"rox", Files[executable].interp>> \in Requested(policy.sandbox)
      BY <2>2, <3>1 DEF IInv, HelperInv
    <3> QED
      BY <2>1, <3>2, HelperRuleExecutes
  <2>6. Runs(executable)
    BY <2>3, <2>4, <2>5 DEF Runs
  <2> QED
    BY <2>6 DEF IInv, OutcomeInv
<1> QED
  BY <1>1, InductiveInvariant, PTL

-----------------------------------------------------------------------------
(* The environment.                                                        *)

\* The environment built from a list of entries has what each entry stands
\* for and nothing else.
LEMMA ProcessedEntries ==
  ASSUME NEW entries \in Seq([key : Key, value : Value \cup {None}])
  PROVE  Range(ProcessEnvironmentVars(entries)) =
           UNION {Range(Passed(entries[n])) : n \in 1 .. Len(entries)}
<1> DEFINE lists == [i \in DOMAIN entries |-> Passed(entries[i])]
           S == Key \X (Value \cup {Unset})
<1>1. ASSUME NEW n \in DOMAIN entries
      PROVE  Passed(entries[n]) \in Seq(S)
  <2>1. entries[n] \in [key : Key, value : Value \cup {None}]
    <3>1. \A T : \A s \in Seq(T) : \A i \in DOMAIN s : s[i] \in T
      OBVIOUS
    <3> QED
      BY <3>1, Zenon
  <2>2. /\ entries[n].key \in Key
        /\ entries[n].value # None => entries[n].value \in Value
        /\ Environ[entries[n].key] \in Value \cup {Unset}
    BY <2>1, PolicyAssumption
  <2>3. /\ entries[n].value # None => <<entries[n].key, entries[n].value>> \in S
        /\ <<entries[n].key, Environ[entries[n].key]>> \in S
    BY <2>2
  <2> HIDE DEF S
  <2>4. <<>> \in Seq(S) /\ \A x \in S : <<x>> \in Seq(S)
    OBVIOUS
  <2> QED
    BY <2>3, <2>4 DEF Passed
<1> HIDE DEF S
<1>2. Len(entries) \in Nat /\ DOMAIN entries = 1 .. Len(entries)
  OBVIOUS
<1>3. /\ lists \in Seq(Seq(S))
      /\ Len(lists) = Len(entries)
      /\ \A n \in 1 .. Len(entries) : lists[n] = Passed(entries[n])
  BY <1>1, <1>2
<1> HIDE DEF lists
<1>4. Range(FlattenSeq(lists)) = UNION {Range(lists[n]) : n \in 1 .. Len(lists)}
  BY <1>3, FlattenRange
<1>5. UNION {Range(lists[n]) : n \in 1 .. Len(lists)} =
        UNION {Range(Passed(entries[n])) : n \in 1 .. Len(entries)}
  BY <1>3
<1> QED
  BY <1>4, <1>5 DEF ProcessEnvironmentVars, lists

\* The list of entries is never touched, and it is what the environment is
\* built from.
EnvironmentInv ==
  /\ policy.env = asked.env
  /\ pc \in {"apply", "prepare", "run"} => envVars = ProcessEnvironmentVars(asked.env)

LEMMA EnvironmentNext ==
  ASSUME IInv, EnvironmentInv, [Next]_vars
  PROVE  EnvironmentInv'
<1> USE DEF Step, Fail, inputs, sandboxed
<1>1. policy \in Policy
  BY DEF IInv, PolicyInv
<1>2. \A paths : WithExecutables(paths).env = policy.env
  BY <1>1 DEF WithExecutables, Policy
<1>3. CASE UNCHANGED <<policy, asked>> /\ pc' = pc /\ UNCHANGED envVars
  BY <1>3 DEF EnvironmentInv
<1>4. CASE RefuseInvocation \/ NotFound \/ NotOpened \/ LibrariesUnresolved \/ NotPrepared
  BY <1>3, <1>4 DEF RefuseInvocation, NotFound, NotOpened, LibrariesUnresolved, NotPrepared
<1>5. CASE ReportProbe \/ AcceptInvocation \/ LookPath \/ OpenExecutable
  BY <1>5 DEF ReportProbe, AcceptInvocation, LookPath, OpenExecutable, EnvironmentInv
<1>6. CASE AddExecutable
  BY <1>2, <1>6 DEF AddExecutable, EnvironmentInv
<1>7. CASE AddLibraries
  BY <1>2, <1>7 DEF AddLibraries, EnvironmentInv
<1>8. CASE SetEnvironment
  BY <1>8 DEF SetEnvironment, EnvironmentInv
<1>9. CASE Apply \/ PrepareInheritedDescriptors
  BY <1>9 DEF Apply, PrepareInheritedDescriptors, EnvironmentInv
<1>10. CASE ApplyRefused
  BY <1>3, <1>10 DEF ApplyRefused
<1>11. CASE RunFile
  BY <1>3, <1>11 DEF RunFile, Execute
<1>12. CASE \E path \in Path, inode \in Inode \cup {Missing} : Relink(path, inode)
  BY <1>3, <1>12 DEF Relink
<1>13. CASE UNCHANGED vars
  BY <1>3, <1>13 DEF vars
<1> QED
  BY <1>4, <1>5, <1>6, <1>7, <1>8, <1>9, <1>10, <1>11, <1>12, <1>13 DEF Next, LaunchStep

\* The target's environment is what is listed and nothing else.
THEOREM EnvironmentIsListedCorrect == Spec => []EnvironmentIsListed
<1>1. Init => EnvironmentInv
  BY DEF Init, EnvironmentInv
<1>2. IInv /\ EnvironmentInv /\ [Next]_vars => EnvironmentInv'
  BY EnvironmentNext
<1>3. IInv /\ EnvironmentInv => EnvironmentIsListed
  <2> SUFFICES ASSUME IInv, EnvironmentInv, outcome = "target"
               PROVE  Range(envVars) =
                        {<<e.key, e.value>> : e \in {f \in Range(asked.env) : f.value # None}}
                          \cup {<<e.key, Environ[e.key]>> :
                                  e \in {f \in Range(asked.env) :
                                           f.value = None /\ Environ[f.key] # Unset}}
    BY DEF EnvironmentIsListed
  <2> DEFINE entries == asked.env
             with == {<<e.key, e.value>> : e \in {f \in Range(entries) : f.value # None}}
             bare == {<<e.key, Environ[e.key]>> :
                        e \in {f \in Range(entries) : f.value = None /\ Environ[f.key] # Unset}}
  <2>1. entries \in Seq([key : Key, value : Value \cup {None}])
    BY PolicyAssumption DEF IInv, TypeOK, Policy
  <2>2. envVars = ProcessEnvironmentVars(entries)
    BY DEF IInv, OutcomeInv, EnvironmentInv
  <2> HIDE DEF entries
  <2>3. Range(envVars) = UNION {Range(Passed(entries[n])) : n \in 1 .. Len(entries)}
    BY <2>1, <2>2, ProcessedEntries
  <2>4. Range(entries) = {entries[n] : n \in 1 .. Len(entries)}
    BY <2>1 DEF Range
  <2>5. ASSUME NEW n \in 1 .. Len(entries)
        PROVE  Range(Passed(entries[n])) =
                 IF entries[n].value # None THEN {<<entries[n].key, entries[n].value>>}
                 ELSE IF Environ[entries[n].key] = Unset THEN {}
                 ELSE {<<entries[n].key, Environ[entries[n].key]>>}
    BY DEF Passed, Range
  <2>6. ASSUME NEW v \in Range(envVars)
        PROVE  v \in with \cup bare
    <3>1. PICK n \in 1 .. Len(entries) : v \in Range(Passed(entries[n]))
      BY <2>3
    <3>2. entries[n] \in Range(entries)
      BY <2>4
    <3> QED
      BY <2>5, <3>1, <3>2
  <2>7. ASSUME NEW v \in with \cup bare
        PROVE  v \in Range(envVars)
    <3>1. PICK e \in Range(entries) :
            \/ e.value # None /\ v = <<e.key, e.value>>
            \/ e.value = None /\ Environ[e.key] # Unset /\ v = <<e.key, Environ[e.key]>>
      OBVIOUS
    <3>2. PICK n \in 1 .. Len(entries) : e = entries[n]
      BY <2>4
    <3>3. v \in Range(Passed(entries[n]))
      BY <2>5, <3>1, <3>2
    <3> QED
      BY <2>3, <3>3
  <2> QED
    BY <2>6, <2>7 DEF entries
<1> QED
  BY <1>1, <1>2, <1>3, InductiveInvariant, PTL DEF Spec
=============================================================================
