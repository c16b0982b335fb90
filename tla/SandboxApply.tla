---------------------------- MODULE SandboxApply ---------------------------
(***************************************************************************)
(* sandbox.Apply, step by step (internal/sandbox/sandbox.go): it validates *)
(* the configuration, probes the kernel, refuses what the kernel is too    *)
(* old for, stats each path to build its rule, and hands the rules to      *)
(* go-landlock, which opens each path again and confines the process.      *)
(*                                                                         *)
(* Apply is one thread.  What runs beside it is the rest of the system,    *)
(* which may rename, replace or remove what a path names between any two   *)
(* of its system calls.                                                    *)
(***************************************************************************)
EXTENDS SandboxPromise

CONSTANTS
  Object,       \* the inodes a path may resolve to
  Directory,    \* those that are directories
  Missing,      \* a path that does not exist (ENOENT)
  Unreachable,  \* a path that stat and open refuse for another reason
  Requests,     \* the configurations Apply is called with
  KernelABIs,   \* the kernels it runs on (0: Landlock unavailable)
  Namings,      \* what the paths name when Apply is called
  MaxRelinks    \* bound: how often the environment changes a path meanwhile

ASSUME ObjectAssumption ==
  /\ Directory \subseteq Object
  /\ Missing \notin Object
  /\ Unreachable \notin Object
  /\ Missing # Unreachable

ASSUME InputAssumption ==
  /\ Requests \subseteq Request
  /\ KernelABIs \subseteq Nat
  /\ Namings \subseteq [Path -> Object \cup {Missing, Unreachable}]
  /\ MaxRelinks \in Nat

\* What a path may resolve to.
Target == Object \cup {Missing, Unreachable}

VARIABLES
  request, kernelABI, outcome, domain, skipped,  \* as in SandboxContract
  names,     \* what each path resolves to now
  relinks,   \* changes of names so far (bounded by MaxRelinks)
  pc,        \* the step Apply is at
  cfg,       \* the normalised configuration
  report,    \* the effectivePolicy logged when Apply succeeds
  todo,      \* the <<class, path>> whose rule is still to be built
  rules,     \* allRules, then the rules not yet added to the ruleset
  ruleset    \* the kernel ruleset go-landlock fills

Contract == INSTANCE SandboxContract

inputs == <<request, kernelABI>>
local == <<cfg, report, todo, rules, ruleset>>
environment == <<names, relinks>>
vars == <<request, kernelABI, outcome, domain, skipped, names, relinks, pc,
          cfg, report, todo, rules, ruleset>>

Rule == [class : PathClasses, name : Path, rights : SUBSET FullFSAccess]
          \cup [class : PortClasses, name : 0 .. MaxTCPPort,
                rights : SUBSET FullNetAccess]

Steps == {"validate", "probe", "collect", "restrict", "add", "returned"}

\* One type invariant for the module.
TypeOK ==
  /\ request \in Requests
  /\ kernelABI \in KernelABIs
  /\ outcome \in {"running", "ok"} \cup Refusals
  /\ domain \in [handled : SUBSET Rights, flags : SUBSET AuditFlags,
                 grants : SUBSET Rule]
  /\ skipped \subseteq PathClasses \X Path
  /\ names \in [Path -> Target]
  /\ relinks \in 0 .. MaxRelinks
  /\ pc \in Steps
  /\ (outcome = "running") <=> (pc # "returned")
  /\ cfg \in Config
  /\ report \in EffectivePolicy
  /\ todo \subseteq PathClasses \X Path
  /\ rules \subseteq Rule
  /\ ruleset \in [handled : SUBSET Rights, flags : SUBSET AuditFlags,
                  grants : SUBSET Rule]

-----------------------------------------------------------------------------
Init ==
  /\ request \in Requests
  /\ kernelABI \in KernelABIs
  /\ names \in Namings
  /\ relinks = 0
  /\ pc = "validate"
  /\ outcome = "running"
  /\ domain = NoDomain
  /\ skipped = {}
  /\ cfg = ZeroConfig
  /\ report = ZeroPolicy
  /\ todo = {}
  /\ rules = {}
  /\ ruleset = NoDomain

-----------------------------------------------------------------------------
(* Steps of Apply.                                                         *)

Return(result) ==
  /\ pc' = "returned"
  /\ outcome' = result

Continue(from, to) ==
  /\ pc = from
  /\ pc' = to
  /\ UNCHANGED outcome

RejectInvalid ==
  /\ pc = "validate"
  /\ ~ValidConfig(request)
  /\ Return("invalid")
  /\ UNCHANGED <<inputs, domain, skipped, environment, local>>

Validate ==
  /\ Continue("validate", "probe")
  /\ ValidConfig(request)
  /\ cfg' = Normalize(request)
  /\ UNCHANGED <<inputs, domain, skipped, environment, report, todo, rules, ruleset>>

\* The kernel is too old for a control the user asked for: fail closed, also
\* with --best-effort.
TooOld == RequiredABI(cfg) > 0 /\ kernelABI < RequiredABI(cfg)

RefuseOldKernel ==
  /\ pc = "probe"
  /\ TooOld
  /\ Return("old_kernel")
  /\ UNCHANGED <<inputs, domain, skipped, environment, local>>

\* Every domain is unrestricted: Apply succeeds and does nothing.
NothingToRestrict ==
  /\ pc = "probe"
  /\ ~TooOld
  /\ cfg.unrestricted = Domains
  /\ Return("ok")
  /\ report' = EffectivePolicyForABI(cfg, kernelABI)
  /\ UNCHANGED <<inputs, domain, skipped, environment, cfg, todo, rules, ruleset>>

StartCollecting ==
  /\ Continue("probe", "collect")
  /\ ~TooOld
  /\ cfg.unrestricted # Domains
  /\ report' = EffectivePolicyForABI(cfg, kernelABI)
  /\ todo' = IF "filesystem" \in cfg.unrestricted THEN {}
             ELSE {rule \in PathClasses \X Path : rule[2] \in cfg.paths[rule[1]]}
  /\ UNCHANGED <<inputs, domain, skipped, environment, cfg, rules, ruleset>>

\* Mutated form: nothing is taken for a directory.
IsDirectoryNever(path) == FALSE

\* isDirectory: any failure of os.Stat counts as "not a directory".
IsDirectory(path) == names[path] \in Directory

\* Mutated form: the rule is built from the class alone.
CollectPathAsDirectory(rule) ==
  /\ pc = "collect"
  /\ \A other \in todo : ClassRank[rule[1]] <= ClassRank[other[1]]
  /\ todo' = todo \ {rule}
  /\ rules' = rules \cup {[class  |-> rule[1],
                           name   |-> rule[2],
                           rights |-> PathRights(rule[1], TRUE)]}
  /\ UNCHANGED <<inputs, outcome, domain, skipped, environment, pc, cfg, report, ruleset>>

\* Mutated form: an unreachable path is waited for.
CollectPathWaits(rule) ==
  /\ pc = "collect"
  /\ names[rule[2]] # Unreachable
  /\ \A other \in todo : ClassRank[rule[1]] <= ClassRank[other[1]]
  /\ todo' = todo \ {rule}
  /\ rules' = rules \cup {[class  |-> rule[1],
                           name   |-> rule[2],
                           rights |-> PathRights(rule[1], IsDirectory(rule[2]))]}
  /\ UNCHANGED <<inputs, outcome, domain, skipped, environment, pc, cfg, report, ruleset>>

\* Stat one path and build its rule; classes are walked in a fixed order.
CollectPath(rule) ==
  /\ pc = "collect"
  /\ \A other \in todo : ClassRank[rule[1]] <= ClassRank[other[1]]
  /\ todo' = todo \ {rule}
  /\ rules' = rules \cup {[class  |-> rule[1],
                           name   |-> rule[2],
                           rights |-> PathRights(rule[1], IsDirectory(rule[2]))]}
  /\ UNCHANGED <<inputs, outcome, domain, skipped, environment, pc, cfg, report, ruleset>>

PortRules(config) ==
  UNION {{[class |-> c, name |-> n, rights |-> PortRights(c)] : n \in config.ports[c]} :
           c \in PortClasses}

FinishCollecting ==
  /\ Continue("collect", "restrict")
  /\ todo = {}
  /\ rules' = rules \cup IF "network" \in cfg.unrestricted THEN {} ELSE PortRules(cfg)
  /\ UNCHANGED <<inputs, domain, skipped, environment, cfg, report, todo, ruleset>>

-----------------------------------------------------------------------------
(* llCfg.Restrict (external: go-landlock and the kernel).                  *)

Wanted == Denied(cfg)

\* Best effort: what the kernel lacks is dropped from the configuration and
\* from the rules.  "refer" cannot be dropped from a rule, so a rule that has
\* it makes a kernel without it drop the whole configuration.
Downgraded ==
  LET handled == Wanted \cap Supported(kernelABI)
      void    == \E r \in rules : "refer" \in r.rights \ handled
  IN  IF void THEN {} ELSE handled

Handled == IF cfg.bestEffort THEN Downgraded ELSE Wanted

RefuseStrictKernel ==
  /\ pc = "restrict"
  /\ ~cfg.bestEffort
  /\ ~(Wanted \cup cfg.audit \subseteq Supported(kernelABI))
  /\ Return("strict_kernel")
  /\ UNCHANGED <<inputs, domain, skipped, environment, local>>

RestrictNothing ==
  /\ pc = "restrict"
  /\ cfg.bestEffort
  /\ Handled = {}
  /\ Return("ok")
  /\ UNCHANGED <<inputs, domain, skipped, environment, local>>

CreateRuleset ==
  /\ Continue("restrict", "add")
  /\ ~cfg.bestEffort => Wanted \cup cfg.audit \subseteq Supported(kernelABI)
  /\ Handled # {}
  /\ ruleset' = [handled |-> Handled,
                 flags   |-> cfg.audit \cap Supported(kernelABI),
                 grants  |-> {}]
  /\ rules' = {[r EXCEPT !.rights = @ \cap Handled] : r \in rules}
  /\ UNCHANGED <<inputs, domain, skipped, environment, cfg, report, todo>>

\* The next rule of the list.
NextRule(r) ==
  /\ pc = "add"
  /\ r \in rules
  /\ \A other \in rules : ClassRank[r.class] <= ClassRank[other.class]

IsPathRule(r) == r.class \in PathClasses

\* Mutated form: every rule is built with IgnoreIfMissing.
IgnoreMissingRuleAlways(r) ==
  /\ NextRule(r)
  /\ IsPathRule(r) /\ names[r.name] = Missing
  /\ rules' = rules \ {r}
  /\ skipped' = skipped \cup {<<r.class, r.name>>}
  /\ UNCHANGED <<inputs, outcome, domain, environment, pc, cfg, report, todo, ruleset>>

\* A missing path is passed over with --ignore-missing.
IgnoreMissingRule(r) ==
  /\ NextRule(r)
  /\ IsPathRule(r) /\ names[r.name] = Missing
  /\ cfg.ignoreMissing
  /\ rules' = rules \ {r}
  /\ skipped' = skipped \cup {<<r.class, r.name>>}
  /\ UNCHANGED <<inputs, outcome, domain, environment, pc, cfg, report, todo, ruleset>>

\* The rule cannot be added; Restrict gives up with the process unconfined.
RefuseRule(r) ==
  /\ NextRule(r)
  /\ IsPathRule(r)
  /\ \/ names[r.name] = Missing /\ ~cfg.ignoreMissing /\ Return("missing")
     \/ names[r.name] = Unreachable /\ Return("unreachable")
     \/ /\ names[r.name] \in Object \ Directory
        /\ ~(r.rights \subseteq FileRights)
        /\ Return("wrong_kind")
  /\ UNCHANGED <<inputs, domain, skipped, environment, local>>

AddRule(r) ==
  /\ NextRule(r)
  /\ IsPathRule(r) => \/ names[r.name] \in Directory
                      \/ names[r.name] \in Object /\ r.rights \subseteq FileRights
  /\ rules' = rules \ {r}
  /\ ruleset' = [ruleset EXCEPT !.grants = @ \cup {r}]
  /\ UNCHANGED <<inputs, outcome, domain, skipped, environment, pc, cfg, report, todo>>

RestrictSelf ==
  /\ pc = "add"
  /\ rules = {}
  /\ \/ Return("ok") /\ domain' = ruleset
     \/ Return("kernel_limit") /\ UNCHANGED domain
  /\ UNCHANGED <<inputs, skipped, environment, local>>

-----------------------------------------------------------------------------
\* Somebody renames, replaces, creates or removes what a path names.
Relink(path, target) ==
  /\ pc # "returned"
  /\ relinks < MaxRelinks
  /\ target # names[path]
  /\ names' = [names EXCEPT ![path] = target]
  /\ relinks' = relinks + 1
  /\ UNCHANGED <<inputs, outcome, domain, skipped, pc, local>>

ApplyStep ==
  \/ RejectInvalid
  \/ Validate
  \/ RefuseOldKernel
  \/ NothingToRestrict
  \/ StartCollecting
  \/ \E rule \in todo : CollectPath(rule)
  \/ FinishCollecting
  \/ RefuseStrictKernel
  \/ RestrictNothing
  \/ CreateRuleset
  \/ \E r \in rules : IgnoreMissingRule(r) \/ RefuseRule(r) \/ AddRule(r)
  \/ RestrictSelf

Environment == \E path \in Path, target \in Target : Relink(path, target)

Next == ApplyStep \/ Environment

\* Apply is a plain function call on a running thread: none of its steps
\* waits for anything, so it keeps being scheduled.
Spec == Init /\ [][Next]_vars /\ WF_vars(ApplyStep)

-----------------------------------------------------------------------------
(* Safety.                                                                 *)

\* When Apply succeeds, every rule the caller asked for is in force with the
\* rights its class promises; a path missing at the moment its rule was added
\* is the only exception, and only with --ignore-missing.  Also with
\* --best-effort, on any kernel, and whatever is renamed meanwhile.
NoRuleDropped ==
  outcome = "ok" => EveryRulePresent(request, domain, skipped)

\* When Apply succeeds, everything the request restricts and this kernel can
\* restrict is denied by default, without --best-effort nothing is missing,
\* and every audit flag is in force.
DenyByDefault ==
  outcome = "ok" => DeniesByDefault(request, kernelABI, domain)

\* No rule of the domain exceeds its class or names something not asked for.
LeastAuthority ==
  outcome = "ok" => NoExcessAuthority(request, domain)

\* The effective policy Apply logs is the domain the kernel enforces:
\* effectivePolicyForABI and go-landlock's downgrade agree on every kernel.
ReportIsTruthful ==
  outcome = "ok" =>
    /\ report.handled = domain.handled
    /\ report.auditFlags = domain.flags
    /\ report.applied <=> domain # NoDomain

\* "PolicyABI is the lowest ABI that fully describes the handled rights,
\* scopes, and audit flags" (EffectivePolicy's comment).
PolicyABIIsLowest ==
  outcome = "ok" =>
    LET described(abi) == report.handled \cup report.auditFlags \subseteq Supported(abi)
    IN  /\ described(report.policyABI)
        /\ \A abi \in 0 .. report.policyABI - 1 : ~described(abi)

\* Apply never refuses without a reason: a kernel is refused only when it
\* lacks a right the user was promised (or, without --best-effort, any
\* right of the contract); a path rule is rejected for the kind of its inode
\* only if the path changed between the stat and the open.
RefusalsAreExplained ==
  /\ outcome = "old_kernel" =>
       \/ request.audit \ Supported(kernelABI) # {}
       \/ \E rule \in Requested(request) :
            ~(Promised[rule[1]] \subseteq Supported(kernelABI))
  /\ outcome = "strict_kernel" =>
       /\ ~request.bestEffort
       /\ ~(Denied(request) \cup request.audit \subseteq Supported(kernelABI))
  /\ outcome = "missing" => ~request.ignoreMissing
  /\ outcome = "wrong_kind" => relinks > 0

\* On a quiet filesystem the rule of a directory carries the rights of a
\* directory and the rule of anything else does not.
RightsMatchKind ==
  (outcome = "ok" /\ relinks = 0) =>
    \A g \in domain.grants :
      IsPathRule(g) =>
        (names[g.name] \in Directory <=> "read_dir" \in g.rights)

\* README.md:126, "--unix <path>: Allow connect(2)/sendmsg(2) on the specified
\* pathname UNIX domain socket": the rule gives no access to the files of a
\* directory (getUnixSocketRights gives read_file).
UnixRuleOnlyConnects ==
  \A g \in domain.grants :
    (g.class = "unix" /\ names[g.name] \in Directory) => "read_file" \notin g.rights

-----------------------------------------------------------------------------
(* Why the decision is right: what each step of Apply has established.     *)

HasRule(S, rule) == \E r \in S : r.class = rule[1] /\ r.name = rule[2]

\* A rule as collected: asked for, with all the rights of its class.
Collected(r) ==
  /\ <<r.class, r.name>> \in Requested(request)
  /\ IsPathRule(r)  => r.rights \in {PathRights(r.class, TRUE), PathRights(r.class, FALSE)}
  /\ ~IsPathRule(r) => r.rights = PortRights(r.class)

\* The ruleset and the rules still to be added make an acceptable domain.
RulesetInv ==
  LET complete == [ruleset EXCEPT !.grants = @ \cup rules]
  IN  Acceptable(request, kernelABI, complete, skipped)

ProgressInv ==
  /\ pc \in {"probe", "collect", "restrict", "add"} =>
       ValidConfig(request) /\ cfg = Normalize(request)
  /\ pc \in {"collect", "restrict", "add"} => ~TooOld /\ cfg.unrestricted # Domains
  /\ pc \in {"validate", "probe"} => rules = {}
  /\ pc \notin {"add", "returned"} => skipped = {}
  /\ pc \in {"collect", "restrict"} => \A r \in rules : Collected(r)
  /\ pc = "collect" =>
       /\ todo \subseteq Requested(request)
       /\ \A rule \in Requested(request) :
            rule[1] \in PathClasses => rule \in todo \/ HasRule(rules, rule)
  /\ pc = "restrict" => \A rule \in Requested(request) : HasRule(rules, rule)
  /\ pc = "add" => RulesetInv

DecisionInv ==
  /\ outcome # "ok" => domain = NoDomain
  /\ outcome = "ok" => Acceptable(request, kernelABI, domain, skipped)

IInv == TypeOK /\ ProgressInv /\ DecisionInv

-----------------------------------------------------------------------------
(* The atomic decision Apply implements, and its termination.              *)

Implements == Contract!ContractSpec

\* Apply returns.
Returns == <>(pc = "returned")
=============================================================================
