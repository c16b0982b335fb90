------------------------- MODULE SandboxApplyProofs ------------------------
(***************************************************************************)
(* Proofs about SandboxApply, for every set of paths, inodes, requests,    *)
(* kernels and every number of concurrent changes to the filesystem.       *)
(***************************************************************************)
EXTENDS SandboxApply, SandboxFacts, TLAPS

-----------------------------------------------------------------------------
(* Facts about the pure functions.                                         *)

\* The greatest element of a nonempty set of ABIs is one of them and bounds
\* the others.
LEMMA LargestABI ==
  ASSUME NEW S, S \subseteq 0 .. MaxPolicyABI, S # {}
  PROVE  /\ Largest(S) \in S
         /\ \A n \in S : n <= Largest(S)
<1>1. \A n \in S : n \in {0, 1, 2, 3, 4, 5, 6, 7, 8, 9}
  BY DEF MaxPolicyABI
<1>2. \E m \in S : \A n \in S : n <= m
  <2>1. CASE 9 \in S
    BY <1>1, <2>1
  <2>2. CASE 8 \in S /\ S \cap {9} = {}
    BY <1>1, <2>2
  <2>3. CASE 7 \in S /\ S \cap {8, 9} = {}
    BY <1>1, <2>3
  <2>4. CASE 6 \in S /\ S \cap {7, 8, 9} = {}
    BY <1>1, <2>4
  <2>5. CASE 5 \in S /\ S \cap {6, 7, 8, 9} = {}
    BY <1>1, <2>5
  <2>6. CASE 4 \in S /\ S \cap {5, 6, 7, 8, 9} = {}
    BY <1>1, <2>6
  <2>7. CASE 3 \in S /\ S \cap {4, 5, 6, 7, 8, 9} = {}
    BY <1>1, <2>7
  <2>8. CASE 2 \in S /\ S \cap {3, 4, 5, 6, 7, 8, 9} = {}
    BY <1>1, <2>8
  <2>9. CASE 1 \in S /\ S \cap {2, 3, 4, 5, 6, 7, 8, 9} = {}
    BY <1>1, <2>9
  <2>10. CASE 0 \in S /\ S \cap {1, 2, 3, 4, 5, 6, 7, 8, 9} = {}
    BY <1>1, <2>10
  <2> QED
    BY <1>1, <2>1, <2>2, <2>3, <2>4, <2>5, <2>6, <2>7, <2>8, <2>9, <2>10
<1> QED
  BY <1>2 DEF Largest

\* A valid request normalises to a configuration.
LEMMA NormalizeType ==
  ASSUME NEW req \in Request, ValidConfig(req)
  PROVE  Normalize(req) \in Config
<1>1. ASSUME NEW c \in PathClasses
      PROVE  Range(req.paths[c]) \subseteq Path
  <2>1. req.paths[c] \in Seq(Path \cup {EmptyPath})
    BY DEF Request
  <2>2. \A i \in DOMAIN req.paths[c] : req.paths[c][i] \in Path \cup {EmptyPath}
    BY <2>1
  <2> QED
    BY <2>2 DEF Range, ValidConfig
<1>2. ASSUME NEW c \in PortClasses
      PROVE  Range(req.ports[c]) \subseteq 0 .. MaxTCPPort
  <2>1. Range(req.ports[c]) \subseteq TCPPorts(c)
    BY DEF ValidConfig
  <2>2. TCPPorts(c) \subseteq 0 .. MaxTCPPort
    <3>1. CASE c = "bind"
      BY <3>1 DEF TCPPorts
    <3>2. CASE c # "bind"
      <4>1. TCPPorts(c) = 1 .. MaxTCPPort
        BY <3>2 DEF TCPPorts
      <4> QED
        BY <4>1
    <3> QED
      BY <3>1, <3>2
  <2> QED
    BY <2>1, <2>2
<1> QED
  BY <1>1, <1>2 DEF Normalize, Request, Config

LEMMA RequiredABIBounds ==
  ASSUME NEW config \in Config
  PROVE  /\ RequiredABI(config) \in 0 .. MaxPolicyABI
         /\ \A c \in ExplicitControls(config) : ControlABI[c] <= RequiredABI(config)
<1> DEFINE S == {0} \cup {ControlABI[c] : c \in ExplicitControls(config)}
<1>1. ExplicitControls(config) \subseteq PathClasses \cup PortClasses \cup {"audit"}
  BY DEF ExplicitControls
<1>2. \A c \in ExplicitControls(config) : ControlABI[c] \in 0 .. MaxPolicyABI
  BY <1>1 DEF ControlABI, MaxPolicyABI, PathClasses, PortClasses
<1>3. S \subseteq 0 .. MaxPolicyABI /\ S # {}
  BY <1>2 DEF MaxPolicyABI
<1>4. Largest(S) \in S /\ \A n \in S : n <= Largest(S)
  BY <1>3, LargestABI
<1> QED
  BY <1>3, <1>4 DEF RequiredABI

LEMMA EffectivePolicyType ==
  ASSUME NEW config \in Config, NEW abi \in Nat
  PROVE  EffectivePolicyForABI(config, abi) \in EffectivePolicy
<1> DEFINE eff    == IF abi < MaxPolicyABI THEN abi ELSE MaxPolicyABI
           fs     == IF "filesystem" \notin config.unrestricted
                     THEN FilesystemRightsForABI(eff) ELSE {}
           net    == IF "network" \notin config.unrestricted /\ eff >= 4
                     THEN FullNetAccess ELSE {}
           scopes == IF "scoped" \notin config.unrestricted /\ eff >= 6
                     THEN FullScoped ELSE {}
           handled == fs \cup net \cup scopes
           flags  == IF handled # {} /\ eff >= 7 THEN config.audit ELSE {}
           levels == {0} \cup {PolicyLevel(r) : r \in handled \cup flags}
<1>1. handled \subseteq Rights
  BY DEF Rights, FilesystemRightsForABI
<1>2. flags \subseteq AuditFlags
  BY DEF Config
<1>3. \A r : PolicyLevel(r) \in 0 .. MaxPolicyABI
  BY DEF PolicyLevel, MaxPolicyABI
<1>4. levels \subseteq 0 .. MaxPolicyABI /\ levels # {}
  BY <1>3 DEF MaxPolicyABI
<1>5. Largest(levels) \in 0 .. MaxPolicyABI
  BY <1>4, LargestABI
<1> HIDE DEF handled, flags, levels
<1>6. EffectivePolicyForABI(config, abi) =
        [applied            |-> handled # {},
         kernelABI          |-> abi,
         policyABI          |-> Largest(levels),
         bestEffort         |-> config.bestEffort,
         handled            |-> handled,
         auditFlags         |-> flags,
         threadSynchronized |-> handled # {} /\ abi >= 8]
  BY DEF EffectivePolicyForABI, handled, flags, levels
<1>7. config.bestEffort \in BOOLEAN
  BY DEF Config
<1>8. (handled # {}) \in BOOLEAN /\ (handled # {} /\ abi >= 8) \in BOOLEAN
  BY Zenon
<1> DEFINE applied == handled # {}
           threads == handled # {} /\ abi >= 8
<1>9. applied \in BOOLEAN /\ threads \in BOOLEAN
  BY <1>8
<1> HIDE DEF applied, threads
<1>10. [applied            |-> applied,
        kernelABI          |-> abi,
        policyABI          |-> Largest(levels),
        bestEffort         |-> config.bestEffort,
        handled            |-> handled,
        auditFlags         |-> flags,
        threadSynchronized |-> threads] \in EffectivePolicy
  BY <1>1, <1>2, <1>5, <1>7, <1>9 DEF EffectivePolicy
<1> QED
  BY <1>6, <1>10 DEF applied, threads

-----------------------------------------------------------------------------
(* Type correctness.                                                       *)

LEMMA PathRightsType ==
  ASSUME NEW c \in PathClasses, NEW dir
  PROVE  PathRights(c, dir) \subseteq FullFSAccess
BY DEF PathRights, PathClasses, FullFSAccess, GetReadOnlyRights, GetReadOnlyExecutableRights,
       GetReadWriteRights, GetReadWriteExecutableRights, GetUnixSocketRights,
       ForDirectory, TreeRights, MakeRights

LEMMA PortRulesType ==
  ASSUME NEW config \in Config
  PROVE  PortRules(config) \subseteq Rule
<1>1. ASSUME NEW r \in PortRules(config)
      PROVE  r \in Rule
  <2>1. PICK c \in PortClasses : \E n \in config.ports[c] :
          r = [class |-> c, name |-> n, rights |-> PortRights(c)]
    BY DEF PortRules
  <2> PICK n \in config.ports[c] :
        r = [class |-> c, name |-> n, rights |-> PortRights(c)]
    BY <2>1
  <2>2. n \in 0 .. MaxTCPPort
    BY DEF Config
  <2>3. PortRights(c) \subseteq FullNetAccess
    BY DEF PortRights, FullNetAccess
  <2> QED
    BY <2>2, <2>3 DEF Rule
<1> QED
  BY <1>1

\* Taking rights away from a rule leaves a rule.
LEMMA NarrowedRuleType ==
  ASSUME NEW r \in Rule, NEW S
  PROVE  /\ [r EXCEPT !.rights = @ \cap S] \in Rule
         /\ [r EXCEPT !.rights = @ \cap S].class = r.class
         /\ [r EXCEPT !.rights = @ \cap S].name = r.name
         /\ [r EXCEPT !.rights = @ \cap S].rights = r.rights \cap S
<1>1. CASE r \in [class : PathClasses, name : Path, rights : SUBSET FullFSAccess]
  BY <1>1 DEF Rule
<1>2. CASE r \in [class : PortClasses, name : 0 .. MaxTCPPort,
                   rights : SUBSET FullNetAccess]
  BY <1>2 DEF Rule
<1> QED
  BY <1>1, <1>2 DEF Rule

LEMMA TypeInit == Init => TypeOK
<1> SUFFICES ASSUME Init
             PROVE  TypeOK
  OBVIOUS
<1>1. names \in [Path -> Target]
  BY InputAssumption DEF Init, Target
<1>2. ZeroConfig \in Config
  BY DEF ZeroConfig, Config, Domains, MaxTCPPort
<1>3. ZeroPolicy \in EffectivePolicy
  BY DEF ZeroPolicy, EffectivePolicy, MaxPolicyABI
<1>4. NoDomain \in [handled : SUBSET Rights, flags : SUBSET AuditFlags, grants : SUBSET Rule]
  BY DEF NoDomain
<1>5. relinks \in 0 .. MaxRelinks
  BY InputAssumption DEF Init
<1> QED
  BY <1>1, <1>2, <1>3, <1>4, <1>5 DEF Init, TypeOK, Steps

LEMMA TypeNext == TypeOK /\ [Next]_vars => TypeOK'
<1> SUFFICES ASSUME TypeOK, [Next]_vars
             PROVE  TypeOK'
  OBVIOUS
<1> USE DEF inputs, environment, local, Return, Continue, Steps, Refusals
<1>1. CASE RejectInvalid
  BY <1>1 DEF TypeOK, RejectInvalid
<1>2. CASE Validate
  <2>1. Normalize(request) \in Config
    BY <1>2, NormalizeType, InputAssumption DEF TypeOK, Validate
  <2> QED
    BY <1>2, <2>1 DEF TypeOK, Validate
<1>3. CASE RefuseOldKernel
  BY <1>3 DEF TypeOK, RefuseOldKernel
<1>4. CASE NothingToRestrict
  <2>1. EffectivePolicyForABI(cfg, kernelABI) \in EffectivePolicy
    BY EffectivePolicyType, InputAssumption DEF TypeOK
  <2> QED
    BY <1>4, <2>1 DEF TypeOK, NothingToRestrict
<1>5. CASE StartCollecting
  <2>1. EffectivePolicyForABI(cfg, kernelABI) \in EffectivePolicy
    BY EffectivePolicyType, InputAssumption DEF TypeOK
  <2>2. todo' \subseteq PathClasses \X Path
    BY <1>5 DEF StartCollecting
  <2> QED
    BY <1>5, <2>1, <2>2 DEF TypeOK, StartCollecting
<1>6. ASSUME NEW rule \in todo, CollectPath(rule)
      PROVE  TypeOK'
  <2>1. rule \in PathClasses \X Path
    BY DEF TypeOK
  <2>2. PathRights(rule[1], IsDirectory(rule[2])) \subseteq FullFSAccess
    BY <2>1, PathRightsType
  <2>3. rules' \subseteq Rule
    BY <1>6, <2>1, <2>2 DEF TypeOK, CollectPath, Rule
  <2> QED
    BY <1>6, <2>3 DEF TypeOK, CollectPath
<1>7. CASE FinishCollecting
  <2>1. rules' \subseteq Rule
    BY <1>7, PortRulesType DEF TypeOK, FinishCollecting
  <2> QED
    BY <1>7, <2>1 DEF TypeOK, FinishCollecting
<1>8. CASE RefuseStrictKernel
  BY <1>8 DEF TypeOK, RefuseStrictKernel
<1>9. CASE RestrictNothing
  BY <1>9 DEF TypeOK, RestrictNothing
<1>10. CASE CreateRuleset
  <2>1. Handled \subseteq Rights
    BY DEF Handled, Downgraded, Wanted, Denied, Rights
  <2>2. cfg.audit \cap Supported(kernelABI) \subseteq AuditFlags
    BY DEF TypeOK, Config
  <2>3. rules' \subseteq Rule
    BY <1>10, NarrowedRuleType DEF TypeOK, CreateRuleset
  <2>4. ruleset' \in [handled : SUBSET Rights, flags : SUBSET AuditFlags,
                       grants : SUBSET Rule]
    BY <1>10, <2>1, <2>2 DEF CreateRuleset
  <2> QED
    BY <1>10, <2>3, <2>4 DEF TypeOK, CreateRuleset
<1>11. ASSUME NEW r \in rules, IgnoreMissingRule(r)
       PROVE  TypeOK'
  <2>1. <<r.class, r.name>> \in PathClasses \X Path
    BY <1>11 DEF TypeOK, IgnoreMissingRule, IsPathRule, Rule, PathClasses, PortClasses
  <2> QED
    BY <1>11, <2>1 DEF TypeOK, IgnoreMissingRule, NextRule
<1>12. ASSUME NEW r \in rules, RefuseRule(r)
       PROVE  TypeOK'
  BY <1>12 DEF TypeOK, RefuseRule, NextRule
<1>13. ASSUME NEW r \in rules, AddRule(r)
       PROVE  TypeOK'
  BY <1>13 DEF TypeOK, AddRule, NextRule
<1>14. CASE RestrictSelf
  BY <1>14 DEF TypeOK, RestrictSelf
<1>15. ASSUME NEW path \in Path, NEW target \in Target, Relink(path, target)
       PROVE  TypeOK'
  <2>1. relinks' \in 0 .. MaxRelinks
    BY <1>15, InputAssumption DEF TypeOK, Relink
  <2> QED
    BY <1>15, <2>1 DEF TypeOK, Relink
<1>16. CASE UNCHANGED vars
  BY <1>16 DEF TypeOK, vars
<1> QED
  BY <1>1, <1>2, <1>3, <1>4, <1>5, <1>6, <1>7, <1>8, <1>9, <1>10, <1>11, <1>12,
     <1>13, <1>14, <1>15, <1>16 DEF Next, ApplyStep, Environment

\* In every reachable state the variables of Apply have their types: the
\* configuration it acts on is normalised, ports are within 0 .. 65535, every
\* rule carries rights of its own domain, and Apply has an outcome exactly
\* when it has returned.
THEOREM TypeCorrect == Spec => []TypeOK
<1> QED
  BY TypeInit, TypeNext, PTL DEF Spec

-----------------------------------------------------------------------------
(* What a request that passed the checks can count on.                     *)

\* Normalisation turns lists into sets and touches nothing else.
LEMMA NormalizeFields ==
  ASSUME NEW req \in Request
  PROVE  /\ \A c \in PathClasses : Normalize(req).paths[c] = Range(req.paths[c])
         /\ \A c \in PortClasses : Normalize(req).ports[c] = Range(req.ports[c])
         /\ Normalize(req).unrestricted = req.unrestricted
         /\ Normalize(req).bestEffort = req.bestEffort
         /\ Normalize(req).ignoreMissing = req.ignoreMissing
         /\ Normalize(req).audit = req.audit
         /\ Denied(Normalize(req)) = Denied(req)
BY DEF Normalize, Request, Denied

\* The lists a rule of a valid request comes from are not empty, and the
\* domain of the rule is not left unrestricted.
LEMMA RequestedClass ==
  ASSUME NEW req \in Request, ValidConfig(req), NEW rule \in Requested(req)
  PROVE  /\ rule[1] \in ExplicitControls(Normalize(req))
         /\ rule[1] \in PathClasses => "filesystem" \notin req.unrestricted
         /\ rule[1] \in PortClasses => "network" \notin req.unrestricted
<1>1. ASSUME NEW c \in PathClasses, NEW p \in Range(req.paths[c]), rule = <<c, p>>
      PROVE  /\ c \in ExplicitControls(Normalize(req))
             /\ "filesystem" \notin req.unrestricted
  <2>1. req.paths[c] # <<>>
    BY DEF Range
  <2> QED
    BY <2>1, NormalizeFields DEF ExplicitControls, ValidConfig
<1>2. ASSUME NEW c \in PortClasses, NEW n \in Range(req.ports[c]), rule = <<c, n>>
      PROVE  /\ c \in ExplicitControls(Normalize(req))
             /\ "network" \notin req.unrestricted
  <2>1. req.ports[c] # <<>>
    BY DEF Range
  <2> QED
    BY <2>1, NormalizeFields DEF ExplicitControls, ValidConfig
<1>3. PathClasses \cap PortClasses = {}
  BY DEF PathClasses, PortClasses
<1> QED
  BY <1>1, <1>2, <1>3, RequestedRule

\* The kernel rights behind each class, right by right.
LEMMA SupportedRights ==
  ASSUME NEW abi \in Nat
  PROVE  /\ abi >= 1 => {"read_file", "write_file", "execute", "read_dir"} \subseteq Supported(abi)
         /\ abi >= 2 => "refer" \in Supported(abi)
         /\ abi >= 3 => "truncate" \in Supported(abi)
         /\ abi >= 4 => FullNetAccess \subseteq Supported(abi)
         /\ abi >= 6 => FullScoped \subseteq Supported(abi)
         /\ abi >= 7 => AuditFlags \subseteq Supported(abi)
         /\ abi >= 9 => "resolve_unix" \in Supported(abi)
<1> DEFINE R == Rights \cup AuditFlags
<1>1. \A r \in R : r \in Supported(abi) <=> Introduced[r] <= abi
  BY DEF Supported
<1>2. {"read_file", "write_file", "execute", "read_dir", "refer", "truncate", "resolve_unix"}
        \cup FullNetAccess \cup FullScoped \cup AuditFlags \subseteq R
  BY DEF Rights, FullFSAccess
<1>3. \A r \in {"read_file", "write_file", "execute", "read_dir"} : Introduced[r] = 1
  BY <1>2 DEF Introduced, FullNetAccess, FullScoped, AuditFlags
<1>4. Introduced["refer"] = 2 /\ Introduced["truncate"] = 3 /\ Introduced["resolve_unix"] = 9
  BY <1>2 DEF Introduced, FullNetAccess, FullScoped, AuditFlags
<1>5. \A r \in FullNetAccess : Introduced[r] = 4
  BY <1>2 DEF Introduced, FullNetAccess, FullScoped, AuditFlags
<1>6. \A r \in FullScoped : Introduced[r] = 6
  BY <1>2 DEF Introduced, FullNetAccess, FullScoped, AuditFlags
<1>7. \A r \in AuditFlags : Introduced[r] = 7
  BY <1>2 DEF Introduced, FullNetAccess, FullScoped, AuditFlags
<1> HIDE DEF R
<1> QED
  BY <1>1, <1>2, <1>3, <1>4, <1>5, <1>6, <1>7

\* Past the check of the required ABI, the kernel supports all that the class
\* of an explicit rule promises, and "refer" if the rule may carry it.
LEMMA PromisesSupported ==
  ASSUME NEW req \in Request, ValidConfig(req), NEW abi \in Nat,
         RequiredABI(Normalize(req)) > 0 => abi >= RequiredABI(Normalize(req)),
         NEW rule \in Requested(req)
  PROVE  /\ rule[1] \in PathClasses \cup PortClasses
         /\ Promised[rule[1]] \subseteq Denied(req) \cap Supported(abi)
         /\ rule[1] \in {"rw", "rwx"} => "refer" \in Supported(abi)
         /\ rule[1] \in PathClasses => "read_dir" \in Denied(req) \cap Supported(abi)
<1> DEFINE c == rule[1]
<1>1. c \in PathClasses \cup PortClasses
  BY RequestedRule
<1>2. abi >= ControlABI[c]
  <2>1. Normalize(req) \in Config
    BY NormalizeType
  <2>2. /\ ControlABI[c] <= RequiredABI(Normalize(req))
        /\ RequiredABI(Normalize(req)) \in Nat
    BY <2>1, RequiredABIBounds, RequestedClass DEF MaxPolicyABI
  <2>3. ControlABI[c] \in 1 .. 9
    BY <1>1 DEF ControlABI, PathClasses, PortClasses
  <2> QED
    BY <2>2, <2>3
<1>3. c \in PathClasses => FullFSAccess \subseteq Denied(req)
  BY RequestedClass DEF Denied
<1>4. c \in PortClasses => FullNetAccess \subseteq Denied(req)
  BY RequestedClass DEF Denied
<1> HIDE DEF c
<1>5. CASE c \in {"ro", "rox"}
  <2>1. Promised[c] \subseteq {"read_file", "execute"}
    BY <1>5 DEF Promised, PathClasses, PortClasses
  <2>2. abi >= 1
    BY <1>2, <1>5 DEF ControlABI
  <2> QED
    BY <1>1, <1>3, <1>5, <2>1, <2>2, SupportedRights DEF PathClasses, FullFSAccess, c
<1>6. CASE c \in {"rw", "rwx"}
  <2>1. Promised[c] \subseteq {"read_file", "write_file", "truncate", "execute"}
    BY <1>6 DEF Promised, PathClasses, PortClasses
  <2>2. abi >= 3
    BY <1>2, <1>6 DEF ControlABI
  <2> QED
    BY <1>1, <1>3, <1>6, <2>1, <2>2, SupportedRights DEF PathClasses, FullFSAccess, c
<1>7. CASE c = "unix"
  <2>1. Promised[c] = {"resolve_unix"}
    BY <1>7 DEF Promised, PathClasses, PortClasses
  <2>2. abi >= 9
    BY <1>2, <1>7 DEF ControlABI
  <2> QED
    BY <1>1, <1>3, <1>7, <2>1, <2>2, SupportedRights DEF PathClasses, FullFSAccess, c
<1>8. CASE c \in PortClasses
  <2>1. Promised[c] \subseteq FullNetAccess
    BY <1>8 DEF Promised, PathClasses, PortClasses, FullNetAccess
  <2>2. abi >= 4
    BY <1>2, <1>8 DEF ControlABI, PortClasses
  <2> QED
    BY <1>1, <1>4, <1>8, <2>1, <2>2, SupportedRights DEF PortClasses, PathClasses, c
<1> QED
  BY <1>1, <1>5, <1>6, <1>7, <1>8 DEF PathClasses, c

\* The same for audit flags.
LEMMA AuditSupported ==
  ASSUME NEW req \in Request, ValidConfig(req), NEW abi \in Nat,
         RequiredABI(Normalize(req)) > 0 => abi >= RequiredABI(Normalize(req)),
         req.audit # {}
  PROVE  /\ abi >= 7
         /\ req.audit \subseteq Supported(abi)
<1>1. Normalize(req) \in Config
  BY NormalizeType
<1>2. "audit" \in ExplicitControls(Normalize(req))
  BY NormalizeFields DEF ExplicitControls
<1>3. /\ 7 <= RequiredABI(Normalize(req))
      /\ RequiredABI(Normalize(req)) \in Nat
  BY <1>1, <1>2, RequiredABIBounds DEF ControlABI, MaxPolicyABI
<1>4. abi >= 7
  BY <1>3
<1>5. req.audit \subseteq AuditFlags
  BY DEF Request
<1> QED
  BY <1>4, <1>5, SupportedRights

\* The rights of a collected rule: all that its class promises, nothing that
\* it withholds, and "refer" only where a tree may be written.
LEMMA ClassRights ==
  ASSUME NEW c \in PathClasses, NEW dir \in BOOLEAN
  PROVE  /\ Promised[c] \subseteq PathRights(c, dir)
         /\ PathRights(c, dir) \cap Withheld[c] = {}
         /\ "refer" \in PathRights(c, dir) => c \in {"rw", "rwx"}
<1> USE DEF PathRights, GetReadOnlyRights, GetReadOnlyExecutableRights, GetReadWriteRights,
            GetReadWriteExecutableRights, GetUnixSocketRights, ForDirectory,
            Promised, Withheld, PathClasses, PortClasses, Rights, FullFSAccess
<1>1. CASE c = "ro"
  BY <1>1
<1>2. CASE c = "rox"
  BY <1>2
<1>3. CASE c = "rw"
  BY <1>3 DEF TreeRights, MakeRights
<1>4. CASE c = "rwx"
  BY <1>4 DEF TreeRights, MakeRights
<1>5. CASE c = "unix"
  BY <1>5
<1> QED
  BY <1>1, <1>2, <1>3, <1>4, <1>5

LEMMA PortClassRights ==
  ASSUME NEW c \in PortClasses
  PROVE  /\ Promised[c] = PortRights(c)
         /\ PortRights(c) \cap Withheld[c] = {}
         /\ "refer" \notin PortRights(c)
BY DEF PortRights, Promised, Withheld, PathClasses, PortClasses, Rights, FullNetAccess

-----------------------------------------------------------------------------
(* The decision is acceptable.                                             *)

\* What is known of the request in every step between probe and return.
LEMMA RequestKnown ==
  ASSUME TypeOK, ProgressInv, pc \in {"probe", "collect", "restrict", "add"}
  PROVE  /\ request \in Request
         /\ kernelABI \in Nat
         /\ ValidConfig(request)
         /\ cfg = Normalize(request)
         /\ Wanted = Denied(request)
         /\ cfg.unrestricted = request.unrestricted
         /\ cfg.bestEffort = request.bestEffort
         /\ cfg.ignoreMissing = request.ignoreMissing
         /\ cfg.audit = request.audit
BY InputAssumption, NormalizeFields DEF TypeOK, ProgressInv, Wanted

\* A domain left to restrict has a right that every kernel of the ABI of audit
\* flags can deny.
LEMMA SomethingDenied ==
  ASSUME NEW req \in Request, req.unrestricted # Domains, NEW abi \in Nat, abi >= 7
  PROVE  Denied(req) \cap Supported(abi) # {}
<1>1. req.unrestricted \subseteq Domains
  BY DEF Request
<1>2. CASE "filesystem" \notin req.unrestricted
  BY <1>2, SupportedRights DEF Denied, FullFSAccess
<1>3. CASE "network" \notin req.unrestricted
  BY <1>3, SupportedRights DEF Denied, FullNetAccess
<1>4. CASE "scoped" \notin req.unrestricted
  BY <1>4, SupportedRights DEF Denied, FullScoped
<1> QED
  BY <1>1, <1>2, <1>3, <1>4 DEF Domains

LEMMA PromiseNotEmpty ==
  ASSUME NEW c \in PathClasses \cup PortClasses
  PROVE  Promised[c] # {}
BY DEF Promised, PathClasses, PortClasses

\* With every domain unrestricted the unconfined process is what was asked for.
LEMMA UnrestrictedAcceptable ==
  ASSUME NEW req \in Request, ValidConfig(req), req.unrestricted = Domains,
         NEW abi \in Nat
  PROVE  Acceptable(req, abi, NoDomain, {})
<1>1. Denied(req) = {}
  BY DEF Denied, Domains
<1>2. req.audit = {}
  BY DEF ValidConfig
<1>3. Requested(req) = {}
  BY RequestedClass, RequestedRule DEF Domains
<1> QED
  BY <1>1, <1>2, <1>3
  DEF Acceptable, DeniesByDefault, EveryRulePresent, NoExcessAuthority, NoDomain

\* What Restrict makes of the configuration and of the collected rules, with
\* or without --best-effort.
LEMMA RulesetCreated ==
  ASSUME TypeOK, ProgressInv, pc = "restrict",
         ~cfg.bestEffort => Wanted \cup cfg.audit \subseteq Supported(kernelABI)
  PROVE  /\ Handled = Denied(request) \cap Supported(kernelABI)
         /\ ~cfg.bestEffort => Handled = Denied(request)
         /\ cfg.audit \subseteq Supported(kernelABI)
         /\ \A r \in rules : /\ <<r.class, r.name>> \in Requested(request)
                            /\ Promised[r.class] \subseteq r.rights \cap Handled
                            /\ r.rights \cap Withheld[r.class] = {}
<1>1. /\ request \in Request
      /\ kernelABI \in Nat
      /\ ValidConfig(request)
      /\ cfg = Normalize(request)
      /\ Wanted = Denied(request)
      /\ cfg.audit = request.audit
  BY RequestKnown
<1>2. RequiredABI(Normalize(request)) > 0 => kernelABI >= RequiredABI(Normalize(request))
  <2>1. ~TooOld
    BY DEF ProgressInv
  <2>2. RequiredABI(Normalize(request)) \in Nat
    BY <1>1, NormalizeType, RequiredABIBounds DEF MaxPolicyABI
  <2> QED
    BY <1>1, <2>1, <2>2 DEF TooOld
<1>3. ASSUME NEW r \in rules
      PROVE  /\ <<r.class, r.name>> \in Requested(request)
             /\ Promised[r.class] \subseteq r.rights
             /\ Promised[r.class] \subseteq Denied(request) \cap Supported(kernelABI)
             /\ r.rights \cap Withheld[r.class] = {}
             /\ "refer" \in r.rights => "refer" \in Supported(kernelABI) \cap Denied(request)
  <2>1. Collected(r)
    BY DEF ProgressInv
  <2>2. <<r.class, r.name>> \in Requested(request)
    BY <2>1 DEF Collected
  <2>3. /\ r.class \in PathClasses \cup PortClasses
        /\ Promised[r.class] \subseteq Denied(request) \cap Supported(kernelABI)
        /\ r.class \in {"rw", "rwx"} => "refer" \in Supported(kernelABI)
    BY <1>1, <1>2, <2>2, PromisesSupported
  <2>4. CASE r.class \in PathClasses
    <3>1. PICK dir \in BOOLEAN : r.rights = PathRights(r.class, dir)
      BY <2>1, <2>4 DEF Collected, IsPathRule
    <3>2. "refer" \in Denied(request)
      BY <1>1, <2>2, <2>4, RequestedClass DEF Denied, FullFSAccess
    <3>3. /\ Promised[r.class] \subseteq r.rights
          /\ r.rights \cap Withheld[r.class] = {}
          /\ "refer" \in r.rights => r.class \in {"rw", "rwx"}
      BY <2>4, <3>1, ClassRights
    <3> QED
      BY <2>2, <2>3, <3>2, <3>3
  <2>5. CASE r.class \in PortClasses
    <3>1. r.rights = PortRights(r.class)
      BY <2>1, <2>5 DEF Collected, IsPathRule, PathClasses, PortClasses
    <3>2. /\ Promised[r.class] \subseteq r.rights
          /\ r.rights \cap Withheld[r.class] = {}
          /\ "refer" \notin r.rights
      BY <2>5, <3>1, PortClassRights
    <3> QED
      BY <2>2, <2>3, <3>2
  <2> QED
    BY <2>3, <2>4, <2>5
<1>4. Handled = Denied(request) \cap Supported(kernelABI)
  <2>1. CASE cfg.bestEffort
    BY <1>1, <1>3, <2>1 DEF Handled, Downgraded
  <2>2. CASE ~cfg.bestEffort
    BY <1>1, <2>2 DEF Handled
  <2> QED
    BY <2>1, <2>2
<1>5. cfg.audit \subseteq Supported(kernelABI)
  BY <1>1, <1>2, AuditSupported
<1>6. ~cfg.bestEffort => Handled = Denied(request)
  BY <1>1 DEF Handled
<1> QED
  BY <1>3, <1>4, <1>5, <1>6

LEMMA DecisionInit == Init => ProgressInv /\ DecisionInv
BY DEF Init, ProgressInv, DecisionInv

\* A refusal leaves no domain behind.
LEMMA RefusalStep ==
  ASSUME IInv, outcome = "running", pc' = "returned", outcome' \in Refusals,
         UNCHANGED domain
  PROVE  ProgressInv' /\ DecisionInv'
BY DEF IInv, ProgressInv, DecisionInv, Refusals

\* A step that neither returns nor touches the ruleset once it exists.
LEMMA RunningStep ==
  ASSUME IInv, outcome = "running", UNCHANGED <<outcome, domain>>
  PROVE  DecisionInv'
BY DEF IInv, DecisionInv

\* What it takes for a ruleset d and the rules R still to be added to it to be
\* acceptable together.
AcceptableParts(req, abi, d, R, skips) ==
  /\ d.handled = Denied(req) \cap Supported(abi)
  /\ ~req.bestEffort => d.handled = Denied(req)
  /\ d.flags = req.audit
  /\ \A rule \in Requested(req) \ skips :
       \E g \in d.grants \cup R : /\ g.class = rule[1]
                                  /\ g.name = rule[2]
                                  /\ Promised[g.class] \subseteq g.rights
  /\ skips # {} => req.ignoreMissing
  /\ \A g \in d.grants \cup R : /\ <<g.class, g.name>> \in Requested(req)
                                /\ g.rights \cap Withheld[g.class] = {}

LEMMA CompleteAcceptable ==
  ASSUME NEW req, NEW abi, NEW R, NEW skips,
         NEW d \in [handled : SUBSET Rights, flags : SUBSET AuditFlags,
                    grants : SUBSET Rule]
  PROVE  Acceptable(req, abi, [d EXCEPT !.grants = @ \cup R], skips) <=>
           AcceptableParts(req, abi, d, R, skips)
<1> DEFINE complete == [d EXCEPT !.grants = @ \cup R]
<1>1. /\ complete.handled = d.handled
      /\ complete.flags = d.flags
      /\ complete.grants = d.grants \cup R
  OBVIOUS
<1> HIDE DEF complete
<1>2. Acceptable(req, abi, complete, skips) <=> AcceptableParts(req, abi, d, R, skips)
  BY <1>1, Zenon
  DEF Acceptable, DeniesByDefault, EveryRulePresent, NoExcessAuthority, AcceptableParts
<1> QED
  BY <1>2 DEF complete

LEMMA DecisionNext == IInv /\ [Next]_vars => ProgressInv' /\ DecisionInv'
<1> SUFFICES ASSUME IInv, [Next]_vars
             PROVE  ProgressInv' /\ DecisionInv'
  OBVIOUS
<1> USE DEF inputs, environment, local, Return, Continue
<1>0. TypeOK /\ ProgressInv /\ DecisionInv
  BY DEF IInv
<1>1. CASE RejectInvalid
  BY <1>0, <1>1, RefusalStep DEF RejectInvalid, TypeOK, Refusals
<1>2. CASE Validate
  <2>1. ProgressInv'
    BY <1>0, <1>2 DEF Validate, ProgressInv
  <2> QED
    BY <1>0, <1>2, <2>1, RunningStep DEF Validate, TypeOK
<1>3. CASE RefuseOldKernel
  BY <1>0, <1>3, RefusalStep DEF RefuseOldKernel, TypeOK, Refusals
<1>4. CASE NothingToRestrict
  <2>1. Acceptable(request, kernelABI, NoDomain, {})
    BY <1>0, <1>4, RequestKnown, UnrestrictedAcceptable DEF NothingToRestrict
  <2>2. domain' = NoDomain /\ skipped' = {}
    BY <1>0, <1>4 DEF NothingToRestrict, ProgressInv, DecisionInv, TypeOK
  <2> QED
    BY <1>4, <2>1, <2>2 DEF NothingToRestrict, ProgressInv, DecisionInv
<1>5. CASE StartCollecting
  <2>1. /\ pc = "probe" /\ pc' = "collect"
        /\ rules' = {} /\ skipped' = {}
        /\ UNCHANGED <<request, cfg, kernelABI>>
    BY <1>0, <1>5 DEF StartCollecting, ProgressInv
  <2>2. /\ request \in Request
        /\ ValidConfig(request)
        /\ cfg = Normalize(request)
        /\ cfg.unrestricted = request.unrestricted
    BY <1>0, <2>1, RequestKnown
  <2>3. ASSUME NEW rule, rule[1] \in PathClasses
        PROVE  rule \in todo' <=> rule \in Requested(request)
    <3>1. ASSUME rule \in Requested(request)
          PROVE  rule \in todo'
      <4>1. PICK c \in PathClasses : \E p \in Range(request.paths[c]) : rule = <<c, p>>
        BY <2>2, <2>3, <3>1, RequestedRule DEF PathClasses, PortClasses
      <4>2. PICK p \in Range(request.paths[c]) : rule = <<c, p>>
        BY <4>1
      <4>3. p \in cfg.paths[c] /\ cfg \in Config
        BY <2>2, NormalizeFields, NormalizeType
      <4>4. p \in Path
        BY <4>3 DEF Config
      <4>5. "filesystem" \notin cfg.unrestricted
        BY <2>2, <3>1, <2>3, RequestedClass
      <4> QED
        BY <1>5, <4>2, <4>3, <4>4, <4>5 DEF StartCollecting
    <3>2. ASSUME rule \in todo'
          PROVE  rule \in Requested(request)
      <4>1. rule \in PathClasses \X Path /\ rule[2] \in cfg.paths[rule[1]]
        BY <1>5, <3>2 DEF StartCollecting
      <4>2. rule = <<rule[1], rule[2]>> /\ rule[2] \in Range(request.paths[rule[1]])
        BY <2>2, <4>1, NormalizeFields
      <4> QED
        BY <2>2, <4>1, <4>2, RequestedRule
    <3> QED
      BY <3>1, <3>2
  <2>4. todo' \subseteq Requested(request)
    BY <1>5, <2>3 DEF StartCollecting
  <2>5. ProgressInv'
    BY <1>5, <2>1, <2>2, <2>3, <2>4 DEF StartCollecting, ProgressInv, TooOld
  <2> QED
    BY <1>0, <1>5, <2>5, RunningStep DEF StartCollecting, TypeOK
<1>6. ASSUME NEW rule \in todo, CollectPath(rule)
      PROVE  ProgressInv' /\ DecisionInv'
  <2> DEFINE new == [class  |-> rule[1],
                     name   |-> rule[2],
                     rights |-> PathRights(rule[1], IsDirectory(rule[2]))]
  <2>1. /\ pc = "collect" /\ pc' = "collect"
        /\ todo' = todo \ {rule}
        /\ rules' = rules \cup {new}
        /\ UNCHANGED <<request, kernelABI, cfg, skipped, outcome, domain>>
    BY <1>6 DEF CollectPath
  <2>2. rule \in PathClasses \X Path /\ rule \in Requested(request)
    BY <1>0, <2>1 DEF TypeOK, ProgressInv
  <2>3. /\ new.class = rule[1]
        /\ new.name = rule[2]
        /\ new.rights = PathRights(rule[1], IsDirectory(rule[2]))
    OBVIOUS
  <2> HIDE DEF new
  <2>4. Collected(new)
    <3>1. IsDirectory(rule[2]) = TRUE \/ IsDirectory(rule[2]) = FALSE
      BY DEF IsDirectory
    <3>2. <<new.class, new.name>> = rule /\ new.class \in PathClasses
      BY <2>2, <2>3
    <3>3. new.rights \in {PathRights(new.class, TRUE), PathRights(new.class, FALSE)}
      BY <2>3, <3>1
    <3> QED
      BY <2>2, <3>2, <3>3 DEF Collected, IsPathRule
  <2>5. \A r \in rules' : Collected(r)'
    BY <1>0, <2>1, <2>4 DEF ProgressInv, Collected, IsPathRule
  <2>6. HasRule(rules', rule)
    BY <2>1, <2>3 DEF HasRule
  <2>7. \A other : HasRule(rules, other) => HasRule(rules', other)
    BY <2>1 DEF HasRule
  <2>8. \A other \in Requested(request) :
          other[1] \in PathClasses => other \in todo' \/ HasRule(rules', other)
    BY <1>0, <2>1, <2>6, <2>7 DEF ProgressInv
  <2>9. ProgressInv'
    BY <1>0, <2>1, <2>5, <2>8 DEF ProgressInv, TooOld
  <2> QED
    BY <1>0, <2>1, <2>9, RunningStep DEF TypeOK
<1>7. CASE FinishCollecting
  <2>1. /\ pc = "collect" /\ pc' = "restrict" /\ todo = {}
        /\ rules' = rules \cup IF "network" \in cfg.unrestricted THEN {} ELSE PortRules(cfg)
        /\ UNCHANGED <<request, kernelABI, cfg, skipped, outcome, domain>>
    BY <1>7 DEF FinishCollecting
  <2>2. /\ request \in Request
        /\ ValidConfig(request)
        /\ cfg = Normalize(request)
        /\ cfg.unrestricted = request.unrestricted
    BY <1>0, <2>1, RequestKnown
  <2>3. ASSUME NEW r \in PortRules(cfg)
        PROVE  Collected(r)
    <3>1. PICK c \in PortClasses : \E n \in cfg.ports[c] :
            r = [class |-> c, name |-> n, rights |-> PortRights(c)]
      BY DEF PortRules
    <3>2. PICK n \in cfg.ports[c] : r = [class |-> c, name |-> n, rights |-> PortRights(c)]
      BY <3>1
    <3>3. <<c, n>> \in Requested(request)
      BY <2>2, NormalizeFields, RequestedRule
    <3> QED
      BY <3>2, <3>3 DEF Collected, IsPathRule, PathClasses, PortClasses
  <2>4. \A r \in rules' : Collected(r)'
    BY <1>0, <2>1, <2>3 DEF ProgressInv, Collected, IsPathRule
  <2>5. ASSUME NEW rule \in Requested(request)
        PROVE  HasRule(rules', rule)
    <3>1. CASE rule[1] \in PathClasses
      BY <1>0, <2>1, <3>1 DEF ProgressInv, HasRule
    <3>2. CASE rule[1] \notin PathClasses
      <4>1. PICK c \in PortClasses : \E n \in Range(request.ports[c]) : rule = <<c, n>>
        BY <2>2, <3>2, RequestedRule
      <4>2. PICK n \in Range(request.ports[c]) : rule = <<c, n>>
        BY <4>1
      <4>3. "network" \notin cfg.unrestricted
        BY <2>2, <4>2, RequestedClass
      <4>4. [class |-> c, name |-> n, rights |-> PortRights(c)] \in PortRules(cfg)
        BY <2>2, <4>2, NormalizeFields DEF PortRules
      <4> QED
        BY <2>1, <4>2, <4>3, <4>4 DEF HasRule
    <3> QED
      BY <3>1, <3>2
  <2>6. ProgressInv'
    BY <1>0, <2>1, <2>4, <2>5 DEF ProgressInv, TooOld
  <2> QED
    BY <1>0, <2>1, <2>6, RunningStep DEF TypeOK
<1>8. CASE RefuseStrictKernel
  BY <1>0, <1>8, RefusalStep DEF RefuseStrictKernel, TypeOK, Refusals
<1>9. CASE RestrictNothing
  <2>1. /\ request \in Request /\ kernelABI \in Nat
        /\ request.bestEffort /\ skipped = {} /\ domain = NoDomain
        /\ cfg.audit = request.audit /\ request.unrestricted # Domains
        /\ ~cfg.bestEffort => Wanted \cup cfg.audit \subseteq Supported(kernelABI)
    BY <1>0, <1>9, RequestKnown DEF RestrictNothing, ProgressInv, DecisionInv, TypeOK
  <2>2. Denied(request) \cap Supported(kernelABI) = {}
    BY <1>0, <1>9, <2>1, RulesetCreated DEF RestrictNothing
  <2>3. request.audit = {}
    <3>1. kernelABI < 7
      BY <2>1, <2>2, SomethingDenied
    <3>2. ASSUME NEW f \in request.audit
          PROVE  FALSE
      <4>1. f \in AuditFlags /\ f \in Supported(kernelABI)
        BY <1>0, <1>9, <2>1, RulesetCreated DEF RestrictNothing, Request
      <4>2. Introduced[f] = 7
        BY <4>1 DEF Introduced, AuditFlags, FullNetAccess, FullScoped
      <4> QED
        BY <2>1, <3>1, <4>1, <4>2 DEF Supported
    <3> QED
      BY <3>2
  <2>4. Requested(request) = {}
    <3>1. ASSUME NEW rule \in Requested(request)
          PROVE  FALSE
      <4>1. PICK r \in rules : r.class = rule[1] /\ r.name = rule[2]
        BY <1>0, <1>9 DEF RestrictNothing, ProgressInv, HasRule
      <4>2. Promised[r.class] = {}
        BY <1>0, <1>9, <2>1, RulesetCreated DEF RestrictNothing
      <4>3. r.class \in PathClasses \cup PortClasses
        BY <1>0 DEF TypeOK, Rule
      <4> QED
        BY <4>2, <4>3, PromiseNotEmpty
    <3> QED
      BY <3>1
  <2>5. Acceptable(request, kernelABI, NoDomain, {})
    BY <2>1, <2>2, <2>3, <2>4
    DEF Acceptable, DeniesByDefault, EveryRulePresent, NoExcessAuthority, NoDomain
  <2> QED
    BY <1>9, <2>1, <2>5 DEF RestrictNothing, ProgressInv, DecisionInv
<1>10. CASE CreateRuleset
  <2> DEFINE narrowed(r) == [r EXCEPT !.rights = @ \cap Handled]
             R == {narrowed(r) : r \in rules}
             d == [handled |-> Handled, flags |-> cfg.audit \cap Supported(kernelABI),
                   grants  |-> {}]
  <2>1. /\ pc = "restrict" /\ pc' = "add"
        /\ skipped = {} /\ skipped' = {}
        /\ rules' = R /\ ruleset' = d
        /\ ~cfg.bestEffort => Wanted \cup cfg.audit \subseteq Supported(kernelABI)
        /\ UNCHANGED <<request, kernelABI, cfg, outcome, domain>>
    BY <1>0, <1>10 DEF CreateRuleset, ProgressInv
  <2>2. /\ request \in Request
        /\ cfg.bestEffort = request.bestEffort
        /\ cfg.audit = request.audit
    BY <1>0, <2>1, RequestKnown
  <2>3. /\ Handled = Denied(request) \cap Supported(kernelABI)
        /\ ~cfg.bestEffort => Handled = Denied(request)
        /\ cfg.audit \subseteq Supported(kernelABI)
        /\ \A r \in rules : /\ <<r.class, r.name>> \in Requested(request)
                            /\ Promised[r.class] \subseteq r.rights \cap Handled
                            /\ r.rights \cap Withheld[r.class] = {}
    BY <1>0, <2>1, RulesetCreated
  <2>4. /\ d \in [handled : SUBSET Rights, flags : SUBSET AuditFlags, grants : SUBSET Rule]
        /\ d.handled = Handled
        /\ d.flags = cfg.audit
        /\ d.grants = {}
    <3>1. Handled \subseteq Rights
      BY <2>3 DEF Denied, Rights
    <3>2. cfg.audit \subseteq AuditFlags
      BY <2>2 DEF Request
    <3> QED
      BY <2>3, <3>1, <3>2
  <2>5. ASSUME NEW r \in rules
        PROVE  /\ narrowed(r).class = r.class
               /\ narrowed(r).name = r.name
               /\ narrowed(r).rights = r.rights \cap Handled
    BY <1>0, NarrowedRuleType DEF TypeOK
  <2> HIDE DEF narrowed, d
  <2>6. ASSUME NEW rule \in Requested(request)
        PROVE  \E g \in R : /\ g.class = rule[1]
                            /\ g.name = rule[2]
                            /\ Promised[g.class] \subseteq g.rights
    <3>1. PICK r \in rules : r.class = rule[1] /\ r.name = rule[2]
      BY <1>0, <2>1 DEF ProgressInv, HasRule
    <3>2. narrowed(r) \in R
      OBVIOUS
    <3> QED
      BY <2>3, <2>5, <3>1, <3>2
  <2>7. \A g \in R : /\ <<g.class, g.name>> \in Requested(request)
                     /\ g.rights \cap Withheld[g.class] = {}
    <3>1. ASSUME NEW r \in rules
          PROVE  /\ <<narrowed(r).class, narrowed(r).name>> \in Requested(request)
                 /\ narrowed(r).rights \cap Withheld[narrowed(r).class] = {}
      BY <2>3, <2>5
    <3> QED
      BY <3>1
  <2> HIDE DEF R
  <2>8. Acceptable(request, kernelABI, [d EXCEPT !.grants = @ \cup R], {})
    <3>1. d.grants \cup R = R
      BY <2>4
    <3>2. AcceptableParts(request, kernelABI, d, R, {})
      BY <2>2, <2>3, <2>4, <2>6, <2>7, <3>1 DEF AcceptableParts
    <3> QED
      BY <2>4, <3>2, CompleteAcceptable, Zenon
  <2>9. RulesetInv'
    BY <2>1, <2>8, Zenon DEF RulesetInv
  <2>10. ProgressInv'
    BY <1>0, <2>1, <2>9 DEF ProgressInv, TooOld
  <2> QED
    BY <1>0, <2>1, <2>10, RunningStep DEF TypeOK
<1>11. ASSUME NEW r \in rules, IgnoreMissingRule(r)
       PROVE  ProgressInv' /\ DecisionInv'
  <2>1. /\ pc = "add" /\ pc' = "add"
        /\ cfg.ignoreMissing
        /\ rules' = rules \ {r}
        /\ skipped' = skipped \cup {<<r.class, r.name>>}
        /\ UNCHANGED <<request, kernelABI, cfg, ruleset, outcome, domain>>
    BY <1>11 DEF IgnoreMissingRule, NextRule
  <2>2. request \in Request /\ request.ignoreMissing
    BY <1>0, <2>1, RequestKnown
  <2>3. RulesetInv
    BY <1>0, <2>1 DEF ProgressInv
  <2>4. ruleset \in [handled : SUBSET Rights, flags : SUBSET AuditFlags,
                     grants : SUBSET Rule]
    BY <1>0 DEF TypeOK
  <2>5. AcceptableParts(request, kernelABI, ruleset, rules, skipped)
    BY <2>3, <2>4, CompleteAcceptable, Zenon DEF RulesetInv
  <2>6. ASSUME NEW rule \in Requested(request) \ skipped'
        PROVE  \E g \in ruleset.grants \cup rules' :
                 /\ g.class = rule[1]
                 /\ g.name = rule[2]
                 /\ Promised[g.class] \subseteq g.rights
    <3>1. PICK g \in ruleset.grants \cup rules :
                 /\ g.class = rule[1]
                 /\ g.name = rule[2]
                 /\ Promised[g.class] \subseteq g.rights
      BY <2>1, <2>5 DEF AcceptableParts
    <3>2. rule = <<rule[1], rule[2]>>
      BY <2>2, RequestedRule
    <3>3. g # r
      BY <2>1, <3>1, <3>2
    <3> QED
      BY <2>1, <3>1, <3>3
  <2>7. Acceptable(request, kernelABI, [ruleset EXCEPT !.grants = @ \cup rules'], skipped')
    <3>1. AcceptableParts(request, kernelABI, ruleset, rules', skipped')
      BY <2>1, <2>2, <2>5, <2>6 DEF AcceptableParts
    <3> QED
      BY <2>4, <3>1, CompleteAcceptable, Zenon
  <2>8. RulesetInv'
    BY <2>1, <2>7, Zenon DEF RulesetInv
  <2>9. ProgressInv'
    BY <1>0, <2>1, <2>8 DEF ProgressInv, TooOld
  <2> QED
    BY <1>0, <2>1, <2>9, RunningStep DEF TypeOK
<1>12. ASSUME NEW r \in rules, RefuseRule(r)
       PROVE  ProgressInv' /\ DecisionInv'
  BY <1>0, <1>12, RefusalStep DEF RefuseRule, NextRule, TypeOK, Refusals
<1>13. ASSUME NEW r \in rules, AddRule(r)
       PROVE  ProgressInv' /\ DecisionInv'
  <2>1. /\ pc = "add" /\ pc' = "add"
        /\ rules' = rules \ {r}
        /\ ruleset' = [ruleset EXCEPT !.grants = @ \cup {r}]
        /\ UNCHANGED <<request, kernelABI, cfg, skipped, outcome, domain>>
    BY <1>13 DEF AddRule, NextRule
  <2>2. ruleset \in [handled : SUBSET Rights, flags : SUBSET AuditFlags,
                     grants : SUBSET Rule]
    BY <1>0 DEF TypeOK
  <2>3. [ruleset' EXCEPT !.grants = @ \cup rules'] = [ruleset EXCEPT !.grants = @ \cup rules]
    BY <2>1, <2>2
  <2>4. RulesetInv
    BY <1>0, <2>1 DEF ProgressInv
  <2>5. RulesetInv'
    BY <2>1, <2>3, <2>4, Zenon DEF RulesetInv
  <2>6. ProgressInv'
    BY <1>0, <2>1, <2>5 DEF ProgressInv, TooOld
  <2> QED
    BY <1>0, <2>1, <2>6, RunningStep DEF TypeOK
<1>14. CASE RestrictSelf
  <2>1. /\ pc = "add" /\ pc' = "returned" /\ rules = {}
        /\ UNCHANGED <<request, kernelABI, skipped>>
    BY <1>14 DEF RestrictSelf
  <2>2. CASE outcome' = "ok" /\ domain' = ruleset
    <3>1. RulesetInv
      BY <1>0, <2>1 DEF ProgressInv
    <3>2. [ruleset EXCEPT !.grants = @ \cup rules] = ruleset
      BY <1>0, <2>1 DEF TypeOK
    <3>3. Acceptable(request, kernelABI, ruleset, skipped)
      BY <3>1, <3>2, Zenon DEF RulesetInv
    <3> QED
      BY <2>1, <2>2, <3>3 DEF ProgressInv, DecisionInv
  <2>3. CASE outcome' = "kernel_limit" /\ UNCHANGED domain
    BY <1>0, <2>1, <2>3, RefusalStep DEF TypeOK, Refusals
  <2> QED
    BY <1>14, <2>2, <2>3 DEF RestrictSelf
<1>15. ASSUME NEW path \in Path, NEW target \in Target, Relink(path, target)
       PROVE  ProgressInv' /\ DecisionInv'
  BY <1>0, <1>15 DEF Relink, ProgressInv, DecisionInv, RulesetInv, TooOld, Collected
<1>16. CASE UNCHANGED vars
  BY <1>0, <1>16 DEF vars, ProgressInv, DecisionInv, RulesetInv, TooOld, Collected
<1> QED
  BY <1>1, <1>2, <1>3, <1>4, <1>5, <1>6, <1>7, <1>8, <1>9, <1>10, <1>11, <1>12,
     <1>13, <1>14, <1>15, <1>16 DEF Next, ApplyStep, Environment

\* The inductive invariant: types, what each step of Apply has established,
\* and the acceptability of the domain it leaves.
THEOREM InductiveInvariant == Spec => []IInv
<1>1. Init => IInv
  BY TypeInit, DecisionInit DEF IInv
<1>2. IInv /\ [Next]_vars => IInv'
  BY TypeNext, DecisionNext DEF IInv
<1> QED
  BY <1>1, <1>2, PTL DEF Spec

\* A successful Apply never dropped an explicit rule, with or without
\* --best-effort, whatever else renames or removes the paths meanwhile.
THEOREM NoRuleDroppedCorrect == Spec => []NoRuleDropped
<1>1. IInv => NoRuleDropped
  BY DEF IInv, DecisionInv, Acceptable, NoRuleDropped
<1> QED
  BY <1>1, InductiveInvariant, PTL

\* A successful Apply denies by default every right the request restricts and
\* the kernel knows; without --best-effort every right the request restricts.
THEOREM DenyByDefaultCorrect == Spec => []DenyByDefault
<1>1. IInv => DenyByDefault
  BY DEF IInv, DecisionInv, Acceptable, DenyByDefault
<1> QED
  BY <1>1, InductiveInvariant, PTL

\* A successful Apply grants nothing but the explicit rules, each within the
\* rights of its class.
THEOREM LeastAuthorityCorrect == Spec => []LeastAuthority
<1>1. IInv => LeastAuthority
  BY DEF IInv, DecisionInv, Acceptable, LeastAuthority
<1> QED
  BY <1>1, InductiveInvariant, PTL

-----------------------------------------------------------------------------
(* Apply implements the atomic decision of SandboxContract.                *)

\* The vocabulary of the contract is that of the implementation.
LEMMA ContractVocabulary ==
  /\ Contract!PathClasses = PathClasses
  /\ Contract!PortClasses = PortClasses
  /\ Contract!AuditFlags = AuditFlags
  /\ Contract!FullFSAccess = FullFSAccess
  /\ Contract!FullNetAccess = FullNetAccess
  /\ Contract!FullScoped = FullScoped
  /\ Contract!Rights = Rights
  /\ Contract!Domains = Domains
BY DEF Contract!PathClasses, PathClasses, Contract!PortClasses, PortClasses,
       Contract!AuditFlags, AuditFlags, Contract!FullFSAccess, FullFSAccess,
       Contract!MakeRights, MakeRights, Contract!FullNetAccess, FullNetAccess,
       Contract!FullScoped, FullScoped, Contract!Rights, Rights,
       Contract!Domains, Domains

LEMMA ContractMeaning ==
  /\ Contract!Introduced = Introduced
  /\ Contract!Promised = Promised
  /\ Contract!Withheld = Withheld
  /\ \A req : Contract!Denied(req) = Denied(req)
  /\ \A req : Contract!Requested(req) = Requested(req)
  /\ \A abi : Contract!Supported(abi) = Supported(abi)
  /\ Contract!NoDomain = NoDomain
  /\ Contract!Refusals = Refusals
  /\ Contract!Request = Request
<1> USE ContractVocabulary
<1>1. Contract!Introduced = Introduced
  BY DEF Contract!Introduced, Introduced
<1>2. Contract!Promised = Promised
  BY DEF Contract!Promised, Promised
<1>3. Contract!Withheld = Withheld
  BY DEF Contract!Withheld, Withheld
<1>4. \A req : Contract!Denied(req) = Denied(req)
  BY DEF Contract!Denied, Denied
<1>5. \A req : Contract!Requested(req) = Requested(req)
  BY DEF Contract!Requested, Requested, Contract!Range, Range
<1>6. \A abi : Contract!Supported(abi) = Supported(abi)
  BY <1>1 DEF Contract!Supported, Supported
<1>7. Contract!NoDomain = NoDomain /\ Contract!Refusals = Refusals
  BY DEF Contract!NoDomain, NoDomain, Contract!Refusals, Refusals
<1>8. Contract!Request = Request
  BY DEF Contract!Request, Request
<1> QED
  BY <1>1, <1>2, <1>3, <1>4, <1>5, <1>6, <1>7, <1>8

LEMMA ContractAcceptable ==
  ASSUME NEW req, NEW abi, NEW d, NEW skips
  PROVE  Contract!Acceptable(req, abi, d, skips) <=> Acceptable(req, abi, d, skips)
BY ContractMeaning
DEF Contract!Acceptable, Acceptable, Contract!DeniesByDefault, DeniesByDefault,
    Contract!EveryRulePresent, EveryRulePresent,
    Contract!NoExcessAuthority, NoExcessAuthority

\* Nothing changes the request or the kernel, and nothing happens to a process
\* whose Apply has returned.
LEMMA InputsFixed ==
  ASSUME TypeOK, [Next]_vars
  PROVE  /\ UNCHANGED <<request, kernelABI>>
         /\ outcome # "running" => UNCHANGED <<outcome, domain>>
<1> USE DEF inputs, environment, local, Return, Continue
<1>1. outcome # "running" => pc = "returned"
  BY DEF TypeOK
<1>2. CASE RejectInvalid
  BY <1>1, <1>2 DEF RejectInvalid
<1>3. CASE Validate
  BY <1>1, <1>3 DEF Validate
<1>4. CASE RefuseOldKernel
  BY <1>1, <1>4 DEF RefuseOldKernel
<1>5. CASE NothingToRestrict
  BY <1>1, <1>5 DEF NothingToRestrict
<1>6. CASE StartCollecting
  BY <1>1, <1>6 DEF StartCollecting
<1>7. CASE \E rule \in todo : CollectPath(rule)
  BY <1>1, <1>7 DEF CollectPath
<1>8. CASE FinishCollecting
  BY <1>1, <1>8 DEF FinishCollecting
<1>9. CASE RefuseStrictKernel
  BY <1>1, <1>9 DEF RefuseStrictKernel
<1>10. CASE RestrictNothing
  BY <1>1, <1>10 DEF RestrictNothing
<1>11. CASE CreateRuleset
  BY <1>1, <1>11 DEF CreateRuleset
<1>12. CASE \E r \in rules : IgnoreMissingRule(r) \/ RefuseRule(r) \/ AddRule(r)
  BY <1>1, <1>12 DEF IgnoreMissingRule, RefuseRule, AddRule, NextRule
<1>13. CASE RestrictSelf
  BY <1>1, <1>13 DEF RestrictSelf
<1>14. CASE Environment
  BY <1>1, <1>14 DEF Environment, Relink
<1>15. CASE UNCHANGED vars
  BY <1>15 DEF vars
<1> QED
  BY <1>2, <1>3, <1>4, <1>5, <1>6, <1>7, <1>8, <1>9, <1>10, <1>11, <1>12, <1>13,
     <1>14, <1>15 DEF Next, ApplyStep

\* Whatever its system calls are interleaved with, Apply amounts to one atomic
\* decision: it refuses and leaves the process unconfined, or it confines it in
\* one step under an acceptable domain; never a domain in part.
THEOREM ApplyImplementsContract == Spec => Implements
<1>1. Init => Contract!ContractInit
  BY InputAssumption, ContractMeaning DEF Init, Contract!ContractInit
<1>2. ASSUME IInv, IInv', [Next]_vars
      PROVE  [Contract!ContractNext]_(Contract!contractVars)
  <2> USE DEF IInv
  <2>1. /\ UNCHANGED <<request, kernelABI>>
        /\ outcome # "running" => UNCHANGED <<outcome, domain>>
    BY <1>2, InputsFixed
  <2>2. CASE outcome # "running"
    BY <2>1, <2>2 DEF Contract!contractVars
  <2>3. CASE outcome = "running" /\ outcome' = "running"
    <3>1. UNCHANGED domain
      BY <1>2, <2>3 DEF DecisionInv
    <3> QED
      BY <2>1, <2>3, <3>1 DEF Contract!contractVars
  <2>4. CASE outcome = "running" /\ outcome' = "ok"
    <3>1. Acceptable(request, kernelABI, domain', skipped')
      BY <1>2, <2>1, <2>4 DEF DecisionInv
    <3>2. Contract!Confine
      BY <2>1, <2>4, <3>1, ContractAcceptable DEF Contract!Confine
    <3> QED
      BY <3>2 DEF Contract!ContractNext
  <2>5. CASE outcome = "running" /\ outcome' \in Refusals
    <3>1. UNCHANGED domain
      BY <1>2, <2>5 DEF DecisionInv, Refusals
    <3>2. Contract!Refuse
      BY <2>1, <2>5, <3>1, ContractMeaning DEF Contract!Refuse
    <3> QED
      BY <3>2 DEF Contract!ContractNext
  <2>6. outcome' \in {"running", "ok"} \cup Refusals
    BY <1>2 DEF TypeOK
  <2> QED
    BY <2>2, <2>3, <2>4, <2>5, <2>6
<1> QED
  BY <1>1, <1>2, InductiveInvariant, PTL DEF Spec, Implements, Contract!ContractSpec

-----------------------------------------------------------------------------
(* What Apply reports, and why it refuses.                                 *)

\* The report that will be logged is that of the normalised request on this
\* kernel, which passed the checks.
ReportInv ==
  (pc \in {"collect", "restrict", "add"} \/ outcome = "ok") =>
    /\ ValidConfig(request)
    /\ cfg = Normalize(request)
    /\ ~TooOld
    /\ report = EffectivePolicyForABI(cfg, kernelABI)

\* The rule of a directory has the rights of a directory, and the rule of
\* anything else can be granted on anything else.
Kinds(r) ==
  IsPathRule(r) =>
    /\ names[r.name] \in Directory <=> "read_dir" \in r.rights
    /\ names[r.name] \notin Directory => r.rights \subseteq FileRights

\* Every rule, wherever it is on its way to the domain, matches the inode its
\* path names, as long as no path has changed.
KindInv ==
  relinks = 0 => \A r \in rules \cup ruleset.grants \cup domain.grants : Kinds(r)

ReasonInv == IInv /\ ReportInv /\ KindInv /\ RefusalsAreExplained

\* The level a handled right or a flag raises the policy to is the ABI that
\* introduced it.
LEMMA LevelIsIntroduced ==
  ASSUME NEW r \in Rights \cup AuditFlags
  PROVE  PolicyLevel(r) = Introduced[r]
<1> USE DEF PolicyLevel, Introduced, Rights, FullFSAccess, MakeRights, FullNetAccess,
            FullScoped, AuditFlags
<1>1. CASE r \in AuditFlags
  BY <1>1
<1>2. CASE r \in FullScoped
  BY <1>2
<1>3. CASE r \in FullNetAccess
  BY <1>3
<1>4. CASE r \in FullFSAccess
  BY <1>4
<1> QED
  BY <1>1, <1>2, <1>3, <1>4

\* The ABIs of a kernel newer than the contract change nothing.
LEMMA SupportedUpToContract ==
  ASSUME NEW abi \in Nat
  PROVE  Supported(abi) = Supported(IF abi < MaxPolicyABI THEN abi ELSE MaxPolicyABI)
<1>1. \A r \in Rights \cup AuditFlags : Introduced[r] \in 1 .. MaxPolicyABI
  BY DEF Introduced, MaxPolicyABI
<1> QED
  BY <1>1 DEF Supported, MaxPolicyABI

\* The rights landrun believes a kernel handles are those it supports.
LEMMA BelievedRights ==
  ASSUME NEW abi \in Nat
  PROVE  /\ FilesystemRightsForABI(abi) = FullFSAccess \cap Supported(abi)
         /\ FullNetAccess \cap Supported(abi) = IF abi >= 4 THEN FullNetAccess ELSE {}
         /\ FullScoped \cap Supported(abi) = IF abi >= 6 THEN FullScoped ELSE {}
<1>1. \A r \in FullFSAccess :
        Introduced[r] = CASE r = "refer"        -> 2
                          [] r = "truncate"     -> 3
                          [] r = "ioctl_dev"    -> 5
                          [] r = "resolve_unix" -> 9
                          [] OTHER              -> 1
  BY DEF Introduced, Rights, FullFSAccess, MakeRights, FullNetAccess, FullScoped, AuditFlags
<1>2. \A r \in FullNetAccess : Introduced[r] = 4
  BY DEF Introduced, Rights, FullNetAccess, FullScoped, AuditFlags
<1>3. \A r \in FullScoped : Introduced[r] = 6
  BY DEF Introduced, Rights, FullNetAccess, FullScoped, AuditFlags
<1>4. \A r \in Rights : r \in Supported(abi) <=> Introduced[r] <= abi
  BY DEF Supported
<1>5. /\ FullFSAccess \subseteq Rights
      /\ FullNetAccess \subseteq Rights
      /\ FullScoped \subseteq Rights
  BY DEF Rights
<1>6. ASSUME NEW r \in FullFSAccess
      PROVE  r \in Supported(abi) <=> /\ abi >= 1
                                      /\ r = "resolve_unix" => abi >= 9
                                      /\ r = "ioctl_dev"    => abi >= 5
                                      /\ r = "truncate"     => abi >= 3
                                      /\ r = "refer"        => abi >= 2
  <2>1. CASE r = "refer"
    BY <1>1, <1>4, <1>5, <2>1
  <2>2. CASE r = "truncate"
    BY <1>1, <1>4, <1>5, <2>2
  <2>3. CASE r = "ioctl_dev"
    BY <1>1, <1>4, <1>5, <2>3
  <2>4. CASE r = "resolve_unix"
    BY <1>1, <1>4, <1>5, <2>4
  <2>5. CASE r \notin {"refer", "truncate", "ioctl_dev", "resolve_unix"}
    BY <1>1, <1>4, <1>5, <2>5
  <2> QED
    BY <2>1, <2>2, <2>3, <2>4, <2>5
<1>7. FilesystemRightsForABI(abi) = FullFSAccess \cap Supported(abi)
  BY <1>6 DEF FilesystemRightsForABI
<1>8. FullNetAccess \cap Supported(abi) = IF abi >= 4 THEN FullNetAccess ELSE {}
  BY <1>2, <1>4, <1>5
<1>9. FullScoped \cap Supported(abi) = IF abi >= 6 THEN FullScoped ELSE {}
  BY <1>3, <1>4, <1>5
<1> QED
  BY <1>7, <1>8, <1>9

\* The effective policy, field by field, in the terms of the promise.
LEMMA EffectivePolicyFields ==
  ASSUME NEW config \in Config, NEW abi \in Nat,
         NEW policy, policy = EffectivePolicyForABI(config, abi)
  PROVE  /\ policy.handled = Denied(config) \cap Supported(abi)
         /\ policy.auditFlags = IF policy.handled # {} /\ abi >= 7 THEN config.audit ELSE {}
         /\ policy.applied <=> policy.handled # {}
         /\ policy.policyABI =
              Largest({0} \cup {PolicyLevel(r) : r \in policy.handled \cup policy.auditFlags})
<1> DEFINE eff    == IF abi < MaxPolicyABI THEN abi ELSE MaxPolicyABI
           fs     == IF "filesystem" \notin config.unrestricted
                     THEN FilesystemRightsForABI(eff) ELSE {}
           net    == IF "network" \notin config.unrestricted /\ eff >= 4
                     THEN FullNetAccess ELSE {}
           scopes == IF "scoped" \notin config.unrestricted /\ eff >= 6
                     THEN FullScoped ELSE {}
           handled == fs \cup net \cup scopes
           flags  == IF handled # {} /\ eff >= 7 THEN config.audit ELSE {}
           level  == Largest({0} \cup {PolicyLevel(r) : r \in handled \cup flags})
           applied == handled # {}
           threads == handled # {} /\ abi >= 8
<1>1. eff \in Nat /\ (eff >= 7 <=> abi >= 7)
  BY DEF MaxPolicyABI
<1>2. Supported(abi) = Supported(eff)
  BY SupportedUpToContract
<1> HIDE DEF eff
<1>3. /\ FilesystemRightsForABI(eff) = FullFSAccess \cap Supported(eff)
      /\ FullNetAccess \cap Supported(eff) = IF eff >= 4 THEN FullNetAccess ELSE {}
      /\ FullScoped \cap Supported(eff) = IF eff >= 6 THEN FullScoped ELSE {}
  BY <1>1, BelievedRights
<1>4. handled = Denied(config) \cap Supported(abi)
  <2>1. fs = (IF "filesystem" \in config.unrestricted THEN {} ELSE FullFSAccess)
               \cap Supported(eff)
    BY <1>3
  <2>2. net = (IF "network" \in config.unrestricted THEN {} ELSE FullNetAccess)
                \cap Supported(eff)
    BY <1>3
  <2>3. scopes = (IF "scoped" \in config.unrestricted THEN {} ELSE FullScoped)
                   \cap Supported(eff)
    BY <1>3
  <2> HIDE DEF fs, net, scopes
  <2> QED
    BY <1>2, <2>1, <2>2, <2>3 DEF Denied
<1>5. EffectivePolicyForABI(config, abi) =
        [applied            |-> applied,
         kernelABI          |-> abi,
         policyABI          |-> level,
         bestEffort         |-> config.bestEffort,
         handled            |-> handled,
         auditFlags         |-> flags,
         threadSynchronized |-> threads]
  BY DEF EffectivePolicyForABI, eff
<1>6. flags = IF handled # {} /\ abi >= 7 THEN config.audit ELSE {}
  BY <1>1
<1>7. level = Largest({0} \cup {PolicyLevel(r) : r \in handled \cup flags})
  OBVIOUS
<1>8. applied <=> handled # {}
  OBVIOUS
<1> HIDE DEF handled, flags, level, applied, threads
<1>9. policy = [applied            |-> applied,
                kernelABI          |-> abi,
                policyABI          |-> level,
                bestEffort         |-> config.bestEffort,
                handled            |-> handled,
                auditFlags         |-> flags,
                threadSynchronized |-> threads]
  BY <1>5
<1>10. policy.applied <=> applied
  <2>1. policy.applied = applied
    BY <1>9, SMT
  <2> QED
    BY <2>1, Zenon
<1>11. policy.handled = handled /\ policy.auditFlags = flags /\ policy.policyABI = level
  BY <1>9
<1> QED
  BY <1>4, <1>6, <1>7, <1>8, <1>10, <1>11

\* The policy's ABI supports what the policy handles, and no lower ABI does.
LEMMA LowestLevel ==
  ASSUME NEW S, S \subseteq Rights \cup AuditFlags,
         NEW level, level = Largest({0} \cup {PolicyLevel(r) : r \in S})
  PROVE  /\ S \subseteq Supported(level)
         /\ \A abi \in 0 .. level - 1 : ~(S \subseteq Supported(abi))
<1> DEFINE levels == {0} \cup {PolicyLevel(r) : r \in S}
<1>1. \A r \in S : PolicyLevel(r) = Introduced[r]
  BY LevelIsIntroduced
<1>2. \A r : PolicyLevel(r) \in 0 .. MaxPolicyABI
  BY DEF PolicyLevel, MaxPolicyABI
<1>3. levels \subseteq 0 .. MaxPolicyABI /\ levels # {}
  BY <1>2 DEF MaxPolicyABI
<1>4. level \in levels /\ \A n \in levels : n <= level
  BY <1>3, LargestABI
<1>5. S \subseteq Supported(level)
  <2>1. ASSUME NEW r \in S
        PROVE  Introduced[r] <= level
    BY <1>1, <1>4
  <2> QED
    BY <2>1 DEF Supported
<1>6. ASSUME NEW abi \in 0 .. level - 1, S \subseteq Supported(abi)
      PROVE  FALSE
  <2>1. level \in Nat /\ level # 0 /\ abi < level
    BY <1>3, <1>4, <1>6 DEF MaxPolicyABI
  <2>2. PICK r \in S : level = PolicyLevel(r)
    BY <1>4, <2>1
  <2>3. level <= abi
    BY <1>1, <1>6, <2>2 DEF Supported
  <2> QED
    BY <2>1, <2>3, <1>6
<1> QED
  BY <1>5, <1>6

\* What passed the checks is known when Apply succeeds, too.
LEMMA SuccessKnown ==
  ASSUME TypeOK, ReportInv, outcome = "ok"
  PROVE  /\ request \in Request /\ kernelABI \in Nat /\ cfg \in Config
         /\ ValidConfig(request)
         /\ cfg = Normalize(request)
         /\ Denied(cfg) = Denied(request)
         /\ cfg.audit = request.audit
         /\ RequiredABI(cfg) > 0 => kernelABI >= RequiredABI(cfg)
         /\ report = EffectivePolicyForABI(cfg, kernelABI)
<1>1. request \in Request /\ kernelABI \in Nat /\ cfg \in Config
  BY InputAssumption DEF TypeOK
<1>2. RequiredABI(cfg) \in Nat
  BY <1>1, RequiredABIBounds DEF MaxPolicyABI
<1> QED
  BY <1>1, <1>2, NormalizeFields DEF ReportInv, TooOld

LEMMA TruthfulReport ==
  ASSUME TypeOK, DecisionInv, ReportInv
  PROVE  ReportIsTruthful
<1> SUFFICES ASSUME outcome = "ok"
             PROVE  /\ report.handled = domain.handled
                    /\ report.auditFlags = domain.flags
                    /\ report.applied <=> domain # NoDomain
  BY DEF ReportIsTruthful
<1>1. /\ request \in Request /\ kernelABI \in Nat /\ cfg \in Config
      /\ ValidConfig(request)
      /\ cfg = Normalize(request)
      /\ Denied(cfg) = Denied(request)
      /\ cfg.audit = request.audit
      /\ RequiredABI(cfg) > 0 => kernelABI >= RequiredABI(cfg)
      /\ report = EffectivePolicyForABI(cfg, kernelABI)
  BY SuccessKnown
<1>2. /\ domain.handled = Denied(request) \cap Supported(kernelABI)
      /\ domain.flags = request.audit
      /\ \A g \in domain.grants : <<g.class, g.name>> \in Requested(request)
  BY DEF DecisionInv, Acceptable, DeniesByDefault, NoExcessAuthority
<1>3. /\ report.handled = Denied(cfg) \cap Supported(kernelABI)
      /\ report.auditFlags = IF report.handled # {} /\ kernelABI >= 7 THEN cfg.audit ELSE {}
      /\ report.applied <=> report.handled # {}
  BY <1>1, EffectivePolicyFields
<1>4. report.handled = domain.handled
  BY <1>1, <1>2, <1>3
<1>5. request.audit # {} => kernelABI >= 7 /\ domain.handled # {}
  <2>1. request.audit # {} => kernelABI >= 7 /\ request.unrestricted # Domains
    BY <1>1, AuditSupported DEF ValidConfig
  <2> QED
    BY <1>1, <1>2, <2>1, SomethingDenied
<1>6. report.auditFlags = domain.flags
  <2>1. CASE request.audit = {}
    BY <1>1, <1>2, <1>3, <2>1
  <2>2. CASE request.audit # {}
    BY <1>1, <1>2, <1>3, <1>4, <1>5, <2>2
  <2> QED
    BY <2>1, <2>2
<1>7. domain # NoDomain => domain.handled # {}
  <2> SUFFICES ASSUME domain.handled = {}
               PROVE  domain = NoDomain
    OBVIOUS
  <2>1. domain.flags = {}
    BY <1>2, <1>5
  <2>2. domain.grants = {}
    <3> SUFFICES ASSUME NEW g \in domain.grants
                 PROVE  FALSE
      OBVIOUS
    <3>1. <<g.class, g.name>> \in Requested(request)
      BY <1>2
    <3>2. /\ g.class \in PathClasses \cup PortClasses
          /\ Promised[g.class] \subseteq Denied(request) \cap Supported(kernelABI)
      BY <1>1, <3>1, PromisesSupported
    <3> QED
      BY <1>2, <3>2, PromiseNotEmpty
  <2>3. domain \in [handled : SUBSET Rights, flags : SUBSET AuditFlags, grants : SUBSET Rule]
    BY DEF TypeOK
  <2> QED
    BY <2>1, <2>2, <2>3 DEF NoDomain
<1>8. domain.handled # {} => domain # NoDomain
  BY DEF NoDomain
<1> QED
  BY <1>3, <1>4, <1>6, <1>7, <1>8, Zenon

LEMMA LowestABI ==
  ASSUME TypeOK, ReportInv
  PROVE  PolicyABIIsLowest
<1> SUFFICES ASSUME outcome = "ok"
             PROVE  LET described(abi) ==
                          report.handled \cup report.auditFlags \subseteq Supported(abi)
                    IN  /\ described(report.policyABI)
                        /\ \A abi \in 0 .. report.policyABI - 1 : ~described(abi)
  BY DEF PolicyABIIsLowest
<1>1. /\ kernelABI \in Nat /\ cfg \in Config
      /\ report = EffectivePolicyForABI(cfg, kernelABI)
  BY SuccessKnown
<1>2. report.policyABI =
        Largest({0} \cup {PolicyLevel(r) : r \in report.handled \cup report.auditFlags})
  BY <1>1, EffectivePolicyFields
<1>3. report.handled \cup report.auditFlags \subseteq Rights \cup AuditFlags
  BY DEF TypeOK, EffectivePolicy
<1> QED
  BY <1>2, <1>3, LowestLevel

\* Each explicit control needs the ABI of a right it promises.
LEMMA PromiseNeedsControl ==
  ASSUME NEW c \in PathClasses \cup PortClasses
  PROVE  \E r \in Promised[c] : r \in Rights /\ Introduced[r] = ControlABI[c]
<1> USE DEF Promised, PathClasses, PortClasses, ControlABI, Introduced, Rights, FullFSAccess,
            MakeRights, FullNetAccess, FullScoped, AuditFlags
<1>1. CASE c \in {"ro", "rox"}
  <2>1. "read_file" \in Promised[c] /\ Introduced["read_file"] = 1
    BY <1>1
  <2> QED
    BY <1>1, <2>1
<1>2. CASE c \in {"rw", "rwx"}
  <2>1. "truncate" \in Promised[c] /\ Introduced["truncate"] = 3
    BY <1>2
  <2> QED
    BY <1>2, <2>1
<1>3. CASE c = "unix"
  <2>1. "resolve_unix" \in Promised[c] /\ Introduced["resolve_unix"] = 9
    BY <1>3
  <2> QED
    BY <1>3, <2>1
<1>4. CASE c = "bind"
  <2>1. "bind_tcp" \in Promised[c] /\ Introduced["bind_tcp"] = 4
    BY <1>4
  <2> QED
    BY <1>4, <2>1
<1>5. CASE c = "connect"
  <2>1. "connect_tcp" \in Promised[c] /\ Introduced["connect_tcp"] = 4
    BY <1>5
  <2> QED
    BY <1>5, <2>1
<1> QED
  BY <1>1, <1>2, <1>3, <1>4, <1>5

\* A kernel older than the required ABI lacks something the user was promised.
LEMMA OldKernelLacksPromise ==
  ASSUME NEW req \in Request, ValidConfig(req), NEW abi \in Nat,
         RequiredABI(Normalize(req)) > 0, abi < RequiredABI(Normalize(req))
  PROVE  \/ req.audit \ Supported(abi) # {}
         \/ \E rule \in Requested(req) : ~(Promised[rule[1]] \subseteq Supported(abi))
<1> DEFINE config == Normalize(req)
<1>1. config \in Config
  BY NormalizeType
<1>2. PICK c \in ExplicitControls(config) : RequiredABI(config) = ControlABI[c]
  <2> DEFINE S == {0} \cup {ControlABI[k] : k \in ExplicitControls(config)}
  <2>1. \A k \in ExplicitControls(config) : ControlABI[k] \in 0 .. MaxPolicyABI
    BY DEF ExplicitControls, ControlABI, MaxPolicyABI, PathClasses, PortClasses
  <2>2. S \subseteq 0 .. MaxPolicyABI /\ S # {}
    BY <2>1 DEF MaxPolicyABI
  <2>3. RequiredABI(config) \in S
    BY <2>2, LargestABI DEF RequiredABI
  <2> QED
    BY <2>3
<1>3. CASE c \in PathClasses \cup PortClasses
  <2>1. PICK subject : <<c, subject>> \in Requested(req)
    <3>1. CASE c \in PathClasses
      <4>1. config.paths[c] # {} /\ config.paths[c] = Range(req.paths[c])
        BY <1>2, <3>1, NormalizeFields DEF ExplicitControls, PathClasses, PortClasses
      <4>2. PICK p \in Range(req.paths[c]) : TRUE
        BY <4>1
      <4> QED
        BY <3>1, <4>2, RequestedRule
    <3>2. CASE c \in PortClasses
      <4>1. config.ports[c] # {} /\ config.ports[c] = Range(req.ports[c])
        BY <1>2, <3>2, NormalizeFields DEF ExplicitControls, PathClasses, PortClasses
      <4>2. PICK n \in Range(req.ports[c]) : TRUE
        BY <4>1
      <4> QED
        BY <3>2, <4>2, RequestedRule
    <3> QED
      BY <1>3, <3>1, <3>2
  <2>2. PICK r \in Promised[c] : r \in Rights /\ Introduced[r] = ControlABI[c]
    BY <1>3, PromiseNeedsControl
  <2>3. ControlABI[c] \in 0 .. 9
    BY <1>3 DEF ControlABI, PathClasses, PortClasses
  <2>4. r \notin Supported(abi)
    BY <1>2, <2>2, <2>3 DEF Supported
  <2> QED
    BY <2>1, <2>2, <2>4
<1>4. CASE c = "audit"
  <2>1. config.audit # {} /\ config.audit = req.audit
    BY <1>2, <1>4, NormalizeFields DEF ExplicitControls, PathClasses, PortClasses
  <2>2. PICK f \in req.audit : f \in AuditFlags
    BY <2>1 DEF Request
  <2>3. Introduced[f] = 7
    BY <2>2 DEF Introduced, AuditFlags, FullNetAccess, FullScoped
  <2>4. f \notin Supported(abi)
    BY <1>2, <1>4, <2>3 DEF Supported, ControlABI
  <2> QED
    BY <2>2, <2>4
<1> QED
  BY <1>2, <1>3, <1>4 DEF ExplicitControls

LEMMA ReportInit == Init => ReportInv
BY DEF Init, ReportInv

LEMMA ReportNext ==
  ASSUME TypeOK, ProgressInv, ReportInv, [Next]_vars
  PROVE  ReportInv'
<1> USE DEF inputs, environment, local, Return, Continue, ReportInv, TooOld
<1>0. (outcome = "running") <=> (pc # "returned")
  BY DEF TypeOK
<1>1. CASE RejectInvalid
  BY <1>0, <1>1 DEF RejectInvalid
<1>2. CASE Validate
  BY <1>0, <1>2 DEF Validate
<1>3. CASE RefuseOldKernel
  BY <1>0, <1>3 DEF RefuseOldKernel
<1>4. CASE NothingToRestrict
  BY <1>4 DEF NothingToRestrict, ProgressInv
<1>5. CASE StartCollecting
  BY <1>5 DEF StartCollecting, ProgressInv
<1>6. CASE \E rule \in todo : CollectPath(rule)
  BY <1>6 DEF CollectPath
<1>7. CASE FinishCollecting
  BY <1>7 DEF FinishCollecting
<1>8. CASE RefuseStrictKernel
  BY <1>8 DEF RefuseStrictKernel
<1>9. CASE RestrictNothing
  BY <1>9 DEF RestrictNothing
<1>10. CASE CreateRuleset
  BY <1>10 DEF CreateRuleset
<1>11. CASE \E r \in rules : IgnoreMissingRule(r) \/ RefuseRule(r) \/ AddRule(r)
  BY <1>11 DEF IgnoreMissingRule, RefuseRule, AddRule, NextRule
<1>12. CASE RestrictSelf
  BY <1>12 DEF RestrictSelf
<1>13. CASE Environment
  BY <1>13 DEF Environment, Relink
<1>14. CASE UNCHANGED vars
  BY <1>14 DEF vars
<1> QED
  BY <1>1, <1>2, <1>3, <1>4, <1>5, <1>6, <1>7, <1>8, <1>9, <1>10, <1>11, <1>12,
     <1>13, <1>14 DEF Next, ApplyStep

\* The rights of a path rule tell whether a directory was seen.
LEMMA RightsOfKind ==
  ASSUME NEW c \in PathClasses, NEW dir \in BOOLEAN
  PROVE  /\ dir <=> "read_dir" \in PathRights(c, dir)
         /\ ~dir => PathRights(c, dir) \subseteq FileRights
<1> USE DEF PathRights, GetReadOnlyRights, GetReadOnlyExecutableRights, GetReadWriteRights,
            GetReadWriteExecutableRights, GetUnixSocketRights, ForDirectory, TreeRights,
            PathClasses, FileRights
<1>1. CASE dir = TRUE
  BY <1>1
<1>2. CASE dir = FALSE
  BY <1>2
<1> QED
  BY <1>1, <1>2

LEMMA KindInit == Init => KindInv
BY DEF Init, KindInv, NoDomain

LEMMA KindNext ==
  ASSUME TypeOK, ProgressInv, KindInv, [Next]_vars
  PROVE  KindInv'
<1> USE DEF inputs, environment, local, Return, Continue
<1>1. CASE RejectInvalid \/ Validate \/ RefuseOldKernel \/ NothingToRestrict \/ StartCollecting
  BY <1>1 DEF RejectInvalid, Validate, RefuseOldKernel, NothingToRestrict, StartCollecting,
     KindInv, Kinds
<1>2. ASSUME NEW rule \in todo, CollectPath(rule)
      PROVE  KindInv'
  <2> DEFINE dir == IsDirectory(rule[2])
             new == [class  |-> rule[1],
                     name   |-> rule[2],
                     rights |-> PathRights(rule[1], dir)]
  <2>1. rule[1] \in PathClasses
    BY DEF TypeOK
  <2>2. /\ rules' = rules \cup {new}
        /\ UNCHANGED <<names, relinks, ruleset, domain>>
    BY <1>2 DEF CollectPath
  <2>3. /\ names[rule[2]] \in Directory => dir = TRUE
        /\ names[rule[2]] \notin Directory => dir = FALSE
    BY DEF IsDirectory
  <2>4. /\ new.class = rule[1]
        /\ new.name = rule[2]
        /\ new.rights = PathRights(rule[1], dir)
    OBVIOUS
  <2> HIDE DEF dir, new
  <2>5. Kinds(new)
    BY <2>1, <2>3, <2>4, RightsOfKind DEF Kinds
  <2> QED
    BY <2>2, <2>5 DEF KindInv, Kinds, IsPathRule
<1>3. CASE FinishCollecting
  <2>1. \A r \in PortRules(cfg) : ~IsPathRule(r)
    BY DEF PortRules, IsPathRule, PathClasses, PortClasses
  <2>2. /\ rules' \subseteq rules \cup PortRules(cfg)
        /\ UNCHANGED <<names, relinks, ruleset, domain>>
    BY <1>3 DEF FinishCollecting
  <2> QED
    BY <2>1, <2>2 DEF KindInv, Kinds, IsPathRule
<1>4. CASE RefuseStrictKernel \/ RestrictNothing
  BY <1>4 DEF RefuseStrictKernel, RestrictNothing, KindInv, Kinds
<1>5. CASE CreateRuleset
  <2> DEFINE narrowed(r) == [r EXCEPT !.rights = @ \cap Handled]
  <2>1. /\ pc = "restrict"
        /\ ~cfg.bestEffort => Wanted \cup cfg.audit \subseteq Supported(kernelABI)
        /\ ruleset'.grants = {}
        /\ rules' = {narrowed(r) : r \in rules}
        /\ UNCHANGED <<names, relinks, domain>>
    BY <1>5 DEF CreateRuleset
  <2>2. ASSUME NEW r \in rules
        PROVE  /\ narrowed(r).class = r.class
               /\ narrowed(r).name = r.name
               /\ narrowed(r).rights = r.rights \cap Handled
    BY NarrowedRuleType DEF TypeOK
  <2> HIDE DEF narrowed
  <2>3. ASSUME NEW r \in rules, IsPathRule(r)
        PROVE  "read_dir" \in Handled
    <3>1. /\ Handled = Denied(request) \cap Supported(kernelABI)
          /\ <<r.class, r.name>> \in Requested(request)
      BY <2>1, RulesetCreated
    <3>2. /\ request \in Request
          /\ kernelABI \in Nat
          /\ ValidConfig(request)
          /\ cfg = Normalize(request)
      BY <2>1, RequestKnown
    <3>3. RequiredABI(Normalize(request)) > 0 => kernelABI >= RequiredABI(Normalize(request))
      <4>1. ~TooOld
        BY <2>1 DEF ProgressInv
      <4>2. RequiredABI(Normalize(request)) \in Nat
        BY <3>2, NormalizeType, RequiredABIBounds DEF MaxPolicyABI
      <4> QED
        BY <3>2, <4>1, <4>2 DEF TooOld
    <3> QED
      BY <2>3, <3>1, <3>2, <3>3, PromisesSupported DEF IsPathRule
  <2>4. ASSUME NEW r \in rules, Kinds(r)
        PROVE  Kinds(narrowed(r))
    BY <2>2, <2>3, <2>4 DEF Kinds, IsPathRule
  <2> QED
    BY <2>1, <2>4 DEF KindInv, Kinds, IsPathRule
<1>6. ASSUME NEW r \in rules, IgnoreMissingRule(r) \/ RefuseRule(r)
      PROVE  KindInv'
  BY <1>6 DEF IgnoreMissingRule, RefuseRule, NextRule, KindInv, Kinds
<1>7. ASSUME NEW r \in rules, AddRule(r)
      PROVE  KindInv'
  <2>1. /\ rules' \subseteq rules
        /\ ruleset'.grants = ruleset.grants \cup {r}
        /\ UNCHANGED <<names, relinks, domain>>
    BY <1>7 DEF AddRule, NextRule, TypeOK
  <2> QED
    BY <2>1 DEF KindInv, Kinds, IsPathRule
<1>8. CASE RestrictSelf
  BY <1>8 DEF RestrictSelf, KindInv, Kinds, IsPathRule
<1>9. CASE Environment
  BY <1>9, InputAssumption DEF Environment, Relink, KindInv, TypeOK
<1>10. CASE UNCHANGED vars
  BY <1>10 DEF vars, KindInv, Kinds, IsPathRule
<1> QED
  BY <1>1, <1>2, <1>3, <1>4, <1>5, <1>6, <1>7, <1>8, <1>9, <1>10 DEF Next, ApplyStep

\* The refusals, one by one.
LEMMA ReasonNext ==
  ASSUME IInv, KindInv, RefusalsAreExplained, [Next]_vars
  PROVE  RefusalsAreExplained'
<1> USE DEF inputs, environment, local, Return, Continue
<1>0. TypeOK /\ ProgressInv
  BY DEF IInv
<1>1. pc # "returned" => outcome = "running"
  BY <1>0 DEF TypeOK
<1>2. CASE outcome' \in {"running", "ok", "invalid", "unreachable", "kernel_limit"}
  BY <1>2 DEF RefusalsAreExplained
<1>3. CASE RefuseOldKernel
  <2>1. /\ request \in Request /\ kernelABI \in Nat
        /\ ValidConfig(request)
        /\ cfg = Normalize(request)
    BY <1>0, <1>3, RequestKnown DEF RefuseOldKernel
  <2>2. RequiredABI(Normalize(request)) > 0 /\ kernelABI < RequiredABI(Normalize(request))
    BY <1>3, <2>1 DEF RefuseOldKernel, TooOld
  <2>3. \/ request.audit \ Supported(kernelABI) # {}
        \/ \E rule \in Requested(request) :
             ~(Promised[rule[1]] \subseteq Supported(kernelABI))
    BY <2>1, <2>2, OldKernelLacksPromise
  <2>4. outcome' = "old_kernel" /\ UNCHANGED <<request, kernelABI>>
    BY <1>3 DEF RefuseOldKernel
  <2> QED
    BY <2>3, <2>4 DEF RefusalsAreExplained
<1>4. CASE RefuseStrictKernel
  <2>1. /\ Wanted = Denied(request)
        /\ cfg.bestEffort = request.bestEffort
        /\ cfg.audit = request.audit
    BY <1>0, <1>4, RequestKnown DEF RefuseStrictKernel
  <2> QED
    BY <1>4, <2>1 DEF RefuseStrictKernel, RefusalsAreExplained
<1>5. ASSUME NEW r \in rules, RefuseRule(r)
      PROVE  RefusalsAreExplained'
  <2>1. /\ pc = "add" /\ IsPathRule(r)
        /\ UNCHANGED <<request, kernelABI, relinks>>
    BY <1>5 DEF RefuseRule, NextRule
  <2>2. cfg.ignoreMissing = request.ignoreMissing
    BY <1>0, <2>1, RequestKnown
  <2>3. CASE ~cfg.ignoreMissing /\ outcome' = "missing"
    BY <2>1, <2>2, <2>3 DEF RefusalsAreExplained
  <2>4. CASE outcome' = "unreachable"
    BY <1>2, <2>4
  <2>5. CASE /\ names[r.name] \in Object \ Directory
             /\ ~(r.rights \subseteq FileRights)
             /\ outcome' = "wrong_kind"
    <3>1. relinks # 0
      BY <2>1, <2>5 DEF KindInv, Kinds
    <3>2. relinks \in Nat
      BY <1>0, InputAssumption DEF TypeOK
    <3> QED
      BY <2>1, <2>5, <3>1, <3>2 DEF RefusalsAreExplained
  <2> QED
    BY <1>5, <2>3, <2>4, <2>5 DEF RefuseRule
<1>6. CASE UNCHANGED <<inputs, outcome, relinks>>
  BY <1>6 DEF RefusalsAreExplained
<1>7. CASE RejectInvalid \/ NothingToRestrict \/ RestrictNothing \/ RestrictSelf
  BY <1>2, <1>7 DEF RejectInvalid, NothingToRestrict, RestrictNothing, RestrictSelf
<1>8. CASE Validate \/ StartCollecting \/ FinishCollecting \/ CreateRuleset
  BY <1>6, <1>8 DEF Validate, StartCollecting, FinishCollecting, CreateRuleset
<1>9. CASE \E rule \in todo : CollectPath(rule)
  BY <1>6, <1>9 DEF CollectPath
<1>10. CASE \E r \in rules : IgnoreMissingRule(r) \/ AddRule(r)
  BY <1>6, <1>10 DEF IgnoreMissingRule, AddRule
<1>11. CASE Environment
  BY <1>1, <1>2, <1>11 DEF Environment, Relink
<1>12. CASE UNCHANGED vars
  BY <1>6, <1>12 DEF vars
<1> QED
  BY <1>3, <1>4, <1>5, <1>7, <1>8, <1>9, <1>10, <1>11, <1>12 DEF Next, ApplyStep

\* The inductive invariant of the report and of the refusals.
THEOREM ReasonInvariant == Spec => []ReasonInv
<1>1. Init => ReportInv /\ KindInv /\ RefusalsAreExplained
  BY ReportInit, KindInit DEF Init, RefusalsAreExplained
<1>2. ReasonInv /\ IInv' /\ [Next]_vars => ReasonInv'
  BY ReportNext, KindNext, ReasonNext DEF ReasonInv, IInv
<1>3. IInv /\ ReportInv /\ KindInv /\ RefusalsAreExplained <=> ReasonInv
  BY DEF ReasonInv
<1> QED
  BY <1>1, <1>2, <1>3, InductiveInvariant, PTL DEF Spec

\* The effective policy Apply logs is the domain the kernel enforces, on every
\* kernel, with or without --best-effort: landrun's own table of rights and
\* go-landlock's downgrade never drift apart.
THEOREM ReportIsTruthfulCorrect == Spec => []ReportIsTruthful
<1>1. ReasonInv => ReportIsTruthful
  BY TruthfulReport DEF ReasonInv, IInv
<1> QED
  BY <1>1, ReasonInvariant, PTL

\* The PolicyABI of the report describes all that the report handles, and no
\* lower ABI does.
THEOREM PolicyABIIsLowestCorrect == Spec => []PolicyABIIsLowest
<1>1. ReasonInv => PolicyABIIsLowest
  BY LowestABI DEF ReasonInv, IInv
<1> QED
  BY <1>1, ReasonInvariant, PTL

\* Apply refuses a kernel only when it lacks a right the user was promised (or
\* any right of the contract, without --best-effort), and a path for its kind
\* only when the path changed between the stat and the open.
THEOREM RefusalsAreExplainedCorrect == Spec => []RefusalsAreExplained
<1>1. ReasonInv => RefusalsAreExplained
  BY DEF ReasonInv
<1> QED
  BY <1>1, ReasonInvariant, PTL

\* While nobody renames anything, the rules of a successful Apply carry the
\* rights of a directory exactly where a directory is.
THEOREM RightsMatchKindCorrect == Spec => []RightsMatchKind
<1>1. ReasonInv => RightsMatchKind
  BY DEF ReasonInv, KindInv, Kinds, RightsMatchKind
<1> QED
  BY <1>1, ReasonInvariant, PTL
=============================================================================
