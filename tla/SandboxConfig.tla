--------------------------- MODULE SandboxConfig ---------------------------
(***************************************************************************)
(* The configuration of a sandbox and the pure functions Apply decides     *)
(* with: validation and normalisation, the ABI a configuration requires,   *)
(* and the policy a kernel will effectively enforce                        *)
(* (internal/sandbox/sandbox.go).                                          *)
(*                                                                         *)
(* A request is a configuration as the command line and the policy file    *)
(* give it, with lists; a normalised configuration has sets (the code's    *)
(* sorted lists without duplicates).                                       *)
(***************************************************************************)
EXTENDS LandlockABI, Sequences, Functions

CONSTANTS Path,      \* the path strings a configuration may name
          EmptyPath  \* the empty path string

ASSUME EmptyPathAssumption == EmptyPath \notin Path

Domains == {"filesystem", "network", "scoped"}

MaxTCPPort == 65535

\* Mutated form: the upper bound is off by one.
TCPPortsOneMore(class) == (IF class = "bind" THEN 0 ELSE 1) .. MaxTCPPort + 1

TCPPorts(class) == (IF class = "bind" THEN 0 ELSE 1) .. MaxTCPPort

Request ==
  [paths         : [PathClasses -> Seq(Path \cup {EmptyPath})],
   ports         : [PortClasses -> Seq(Int)],
   unrestricted  : SUBSET Domains,
   bestEffort    : BOOLEAN,
   ignoreMissing : BOOLEAN,
   audit         : SUBSET AuditFlags]

Config ==
  [paths         : [PathClasses -> SUBSET Path],
   ports         : [PortClasses -> SUBSET (0 .. MaxTCPPort)],
   unrestricted  : SUBSET Domains,
   bestEffort    : BOOLEAN,
   ignoreMissing : BOOLEAN,
   audit         : SUBSET AuditFlags]

\* Config{}
ZeroConfig ==
  [paths         |-> [c \in PathClasses |-> {}],
   ports         |-> [c \in PortClasses |-> {}],
   unrestricted  |-> {},
   bestEffort    |-> FALSE,
   ignoreMissing |-> FALSE,
   audit         |-> {}]

-----------------------------------------------------------------------------
(* ValidateConfig                                                          *)

\* The request is accepted: no rule contradicts a domain left unrestricted,
\* audit flags have a domain to log about, paths and ports are well formed.
ValidConfig(req) ==
  /\ "filesystem" \in req.unrestricted =>
       \A c \in PathClasses : req.paths[c] = <<>>
  /\ "network" \in req.unrestricted =>
       \A c \in PortClasses : req.ports[c] = <<>>
  /\ req.unrestricted = Domains => req.audit = {}
  /\ \A c \in PathClasses : EmptyPath \notin Range(req.paths[c])
  /\ \A c \in PortClasses : Range(req.ports[c]) \subseteq TCPPorts(c)

\* normalizePaths and normalizePorts of every list.
Normalize(req) ==
  [req EXCEPT !.paths = [c \in PathClasses |-> Range(req.paths[c])],
              !.ports = [c \in PortClasses |-> Range(req.ports[c])]]

-----------------------------------------------------------------------------
(* RequiredABI                                                             *)

\* The ABI each kind of explicit control needs.
ControlABI ==
  [ro |-> 1, rox |-> 1, rw |-> 3, rwx |-> 3, unix |-> 9,
   bind |-> 4, connect |-> 4, audit |-> 7]

ExplicitControls(cfg) ==
  {c \in PathClasses : cfg.paths[c] # {}}
    \cup {c \in PortClasses : cfg.ports[c] # {}}
    \cup {c \in {"audit"} : cfg.audit # {}}

Largest(S) == CHOOSE m \in S : \A n \in S : n <= m

\* Mutated form: a configuration with port rules forgets what its other
\* controls need.
RequiredABIPortsOnly(cfg) ==
  IF \E c \in PortClasses : cfg.ports[c] # {} THEN 4
  ELSE Largest({0} \cup {ControlABI[c] : c \in ExplicitControls(cfg)})

\* Mutated form: a write rule is thought to need ABI 1 only.
RequiredABIWriteOne(cfg) ==
  Largest({0} \cup {IF c \in {"rw", "rwx"} THEN 1 ELSE ControlABI[c] :
                      c \in ExplicitControls(cfg)})

RequiredABI(cfg) ==
  Largest({0} \cup {ControlABI[c] : c \in ExplicitControls(cfg)})

-----------------------------------------------------------------------------
(* effectivePolicyForABI                                                   *)

EffectivePolicy ==
  [applied            : BOOLEAN,
   kernelABI          : Nat,
   policyABI          : 0 .. MaxPolicyABI,
   bestEffort         : BOOLEAN,
   handled            : SUBSET Rights,
   auditFlags         : SUBSET AuditFlags,
   threadSynchronized : BOOLEAN]

\* EffectivePolicy{}
ZeroPolicy ==
  [applied            |-> FALSE,
   kernelABI          |-> 0,
   policyABI          |-> 0,
   bestEffort         |-> FALSE,
   handled            |-> {},
   auditFlags         |-> {},
   threadSynchronized |-> FALSE]

\* The ABI a handled right, scope or flag raises PolicyABI to.
PolicyLevel(r) ==
  CASE r = "resolve_unix"   -> 9
    [] r \in AuditFlags     -> 7
    [] r \in FullScoped     -> 6
    [] r = "ioctl_dev"      -> 5
    [] r \in FullNetAccess  -> 4
    [] r = "truncate"       -> 3
    [] r = "refer"          -> 2
    [] OTHER                -> 1

\* Mutated form: the ABI of the kernel is reported as that of the policy.
EffectivePolicyForABIAsKernel(cfg, kernelABI) ==
  LET abi      == IF kernelABI < MaxPolicyABI THEN kernelABI ELSE MaxPolicyABI
      fs       == IF "filesystem" \notin cfg.unrestricted
                  THEN FilesystemRightsForABI(abi) ELSE {}
      net      == IF "network" \notin cfg.unrestricted /\ abi >= 4
                  THEN FullNetAccess ELSE {}
      scopes   == IF "scoped" \notin cfg.unrestricted /\ abi >= 6
                  THEN FullScoped ELSE {}
      handled  == fs \cup net \cup scopes
      flags    == IF handled # {} /\ abi >= 7 THEN cfg.audit ELSE {}
  IN  [applied            |-> handled # {},
       kernelABI          |-> kernelABI,
       policyABI          |-> IF handled # {} THEN abi ELSE 0,
       bestEffort         |-> cfg.bestEffort,
       handled            |-> handled,
       auditFlags         |-> flags,
       threadSynchronized |-> handled # {} /\ kernelABI >= 8]

EffectivePolicyForABI(cfg, kernelABI) ==
  LET abi      == IF kernelABI < MaxPolicyABI THEN kernelABI ELSE MaxPolicyABI
      fs       == IF "filesystem" \notin cfg.unrestricted
                  THEN FilesystemRightsForABI(abi) ELSE {}
      net      == IF "network" \notin cfg.unrestricted /\ abi >= 4
                  THEN FullNetAccess ELSE {}
      scopes   == IF "scoped" \notin cfg.unrestricted /\ abi >= 6
                  THEN FullScoped ELSE {}
      handled  == fs \cup net \cup scopes
      flags    == IF handled # {} /\ abi >= 7 THEN cfg.audit ELSE {}
  IN  [applied            |-> handled # {},
       kernelABI          |-> kernelABI,
       policyABI          |-> Largest({0} \cup {PolicyLevel(r) : r \in handled \cup flags}),
       bestEffort         |-> cfg.bestEffort,
       handled            |-> handled,
       auditFlags         |-> flags,
       threadSynchronized |-> handled # {} /\ kernelABI >= 8]
=============================================================================
