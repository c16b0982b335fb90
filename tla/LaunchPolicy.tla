---------------------------- MODULE LaunchPolicy ---------------------------
(***************************************************************************)
(* What a launch is asked to do, and how the two places that may ask, the  *)
(* command line and a policy file, become one policy (cmd/landrun/main.go, *)
(* cmd/landrun/policy.go).                                                 *)
(*                                                                         *)
(* Options are what one source says: the strings of each list of strings,  *)
(* the numbers of each list of integers, and the switches that are on.     *)
(* The names are those of the flags, which are also the keys of the file.  *)
(***************************************************************************)
EXTENDS SandboxConfig

StringLists == PathClasses \cup {"env"}

IntLists == {"bind-tcp", "connect-tcp", "preserve-fd"}

PortFlag == [bind |-> "bind-tcp", connect |-> "connect-tcp"]

UnrestrictedFlag ==
  [filesystem |-> "unrestricted-filesystem",
   network    |-> "unrestricted-network",
   scoped     |-> "unrestricted-scoped"]

AuditFlag ==
  [disable_originating |-> "log-disable-originating",
   enable_subprocesses |-> "log-enable-subprocesses",
   disable_subdomains  |-> "log-disable-subdomains"]

Switches ==
  Range(UnrestrictedFlag) \cup Range(AuditFlag)
    \cup {"best-effort", "ignore-missing", "ldd", "add-exec"}

Options ==
  [strings  : [StringLists -> Seq(Path \cup {EmptyPath})],
   ints     : [IntLists -> Seq(Int)],
   switches : SUBSET Switches]

NoOptions ==
  [strings  |-> [f \in StringLists |-> <<>>],
   ints     |-> [f \in IntLists |-> <<>>],
   switches |-> {}]

-----------------------------------------------------------------------------
(* From options to a policy.  The code says it twice, once for each source.*)

\* --rox and --rwx are read rights as well.
WithReadRights(lists) ==
  [ro   |-> lists["ro"] \o lists["rox"],
   rox  |-> lists["rox"],
   rw   |-> lists["rw"] \o lists["rwx"],
   rwx  |-> lists["rwx"],
   unix |-> lists["unix"]]

PolicyOf(options, paths) ==
  [sandbox  |-> [paths         |-> paths,
                 ports         |-> [c \in PortClasses |-> options.ints[PortFlag[c]]],
                 unrestricted  |-> {d \in Domains : UnrestrictedFlag[d] \in options.switches},
                 bestEffort    |-> "best-effort" \in options.switches,
                 ignoreMissing |-> "ignore-missing" \in options.switches,
                 audit         |-> {a \in AuditFlags : AuditFlag[a] \in options.switches}],
   env      |-> options.strings["env"],
   preserve |-> options.ints["preserve-fd"],
   ldd      |-> "ldd" \in options.switches,
   addExec  |-> "add-exec" \in options.switches]

\* policyFile.launchPolicy
FilePolicy(options) == PolicyOf(options, WithReadRights(options.strings))

\* Mutated form: --rox and --rwx of the command line are not read rights.
PolicyFromCommandBare(options) ==
  PolicyOf(options, [c \in PathClasses |-> options.strings[c]])

PolicyFromCommand(options) == PolicyOf(options, WithReadRights(options.strings))

\* launchPolicy{}
ZeroLaunchPolicy == FilePolicy(NoOptions)

-----------------------------------------------------------------------------
(* mergeLaunchPolicies: lists are joined, the base's first; a switch of    *)
(* either is a switch of both.                                             *)

MergeSandboxes(base, additional) ==
  [paths         |-> [c \in PathClasses |-> base.paths[c] \o additional.paths[c]],
   ports         |-> [c \in PortClasses |-> base.ports[c] \o additional.ports[c]],
   unrestricted  |-> base.unrestricted \cup additional.unrestricted,
   bestEffort    |-> base.bestEffort \/ additional.bestEffort,
   ignoreMissing |-> base.ignoreMissing \/ additional.ignoreMissing,
   audit         |-> base.audit \cup additional.audit]

MergeInto(sandbox, base, additional) ==
  [sandbox  |-> sandbox,
   env      |-> base.env \o additional.env,
   preserve |-> base.preserve \o additional.preserve,
   ldd      |-> base.ldd \/ additional.ldd,
   addExec  |-> base.addExec \/ additional.addExec]

\* Mutated form: a network one source leaves unrestricted loses the port rules
\* of the other.
MergeUnrestrictedWins(base, additional) ==
  LET merged == MergeSandboxes(base.sandbox, additional.sandbox)
  IN  MergeInto(IF "network" \in merged.unrestricted
                THEN [merged EXCEPT !.ports = [c \in PortClasses |-> <<>>]] ELSE merged,
                base, additional)

MergeLaunchPolicies(base, additional) ==
  MergeInto(MergeSandboxes(base.sandbox, additional.sandbox), base, additional)

-----------------------------------------------------------------------------
(* What the documentation says of a policy made of two sources.            *)

\* Both sources written on one command line, the file's options first.
JoinOptions(first, second) ==
  [strings  |-> [f \in StringLists |-> first.strings[f] \o second.strings[f]],
   ints     |-> [f \in IntLists |-> first.ints[f] \o second.ints[f]],
   switches |-> first.switches \cup second.switches]

\* The rules a source has in a domain.
RulesIn(options, domain) ==
  CASE domain = "filesystem" -> UNION {Range(options.strings[c]) : c \in PathClasses}
    [] domain = "network"    -> UNION {Range(options.ints[PortFlag[c]]) : c \in PortClasses}
    [] OTHER                 -> {}

Unrestricts(options, domain) == UnrestrictedFlag[domain] \in options.switches
=============================================================================
