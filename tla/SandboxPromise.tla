-------------------------- MODULE SandboxPromise ---------------------------
(***************************************************************************)
(* What a configuration means to the user who wrote it, and when a         *)
(* Landlock domain honours it.  Written from the documented meaning of the *)
(* controls, not from the functions that build the rules.                  *)
(***************************************************************************)
EXTENDS SandboxConfig

NoDomain == [handled |-> {}, flags |-> {}, grants |-> {}]

Refusals == {"invalid", "old_kernel", "strict_kernel", "missing", "unreachable",
             "wrong_kind", "kernel_limit"}

-----------------------------------------------------------------------------
(* The meaning of a configuration.                                         *)

\* The rights denied by default.
Denied(req) ==
  (IF "filesystem" \in req.unrestricted THEN {} ELSE FullFSAccess)
    \cup (IF "network" \in req.unrestricted THEN {} ELSE FullNetAccess)
    \cup (IF "scoped" \in req.unrestricted THEN {} ELSE FullScoped)

\* What the user of a class of rules counts on, whatever the path is.
Promised ==
  [c \in PathClasses \cup PortClasses |->
     CASE c = "ro"      -> {"read_file"}
       [] c = "rox"     -> {"read_file", "execute"}
       [] c = "rw"      -> {"read_file", "write_file", "truncate"}
       [] c = "rwx"     -> {"read_file", "write_file", "truncate", "execute"}
       [] c = "unix"    -> {"resolve_unix"}
       [] c = "bind"    -> {"bind_tcp"}
       [] c = "connect" -> {"connect_tcp"}]

\* What a class of rules never lets through.
Withheld ==
  [c \in PathClasses \cup PortClasses |->
     CASE c = "ro"      -> Rights \ {"read_file", "read_dir"}
       [] c = "rox"     -> Rights \ {"read_file", "read_dir", "execute"}
       [] c = "rw"      -> {"execute", "resolve_unix"}
       [] c = "rwx"     -> {"resolve_unix"}
       [] c = "unix"    -> Rights \ {"read_file", "read_dir", "resolve_unix"}
       [] c = "bind"    -> Rights \ {"bind_tcp"}
       [] c = "connect" -> Rights \ {"connect_tcp"}]

\* The <<class, subject>> pairs of the explicit rules.
Requested(req) ==
  (UNION {{<<c, p>> : p \in Range(req.paths[c])} : c \in PathClasses})
    \cup (UNION {{<<c, n>> : n \in Range(req.ports[c])} : c \in PortClasses})

-----------------------------------------------------------------------------
(* What makes a domain acceptable for a request.                           *)

\* Every right the request restricts is denied by default, down to what the
\* kernel can enforce, and without --best-effort down to nothing less.
DeniesByDefault(req, abi, d) ==
  /\ d.handled = Denied(req) \cap Supported(abi)
  /\ ~req.bestEffort => d.handled = Denied(req)
  /\ d.flags = req.audit

\* Every explicit rule is in the domain with all the rights its class
\* promises, but for the missing paths the user asked to ignore.
EveryRulePresent(req, d, skips) ==
  /\ \A rule \in Requested(req) \ skips :
       \E g \in d.grants : /\ g.class = rule[1]
                           /\ g.name = rule[2]
                           /\ Promised[g.class] \subseteq g.rights
  /\ skips # {} => req.ignoreMissing

\* No grant comes from anything but an explicit rule, nor exceeds its class.
NoExcessAuthority(req, d) ==
  \A g \in d.grants : /\ <<g.class, g.name>> \in Requested(req)
                      /\ g.rights \cap Withheld[g.class] = {}

Acceptable(req, abi, d, skips) ==
  /\ DeniesByDefault(req, abi, d)
  /\ EveryRulePresent(req, d, skips)
  /\ NoExcessAuthority(req, d)
=============================================================================
