--------------------------- MODULE MCSandboxApply --------------------------
(***************************************************************************)
(* Small instances of SandboxApply: two paths, one directory and one file. *)
(***************************************************************************)
EXTENDS SandboxApply, TLC

CONSTANTS p1, p2, d1, f1

MCPath == {p1, p2}
MCObject == {d1, f1}
MCDirectory == {d1}

\* Every kernel: without Landlock, each ABI of the contract, and a newer one.
AllKernelABIs == 0 .. 10

NoPaths == [c \in PathClasses |-> <<>>]
NoPorts == [c \in PortClasses |-> <<>>]

\* One path in one class, as the flags and policy files give it: --rox and
\* --rwx are also listed as --ro and --rw.
OnePath ==
  {[NoPaths EXCEPT !["ro"] = <<p1>>],
   [NoPaths EXCEPT !["ro"] = <<p1>>, !["rox"] = <<p1>>],
   [NoPaths EXCEPT !["rw"] = <<p1>>],
   [NoPaths EXCEPT !["rw"] = <<p1>>, !["rwx"] = <<p1>>],
   [NoPaths EXCEPT !["unix"] = <<p1>>]}

TwoPaths ==
  {[NoPaths EXCEPT !["ro"] = <<p1, p2, p1>>],
   [NoPaths EXCEPT !["rox"] = <<p2>>, !["rw"] = <<p1>>],
   [NoPaths EXCEPT !["rw"] = <<p2>>, !["unix"] = <<p1>>]}

BadPaths == {[NoPaths EXCEPT !["rw"] = <<p1, EmptyPath>>]}

Ports ==
  {[NoPorts EXCEPT !["bind"] = <<0>>],
   [NoPorts EXCEPT !["bind"] = <<8080, 8080>>, !["connect"] = <<65535>>]}

BadPorts ==
  {[NoPorts EXCEPT !["connect"] = <<0>>],
   [NoPorts EXCEPT !["bind"] = <<65536>>],
   [NoPorts EXCEPT !["connect"] = <<-1>>]}

MakeRequests(paths, ports, unrestricted, ignoreMissing, audit) ==
  [paths : paths, ports : ports, unrestricted : unrestricted,
   bestEffort : BOOLEAN, ignoreMissing : ignoreMissing, audit : audit]

\* Every combination of one path rule, port rules, unrestricted domains, audit
\* flags and --best-effort; every way a list can be malformed.
MatrixRequests ==
  MakeRequests({NoPaths} \cup OnePath, {NoPorts} \cup Ports, SUBSET Domains, {FALSE},
               {{}, {"disable_originating", "disable_subdomains"}})
    \cup MakeRequests({NoPaths} \cup BadPaths, {NoPorts} \cup BadPorts,
                      {{}, {"scoped"}}, {FALSE}, {{}})
    \cup MakeRequests(TwoPaths, {NoPorts}, {{}}, BOOLEAN, {{}})

\* A directory and a file, and each way a path may fail to be either.
MatrixNamings == {p1 :> d1 @@ p2 :> f1, p1 :> f1 @@ p2 :> d1}

\* Path rules only, for the runs in which the filesystem changes.
RaceRequests ==
  MakeRequests(OnePath \cup TwoPaths, {NoPorts}, {{}}, BOOLEAN, {{}})

RaceKernelABIs == {1, 3, 9}

RaceNamings == [MCPath -> Target]
=============================================================================
