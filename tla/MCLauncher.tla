----------------------------- MODULE MCLauncher ----------------------------
(***************************************************************************)
(* Small instances of Launcher: a binary, with an interpreter or static,   *)
(* that may be replaced by a program --ldd cannot read or resolve, one of  *)
(* an ABI it does not know, a script or data; its interpreter; and the     *)
(* directory of the binary, which may itself be put in the binary's place. *)
(***************************************************************************)
EXTENDS Launcher, TLC

CONSTANTS bin, ld, dir, app, tool, other, broken, foreign, script, data, loader, dirnode, k1, k2, v1, v2

MCPath == {bin, ld, dir}
MCInode == {app, tool, other, broken, foreign, script, data, loader, dirnode}

Program(kind, readable, interp, resolvable) ==
  [kind |-> kind, readable |-> readable, interp |-> interp,
   libs |-> <<>>, resolvable |-> resolvable]

MCFiles ==
  app :> Program("dynamic", TRUE, ld, TRUE)
    @@ tool :> Program("static", TRUE, None, TRUE)
    @@ other :> Program("dynamic", FALSE, ld, TRUE)
    @@ broken :> Program("dynamic", TRUE, ld, FALSE)
    @@ foreign :> Program("static", TRUE, None, FALSE)
    @@ script :> Program("script", TRUE, None, TRUE)
    @@ data :> Program("data", TRUE, None, TRUE)
    @@ loader :> Program("static", TRUE, None, TRUE)
    @@ dirnode :> Program("data", TRUE, None, TRUE)

MCBeneath == [i \in MCInode |-> IF i = dirnode THEN MCInode \ {loader, dirnode} ELSE {}]

MCNamings ==
  {bin :> i @@ ld :> loader @@ dir :> dirnode : i \in {app, tool, other, broken, foreign, script}}

MCKey == {k1, k2}
MCValue == {v1, v2}
MCEnviron == k1 :> v1 @@ k2 :> Unset

EnvLists ==
  {<<>>,
   <<[key |-> k2, value |-> None], [key |-> k1, value |-> None], [key |-> k2, value |-> v2]>>}

PathPolicy(class, switches, env) ==
  [PolicyFromCommand([NoOptions EXCEPT !.switches = switches,
                                       !.strings[class] = <<dir>>]) EXCEPT !.env = env]

Bare(switches, env) ==
  [PolicyFromCommand([NoOptions EXCEPT !.switches = switches]) EXCEPT !.env = env]

MCPolicies ==
  {Bare(s \cup h, env) : s \in {{}, {"best-effort"}},
                         h \in SUBSET {"add-exec", "ldd"}, env \in EnvLists}
    \cup {PathPolicy(c, h, <<>>) : c \in {"ro", "rox"}, h \in SUBSET {"add-exec", "ldd"}}
    \cup {PathPolicy("rwx", {"ignore-missing", "add-exec"}, <<>>)}
    \cup {Bare({"unrestricted-filesystem"} \cup h, <<>>) : h \in SUBSET {"add-exec", "ldd"}}

MCKernelABIs == {0, 2, 9}
=============================================================================
