---------------------------- MODULE MCPolicyFile ---------------------------
(***************************************************************************)
(* Small instances of PolicyFile: texts of up to three members from a pool *)
(* that has every way a member can be wrong.                               *)
(***************************************************************************)
EXTENDS PolicyFile, TLC

CONSTANTS p1, p2, e1, e2

MCPath == {p1, p2, e1, e2}

Value(type) == [NoValue EXCEPT !.type = type]
Strings(s) == [Value("strings") EXCEPT !.strings = s]
Ints(s) == [Value("ints") EXCEPT !.ints = s]

Member(field, exact, value) == [field |-> field, exact |-> exact, value |-> value]

VersionMember(n) == Member("version", TRUE, [Value("int") EXCEPT !.ints = <<n>>])

GoodMembers ==
  {Member("ro", TRUE, Strings(<<p1>>)),
   Member("rox", TRUE, Strings(<<p2, p1>>)),
   Member("rwx", TRUE, Strings(<<p1>>)),
   Member("env", TRUE, Strings(<<e1>>)),
   Member("connect-tcp", TRUE, Ints(<<443>>)),
   Member("preserve-fd", TRUE, Ints(<<3>>)),
   Member("unrestricted-filesystem", TRUE, [Value("bool") EXCEPT !.on = TRUE]),
   Member("unrestricted-network", TRUE, [Value("bool") EXCEPT !.on = TRUE]),
   Member("unrestricted-network", TRUE, Value("bool")),
   Member("log-disable-originating", TRUE, [Value("bool") EXCEPT !.on = TRUE]),
   Member("add-exec", TRUE, [Value("bool") EXCEPT !.on = TRUE])}

BadMembers ==
  {Member("ro", FALSE, Strings(<<p2>>)),
   Member("ro", TRUE, NoValue),
   Member("rox", TRUE, [Strings(<<p1>>) EXCEPT !.nullItem = TRUE]),
   Member("bind-tcp", TRUE, [Ints(<<>>) EXCEPT !.nullItem = TRUE]),
   Member("connect-tcp", TRUE, Strings(<<p1>>)),
   Member("unknown", TRUE, Strings(<<>>)),
   Member("version", FALSE, [Value("int") EXCEPT !.ints = <<2>>])}

Text(top, members, trailing, size) ==
  [kind |-> "regular", top |-> top, members |-> members, trailing |-> trailing, size |-> size]

Object(members) == Text("object", members, FALSE, 5)

Pool == GoodMembers \cup BadMembers

MCContents ==
  {Object(<<VersionMember(1), m, n>>) : m, n \in Pool}
    \cup {Object(<<m, VersionMember(v)>>) : m \in Pool, v \in {0, 1, 2}}
    \cup {Text("object", <<VersionMember(1), m>>, trailing, size) :
            m \in GoodMembers, trailing \in BOOLEAN, size \in {MaxSize, MaxSize + 1}}
    \cup {Text(top, <<>>, FALSE, 1) : top \in {"object", "array", "scalar", "null", "malformed"}}
    \cup {[Object(<<VersionMember(1)>>) EXCEPT !.kind = k] : k \in Kinds}

MCEdits ==
  {Object(<<VersionMember(1), Member("rwx", TRUE, Strings(<<p2>>))>>),
   Object(<<Member("ro", TRUE, Strings(<<p1>>))>>)}

With(strings, ints, switches) ==
  [strings  |-> strings @@ NoOptions.strings,
   ints     |-> ints @@ NoOptions.ints,
   switches |-> switches]

None == [f \in {} |-> <<>>]

MCCommands ==
  {NoOptions,
   With("ro" :> <<p2>> @@ "env" :> <<e2, e1>>, "preserve-fd" :> <<4>>, {"ldd"}),
   With("rwx" :> <<p1>>, None, {"best-effort"}),
   With("rox" :> <<p2>>, "connect-tcp" :> <<443, 80>>, {"add-exec", "unrestricted-scoped"}),
   With(None, None, {"unrestricted-filesystem", "unrestricted-network", "unrestricted-scoped"})}
=============================================================================
