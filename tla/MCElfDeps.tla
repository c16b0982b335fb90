----------------------------- MODULE MCElfDeps -----------------------------
(***************************************************************************)
(* Small instances of ElfDeps: a binary, its interpreter and two libraries *)
(* that may need each other, themselves and the binary, each in any of     *)
(* several directories, readable or not.                                   *)
(***************************************************************************)
EXTENDS ElfDeps, TLC

Rel(names) == [abs |-> FALSE, names |-> names]
Origin(names) == [origin |-> TRUE, path |-> Rel(names)]
Plain(path) == [origin |-> FALSE, path |-> path]

File(abi, interp, needed, rpath, runpath, readable) ==
  [abi |-> abi, interp |-> interp, needed |-> needed, rpath |-> rpath,
   runpath |-> runpath, readable |-> readable]

Ld == <<Abs(<<"lib64">>), "ld">>

Library(abi, needed, readable) == File(abi, NoFile, needed, <<Origin(<<>>)>>, <<>>, readable)

Tree(home, main, others, cache) ==
  [binary |-> <<home, "main">>, files |-> <<home, "main">> :> main @@ others, cache |-> cache]

App == Abs(<<"app">>)

Lists == {<<>>, <<"a">>, <<"b", "a">>, <<"main", "a", "b", "a">>}

\* Directories below, at and far from the binary.
Places == {App, Abs(<<"app", "lib">>), Abs(<<"lib64">>), Abs(<<"usr", "lib">>)}

Searches ==
  {<<<<>>, <<>>>>,
   <<<<>>, <<Plain(Rel(<<>>))>>>>,
   <<<<Plain(Rel(<<>>)), Origin(<<"lib">>)>>, <<Origin(<<>>)>>>>,
   <<<<Plain(Rel(<<"lib">>))>>, <<Plain(App)>>>>}

\* The graphs: who needs whom, and where the libraries are.
Graphs ==
  {Tree(App, File("x86_64", Ld, needs[1], search[1], search[2], TRUE),
        <<place, "a">> :> Library("x86_64", needs[2], TRUE)
          @@ <<Abs(<<"lib64">>), "b">> :> Library("x86_64", needs[3], TRUE)
          @@ Ld :> Library("x86_64", <<>>, TRUE), TRUE) :
     needs \in Lists \X Lists \X Lists, search \in Searches, place \in Places}

\* What can be wrong with a file: unreadable, missing, or of another machine.
Faults ==
  {Tree(App, File(abi[1], interp, needs, <<Origin(<<"lib">>)>>, <<>>, readable[1]),
        <<Abs(<<"app", "lib">>), "a">> :> Library(abi[2], <<"b">>, readable[2])
          @@ <<Abs(<<"usr", "lib">>), "b">> :> Library(abi[1], <<"a">>, readable[3]),
        FALSE) :
     interp \in {NoFile, Ld}, needs \in Lists,
     abi \in {"x86_64", "armhf", "arm_ambiguous"} \X {"x86_64", "riscv64"},
     readable \in BOOLEAN \X BOOLEAN \X BOOLEAN}

\* A library that the search finds to be ld.so.cache.
Caches ==
  {Tree(App, File("x86_64", NoFile, needs, <<Plain(Abs(<<"etc">>))>>, <<>>, TRUE),
        CacheFile :> File("none", NoFile, <<>>, <<>>, <<>>, FALSE)
          @@ <<Abs(<<"usr", "lib">>), "a">> :> Library("x86_64", <<"a">>, TRUE), cache) :
     needs \in {<<"a", "ld.so.cache">>, <<"ld.so.cache">>}, cache \in BOOLEAN}

MCTrees == Graphs \cup Faults \cup Caches

\* The same binary started by a relative path.
RelativeTrees ==
  {Tree(Rel(<<"build">>), File("x86_64", NoFile, <<"a">>, <<entry>>, <<>>, TRUE),
        <<place, "a">> :> Library("x86_64", needed, TRUE), cache) :
     entry \in {Origin(<<"lib">>), Plain(Rel(<<"lib">>)), Plain(Abs(<<"opt">>))},
     place \in {Rel(<<"build", "lib">>), Abs(<<"opt">>), Abs(<<"lib64">>)},
     needed \in Lists, cache \in BOOLEAN}

\* A library of another ABI in front of the right one.
MixedTrees ==
  {Tree(App, File("x86_64", NoFile, <<"a">>, <<>>, <<>>, TRUE),
        <<place, "a">> :> Library("i386", needed, TRUE)
          @@ <<Abs(<<"usr", "local", "lib">>), "a">> :> Library("x86_64", needed, TRUE), cache) :
     place \in Places, needed \in Lists, cache \in BOOLEAN}
=============================================================================
