------------------------------ MODULE ElfDeps ------------------------------
(***************************************************************************)
(* Library dependencies of a binary (internal/elfdeps/elfdeps.go): a work  *)
(* list over a graph of ELF files that may be cyclic, incomplete or        *)
(* unreadable.                                                             *)
(*                                                                         *)
(* A directory is whether its path is absolute and the names on it, a file *)
(* a directory and a name.  An entry of RPATH or RUNPATH is a path that    *)
(* may start with $ORIGIN.  The class, machine, byte order and flags of an *)
(* ELF header are the name of the ABI they stand for.                      *)
(***************************************************************************)
EXTENDS Naturals, Sequences, Functions

CONSTANTS
  Trees,  \* the filesystems: the binary, its files, whether ld.so.cache exists
  NoFile  \* no PT_INTERP

Abs(names) == [abs |-> TRUE, names |-> names]

CacheFile == <<Abs(<<"etc">>), "ld.so.cache">>

Directory == [abs : BOOLEAN, names : Seq(STRING)]

Entry == [origin : BOOLEAN, path : Directory]

Elf ==
  [abi      : STRING,
   interp   : {NoFile} \cup (Directory \X STRING),
   needed   : Seq(STRING),
   rpath    : Seq(Entry),
   runpath  : Seq(Entry),
   readable : BOOLEAN]

\* The launcher has opened the binary; the cache is no ELF file.
ASSUME TreeAssumption ==
  \A t \in Trees :
    /\ \A file \in DOMAIN t.files : file \in Directory \X STRING /\ t.files[file] \in Elf
    /\ t.binary \in DOMAIN t.files
    /\ CacheFile \in DOMAIN t.files => ~t.files[CacheFile].readable

VARIABLES
  tree,       \* the filesystem
  outcome,    \* "running", "ok" or "failed"
  queue,      \* the files still to be looked at
  processed,  \* the files looked at
  finalMap,   \* the files found so far
  libraries   \* the result

vars == <<tree, outcome, queue, processed, finalMap, libraries>>

-----------------------------------------------------------------------------
(* Where the libraries of a file are searched for.                         *)

OwnLibDirs ==
  LET multiarch(t) == <<Abs(<<"lib", t>>), Abs(<<"usr", "lib", t>>)>>
      bits(d) == <<Abs(<<d>>), Abs(<<"usr", d>>)>>
  IN  [x86_64     |-> bits("lib64") \o multiarch("x86_64-linux-gnu"),
       x32        |-> multiarch("x86_64-linux-gnux32") \o bits("libx32"),
       i386       |-> bits("lib32") \o multiarch("i386-linux-gnu"),
       aarch64    |-> multiarch("aarch64-linux-gnu") \o bits("lib64"),
       aarch64_be |-> multiarch("aarch64_be-linux-gnu") \o bits("lib64"),
       armeb      |-> multiarch("armeb-linux-gnu"),
       armhf      |-> multiarch("arm-linux-gnueabihf"),
       armel      |-> multiarch("arm-linux-gnueabi")]

\* Other machines, and ARM flags that name no or both float ABIs, are an error.
SupportedABI(abi) == abi \in DOMAIN OwnLibDirs

StandardLibDirs(abi) ==
  OwnLibDirs[abi] \o <<Abs(<<"lib">>), Abs(<<"usr", "lib">>), Abs(<<"usr", "local", "lib">>)>>

Below(dir, path) == [abs |-> dir.abs, names |-> dir.names \o path.names]

\* Mutated form: a relative entry stays relative.
NormalizeRpathRelative(entry, origin) ==
  IF entry.origin THEN Below(origin, entry.path) ELSE entry.path

\* $ORIGIN is replaced first; what is relative then is put below the origin.
NormalizeRpath(entry, origin) ==
  LET expanded == IF entry.origin THEN Below(origin, entry.path) ELSE entry.path
  IN  IF expanded.abs THEN expanded ELSE Below(origin, expanded)

EmptyEntry(entry) == ~entry.origin /\ entry.path = [abs |-> FALSE, names |-> <<>>]

\* What an empty entry names: it keeps its place and is not searched.
Nowhere == [abs |-> FALSE, names |-> <<"">>]

\* parseDynamic and normalizeRpaths: RPATH, then RUNPATH, without the empty ones.
Rpaths(file) ==
  LET entries == tree.files[file].rpath \o tree.files[file].runpath
  IN  [i \in DOMAIN entries |-> IF EmptyEntry(entries[i]) THEN Nowhere
                                ELSE NormalizeRpath(entries[i], file[1])]

Hits(soname, dirs) ==
  {i \in DOMAIN dirs : dirs[i] # Nowhere /\ <<dirs[i], soname>> \in DOMAIN tree.files}

\* The first directory that has the name, whatever file that is (os.Stat).
ResolveSingleSoname(soname, dirs) ==
  LET hits == Hits(soname, dirs)
  IN  <<dirs[CHOOSE i \in hits : \A j \in hits : i <= j], soname>>

SearchDirs(file) == Rpaths(file) \o StandardLibDirs(tree.files[file].abi)

Needed(file) == Range(tree.files[file].needed)

Unresolved(file) == {s \in Needed(file) : Hits(s, SearchDirs(file)) = {}}

ResolveSonames(file) ==
  {ResolveSingleSoname(s, SearchDirs(file)) : s \in Needed(file) \ Unresolved(file)}

-----------------------------------------------------------------------------
(* GetLibraryDependencies.  The order of the queue does not matter to the  *)
(* result, so any file of it may be next.                                  *)

Init ==
  /\ tree \in Trees
  /\ outcome = "running"
  /\ queue = {tree.binary}
  /\ processed = {}
  /\ finalMap = IF tree.cache THEN {CacheFile} ELSE {}
  /\ libraries = {}

\* The file exists, can be opened, and is an ELF file.
Readable(file) == file \in DOMAIN tree.files /\ tree.files[file].readable

Interpreter(file) ==
  IF file = tree.binary THEN {tree.files[file].interp} \ {NoFile} ELSE {}

Fails(file) == SupportedABI(tree.files[file].abi) => Unresolved(file) # {}

SkipProcessed(file) ==
  /\ file \in processed
  /\ queue' = queue \ {file}
  /\ UNCHANGED <<tree, outcome, processed, finalMap, libraries>>

\* Mutated form: what cannot be read is tried again.
SkipUnreadableRetry(file) ==
  /\ file \notin processed /\ ~Readable(file)
  /\ UNCHANGED vars

SkipUnreadable(file) ==
  /\ file \notin processed /\ ~Readable(file)
  /\ queue' = queue \ {file}
  /\ processed' = processed \cup {file}
  /\ UNCHANGED <<tree, outcome, finalMap, libraries>>

\* Mutated form: what was found so far is returned with the error.
FailWithPartial(file) ==
  /\ file \notin processed /\ Readable(file) /\ Fails(file)
  /\ outcome' = "failed"
  /\ libraries' = finalMap
  /\ UNCHANGED <<tree, queue, processed, finalMap>>

\* An error drops the work list and what was found.
Fail(file) ==
  /\ file \notin processed /\ Readable(file) /\ Fails(file)
  /\ outcome' = "failed"
  /\ UNCHANGED <<tree, queue, processed, finalMap, libraries>>

\* Mutated form: only the binary's own libraries are followed.
ExpandOnce(file) ==
  /\ file \notin processed /\ Readable(file) /\ ~Fails(file)
  /\ processed' = processed \cup {file}
  /\ finalMap' = finalMap \cup Interpreter(file) \cup ResolveSonames(file)
  /\ queue' = (queue \ {file}) \cup Interpreter(file)
  /\ UNCHANGED <<tree, outcome, libraries>>

\* The interpreter is queued in any case, a library when it is new.
Expand(file) ==
  /\ file \notin processed /\ Readable(file) /\ ~Fails(file)
  /\ processed' = processed \cup {file}
  /\ finalMap' = finalMap \cup Interpreter(file) \cup ResolveSonames(file)
  /\ queue' = (queue \ {file}) \cup Interpreter(file)
                \cup (ResolveSonames(file) \ (finalMap \cup Interpreter(file)))
  /\ UNCHANGED <<tree, outcome, libraries>>

Dequeue(file) == SkipProcessed(file) \/ SkipUnreadable(file) \/ Fail(file) \/ Expand(file)

Finish ==
  /\ outcome = "running" /\ queue = {}
  /\ outcome' = "ok"
  /\ libraries' = finalMap
  /\ UNCHANGED <<tree, queue, processed, finalMap>>

Next ==
  \/ outcome = "running" /\ \E file \in queue : Dequeue(file)
  \/ Finish

\* One thread that never waits.
Spec == Init /\ [][Next]_vars /\ WF_vars(Next)

-----------------------------------------------------------------------------
(* The graph the walk goes through, as LibraryClosure sees it.             *)

Nodes == DOMAIN tree.files \cup {tree.binary} \cup Interpreter(tree.binary)

Edges(file) ==
  IF ~Readable(file) \/ Fails(file) THEN {} ELSE Interpreter(file) \cup ResolveSonames(file)

DependencyGraph ==
  [nodes |-> Nodes,
   root  |-> tree.binary,
   edges |-> [n \in Nodes |-> Edges(n)],
   bad   |-> {n \in Nodes : Readable(n) /\ Fails(n)},
   extra |-> IF tree.cache THEN {CacheFile} ELSE {}]

Closure == INSTANCE LibraryClosure WITH graph <- DependencyGraph

-----------------------------------------------------------------------------
(* Properties.                                                             *)

\* One type invariant for the module: the work list stays within the graph.
TypeOK ==
  /\ tree \in Trees
  /\ outcome \in {"running", "ok", "failed"}
  /\ queue \subseteq Nodes /\ processed \subseteq Nodes
  /\ finalMap \subseteq Nodes \cup {CacheFile}
  /\ outcome # "ok" => libraries = {}

\* The walk amounts to one decision: all of what the binary leads to, or an
\* error, whatever the order, the cycles and the files that cannot be read.
Implements == Closure!ClosureSpec

\* Every walk ends, libraries that need each other included.  (None of the files
\* is a FIFO, whose open would wait.)
Returns == <>(outcome # "running")

\* The directories the entries of a file name: $ORIGIN is the directory of the
\* file, a relative entry is relative to it, and an empty one names none.
NamedDirs(file) ==
  {IF e.origin \/ ~e.path.abs THEN Below(file[1], e.path) ELSE e.path :
     e \in {e \in Range(tree.files[file].rpath \o tree.files[file].runpath) : ~EmptyEntry(e)}}
    \cup Range(StandardLibDirs(tree.files[file].abi))

\* "expands common tokens like $ORIGIN and makes relative rpath entries
\* absolute using the provided origin directory" (elfdeps.go:125-126): --ldd
\* fails only for an ABI it does not know or a library that is in none of the
\* directories the file names.
FailsOnlyIfMissing ==
  outcome = "failed" =>
    \E file \in queue :
      /\ Readable(file)
      /\ \/ ~SupportedABI(tree.files[file].abi)
         \/ \E s \in Needed(file) :
              \A d \in NamedDirs(file) : <<d, s>> \notin DOMAIN tree.files

\* "If there are resolved library paths, they must exist and match the
\* binary's architecture" (elfdeps_test.go:64-65).  The search takes the first
\* file of the right name.
LibrariesMatchABI ==
  (outcome = "ok" /\ Readable(tree.binary)) =>
    \A file \in libraries :
      Readable(file) => tree.files[file].abi = tree.files[tree.binary].abi
=============================================================================
