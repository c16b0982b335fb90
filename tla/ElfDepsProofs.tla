--------------------------- MODULE ElfDepsProofs ---------------------------
(***************************************************************************)
(* Proofs about ElfDeps, for every set of filesystems.                     *)
(***************************************************************************)
EXTENDS ElfDeps, SequenceFacts

-----------------------------------------------------------------------------
(* Where the libraries of a file are searched for.                         *)

\* The directories of an ABI are absolute.
LEMMA StandardDirs ==
  ASSUME NEW abi, SupportedABI(abi)
  PROVE  /\ StandardLibDirs(abi) \in Seq(Range(StandardLibDirs(abi)))
         /\ \A d \in Range(StandardLibDirs(abi)) : d.abs
<1> DEFINE names == {"lib", "lib32", "lib64", "libx32", "local", "usr",
                     "x86_64-linux-gnu", "x86_64-linux-gnux32", "i386-linux-gnu",
                     "aarch64-linux-gnu", "aarch64_be-linux-gnu", "armeb-linux-gnu",
                     "arm-linux-gnueabihf", "arm-linux-gnueabi"}
           absolute == [abs : {TRUE}, names : Seq(names)]
<1>1. \A t \in names : Abs(<<t>>) \in absolute
  <2> HIDE DEF names
  <2> QED
    BY DEF Abs
<1>2. \A t, u \in names : Abs(<<t, u>>) \in absolute
  <2> HIDE DEF names
  <2> QED
    BY DEF Abs
<1>3. \A t, u, v \in names : Abs(<<t, u, v>>) \in absolute
  <2> HIDE DEF names
  <2> QED
    BY DEF Abs
<1> HIDE DEF absolute
<1>4. OwnLibDirs[abi] \in Seq(absolute)
  <2> DEFINE multiarch(t) == <<Abs(<<"lib", t>>), Abs(<<"usr", "lib", t>>)>>
             bits(d) == <<Abs(<<d>>), Abs(<<"usr", d>>)>>
  <2>1. \A t \in names : multiarch(t) \in Seq(absolute) /\ bits(t) \in Seq(absolute)
    <3> TAKE t \in names
    <3>1. /\ Abs(<<"lib", t>>) \in absolute /\ Abs(<<"usr", "lib", t>>) \in absolute
          /\ Abs(<<t>>) \in absolute /\ Abs(<<"usr", t>>) \in absolute
      <4>1. "lib" \in names /\ "usr" \in names /\ t \in names
        OBVIOUS
      <4> HIDE DEF names
      <4> QED
        BY <1>1, <1>2, <1>3, <4>1
    <3> QED
      BY <3>1
  <2> HIDE DEF multiarch, bits
  <2>2. OwnLibDirs =
          [x86_64     |-> bits("lib64") \o multiarch("x86_64-linux-gnu"),
           x32        |-> multiarch("x86_64-linux-gnux32") \o bits("libx32"),
           i386       |-> bits("lib32") \o multiarch("i386-linux-gnu"),
           aarch64    |-> multiarch("aarch64-linux-gnu") \o bits("lib64"),
           aarch64_be |-> multiarch("aarch64_be-linux-gnu") \o bits("lib64"),
           armeb      |-> multiarch("armeb-linux-gnu"),
           armhf      |-> multiarch("arm-linux-gnueabihf"),
           armel      |-> multiarch("arm-linux-gnueabi")]
    BY DEF OwnLibDirs, multiarch, bits
  <2>3. DOMAIN OwnLibDirs =
          {"x86_64", "x32", "i386", "aarch64", "aarch64_be", "armeb", "armhf", "armel"}
    BY <2>2
  <2>4. \A t \in {"x86_64-linux-gnu", "x86_64-linux-gnux32", "i386-linux-gnu",
                  "aarch64-linux-gnu", "aarch64_be-linux-gnu", "armeb-linux-gnu",
                  "arm-linux-gnueabihf", "arm-linux-gnueabi"} : multiarch(t) \in Seq(absolute)
    BY <2>1
  <2>5. \A d \in {"lib64", "libx32", "lib32"} : bits(d) \in Seq(absolute)
    BY <2>1
  <2>6. \A s, t \in Seq(absolute) : s \o t \in Seq(absolute)
    OBVIOUS
  <2> HIDE DEF names
  <2>7. /\ OwnLibDirs["x86_64"] = bits("lib64") \o multiarch("x86_64-linux-gnu")
        /\ OwnLibDirs["x32"] = multiarch("x86_64-linux-gnux32") \o bits("libx32")
        /\ OwnLibDirs["i386"] = bits("lib32") \o multiarch("i386-linux-gnu")
        /\ OwnLibDirs["aarch64"] = multiarch("aarch64-linux-gnu") \o bits("lib64")
        /\ OwnLibDirs["aarch64_be"] = multiarch("aarch64_be-linux-gnu") \o bits("lib64")
    BY <2>2
  <2>8. /\ OwnLibDirs["armeb"] = multiarch("armeb-linux-gnu")
        /\ OwnLibDirs["armhf"] = multiarch("arm-linux-gnueabihf")
        /\ OwnLibDirs["armel"] = multiarch("arm-linux-gnueabi")
    BY <2>2
  <2>9. \A a \in {"x86_64", "x32", "i386", "aarch64", "aarch64_be"} :
          OwnLibDirs[a] \in Seq(absolute)
    BY <2>4, <2>5, <2>6, <2>7
  <2>10. \A a \in {"armeb", "armhf", "armel"} : OwnLibDirs[a] \in Seq(absolute)
    BY <2>4, <2>8
  <2> QED
    BY <2>3, <2>9, <2>10 DEF SupportedABI
<1>5. <<Abs(<<"lib">>), Abs(<<"usr", "lib">>), Abs(<<"usr", "local", "lib">>)>> \in Seq(absolute)
  <2>1. "lib" \in names /\ "usr" \in names /\ "local" \in names
    OBVIOUS
  <2> HIDE DEF names
  <2>2. /\ Abs(<<"lib">>) \in absolute /\ Abs(<<"usr", "lib">>) \in absolute
        /\ Abs(<<"usr", "local", "lib">>) \in absolute
    BY <1>1, <1>2, <1>3, <2>1
  <2> QED
    BY <2>2
<1>6. StandardLibDirs(abi) \in Seq(absolute)
  <2> DEFINE last == <<Abs(<<"lib">>), Abs(<<"usr", "lib">>), Abs(<<"usr", "local", "lib">>)>>
             s == OwnLibDirs[abi]
  <2>1. StandardLibDirs(abi) = s \o last
    BY DEF StandardLibDirs
  <2>2. s \in Seq(absolute) /\ last \in Seq(absolute)
    BY <1>4, <1>5
  <2> HIDE DEF last, s
  <2> QED
    BY <2>1, <2>2
<1>7. \A d \in absolute : d.abs
  BY DEF absolute
<1> QED
  BY <1>6, <1>7 DEF Range

\* What a file says of its libraries is of the right type.
LEMMA FileType ==
  ASSUME tree \in Trees, NEW file \in DOMAIN tree.files
  PROVE  /\ file[1] \in Directory
         /\ tree.files[file].rpath \o tree.files[file].runpath \in Seq(Entry)
<1>1. file \in Directory \X STRING /\ tree.files[file] \in Elf
  BY TreeAssumption
<1> QED
  BY <1>1 DEF Elf

\* An entry gives a directory: that of the file or below it, or an absolute one.
LEMMA NormalizedDir ==
  ASSUME NEW entry \in Entry, NEW origin \in Directory
  PROVE  /\ NormalizeRpath(entry, origin) \in Directory
         /\ origin.abs => NormalizeRpath(entry, origin) =
              IF entry.origin \/ ~entry.path.abs THEN Below(origin, entry.path) ELSE entry.path
         /\ origin.abs => NormalizeRpath(entry, origin).abs
<1>1. ASSUME NEW dir \in Directory, NEW path \in Directory
      PROVE  Below(dir, path) \in Directory /\ Below(dir, path).abs = dir.abs
  BY DEF Below, Directory
<1>2. entry.path \in Directory
  BY DEF Entry
<1>3. Below(origin, entry.path) \in Directory /\ Below(origin, entry.path).abs = origin.abs
  BY <1>1, <1>2
<1>4. Below(origin, Below(origin, entry.path)) \in Directory
  BY <1>1, <1>3
<1> QED
  BY <1>2, <1>3, <1>4 DEF NormalizeRpath

\* The search path of a file: what its entries name, then the directories of
\* its ABI.
LEMMA SearchPath ==
  ASSUME tree \in Trees, NEW file \in DOMAIN tree.files,
         SupportedABI(tree.files[file].abi)
  PROVE  /\ SearchDirs(file) \in Seq(Range(SearchDirs(file)))
         /\ Range(SearchDirs(file)) =
              Range(Rpaths(file)) \cup Range(StandardLibDirs(tree.files[file].abi))
         /\ Range(Rpaths(file)) =
              {IF EmptyEntry(e) THEN Nowhere ELSE NormalizeRpath(e, file[1]) :
                 e \in Range(tree.files[file].rpath \o tree.files[file].runpath)}
<1> DEFINE entries == tree.files[file].rpath \o tree.files[file].runpath
           dir(e) == IF EmptyEntry(e) THEN Nowhere ELSE NormalizeRpath(e, file[1])
           own == Range(Rpaths(file))
           standard == StandardLibDirs(tree.files[file].abi)
<1>1. entries \in Seq(Entry)
  BY FileType
<1>2. Rpaths(file) = [i \in DOMAIN entries |-> dir(entries[i])]
  BY DEF Rpaths
<1> HIDE DEF entries, dir
<1>3. own = {dir(e) : e \in Range(entries)}
  BY <1>2 DEF Range
<1>4. Rpaths(file) \in Seq(own)
  BY <1>1, <1>2 DEF Range
<1>5. standard \in Seq(Range(standard))
  BY StandardDirs
<1> HIDE DEF own, standard
<1>6. Rpaths(file) \in Seq(own \cup Range(standard)) /\ standard \in Seq(own \cup Range(standard))
  BY <1>4, <1>5
<1>7. /\ SearchDirs(file) \in Seq(own \cup Range(standard))
      /\ Range(SearchDirs(file)) = own \cup Range(standard)
  BY <1>6, RangeConcat DEF SearchDirs, own, standard
<1> QED
  BY <1>3, <1>7 DEF entries, dir, own, standard

\* What the search finds exists, in a directory of the search path.
LEMMA FoundFiles ==
  ASSUME tree \in Trees, NEW file \in DOMAIN tree.files,
         SupportedABI(tree.files[file].abi), NEW found \in ResolveSonames(file)
  PROVE  found \in DOMAIN tree.files /\ found[1] \in Range(SearchDirs(file)) \ {Nowhere}
<1> DEFINE dirs == SearchDirs(file)
<1>1. dirs \in Seq(Range(dirs))
  BY SearchPath
<1>2. PICK s \in Needed(file) : Hits(s, dirs) # {} /\ found = ResolveSingleSoname(s, dirs)
  BY DEF ResolveSonames, Unresolved
<1> HIDE DEF dirs
<1> DEFINE hits == Hits(s, dirs)
           i == CHOOSE i \in hits : \A j \in hits : i <= j
<1>3. hits \subseteq Nat /\ hits # {}
  BY <1>1, <1>2 DEF Hits
<1>4. i \in hits
  <2> HIDE DEF hits
  <2> QED
    BY <1>3, LeastElement
<1>5. found = <<dirs[i], s>>
  BY <1>2 DEF ResolveSingleSoname
<1>6. i \in DOMAIN dirs /\ dirs[i] # Nowhere /\ <<dirs[i], s>> \in DOMAIN tree.files
  BY <1>4 DEF Hits
<1> HIDE DEF i
<1> QED
  BY <1>5, <1>6 DEF Range, dirs

-----------------------------------------------------------------------------
(* The graph of the files.                                                 *)

\* The binary and its interpreter are named absolutely.
Rooted(t) ==
  LET interp == t.files[t.binary].interp
  IN  t.binary[1].abs /\ (interp = NoFile \/ interp[1].abs)

Extra == IF tree.cache THEN {CacheFile} ELSE {}

\* The set has the binary and all that its files lead to.
Complete(S) == tree.binary \in S /\ \A file \in S : Edges(file) \subseteq S

\* Edges stay within the graph, none leaves what cannot be followed or the
\* cache, and where the file is named absolutely so are those it leads to.
LEMMA EdgesType ==
  ASSUME tree \in Trees, NEW file
  PROVE  /\ Edges(file) \subseteq Nodes
         /\ Readable(file) /\ ~Fails(file) =>
              Edges(file) = Interpreter(file) \cup ResolveSonames(file)
         /\ ~Readable(file) \/ Fails(file) => Edges(file) = {}
         /\ Rooted(tree) /\ file[1].abs => \A found \in Edges(file) : found[1].abs
<1>1. CASE ~Readable(file) \/ Fails(file)
  BY <1>1 DEF Edges
<1>2. CASE Readable(file) /\ ~Fails(file)
  <2>1. file \in DOMAIN tree.files /\ SupportedABI(tree.files[file].abi)
    BY <1>2 DEF Readable, Fails
  <2>2. Edges(file) = Interpreter(file) \cup ResolveSonames(file)
    BY <1>2 DEF Edges
  <2>3. Interpreter(file) \subseteq Interpreter(tree.binary)
    BY DEF Interpreter
  <2>4. ResolveSonames(file) \subseteq DOMAIN tree.files
    BY <2>1, FoundFiles
  <2>5. Edges(file) \subseteq Nodes
    BY <2>2, <2>3, <2>4 DEF Nodes
  <2>6. ASSUME Rooted(tree), file[1].abs, NEW found \in ResolveSonames(file)
        PROVE  found[1].abs
    <3>1. found[1] \in Range(SearchDirs(file)) \ {Nowhere}
      BY <2>1, <2>6, FoundFiles
    <3>2. CASE found[1] \in Range(StandardLibDirs(tree.files[file].abi))
      BY <2>1, <3>2, StandardDirs
    <3>3. CASE found[1] \in Range(Rpaths(file))
      <4>1. PICK e \in Range(tree.files[file].rpath \o tree.files[file].runpath) :
              found[1] = IF EmptyEntry(e) THEN Nowhere ELSE NormalizeRpath(e, file[1])
        BY <2>1, <3>3, SearchPath
      <4>2. e \in Entry /\ file[1] \in Directory
        <5> DEFINE entries == tree.files[file].rpath \o tree.files[file].runpath
        <5>1. entries \in Seq(Entry) /\ file[1] \in Directory /\ e \in Range(entries)
          BY <2>1, FileType
        <5> HIDE DEF entries
        <5> QED
          BY <5>1 DEF Range
      <4>3. found[1] = NormalizeRpath(e, file[1])
        BY <3>1, <4>1
      <4> QED
        BY <2>6, <4>2, <4>3, NormalizedDir
    <3> QED
      BY <2>1, <3>1, <3>2, <3>3, SearchPath
  <2>7. ASSUME Rooted(tree), NEW found \in Interpreter(file)
        PROVE  found[1].abs
    BY <2>7 DEF Rooted, Interpreter
  <2> QED
    BY <1>2, <2>2, <2>5, <2>6, <2>7
<1> QED
  BY <1>1, <1>2

\* Nothing is found through the cache.
LEMMA CacheLeadsNowhere ==
  ASSUME tree \in Trees
  PROVE  Edges(CacheFile) = {} /\ ~Readable(CacheFile)
BY TreeAssumption DEF Edges, Readable

\* The graph depends on the filesystem only.
LEMMA SameGraph ==
  ASSUME tree' = tree
  PROVE  /\ Nodes' = Nodes /\ Extra' = Extra
         /\ \A file : /\ Readable(file)' <=> Readable(file)
                      /\ Fails(file)' <=> Fails(file)
                      /\ Edges(file)' = Edges(file)
<1>1. \A file : Interpreter(file)' = Interpreter(file)
  BY DEF Interpreter
<1>2. \A file : Readable(file)' <=> Readable(file)
  BY DEF Readable
<1>3. \A s, dirs : Hits(s, dirs)' = Hits(s, dirs)
  BY DEF Hits
<1>4. \A s, dirs : ResolveSingleSoname(s, dirs)' = ResolveSingleSoname(s, dirs)
  BY <1>3 DEF ResolveSingleSoname
<1>5. \A file : SearchDirs(file)' = SearchDirs(file)
  BY DEF SearchDirs, Rpaths
<1>6. \A file : Unresolved(file)' = Unresolved(file) /\ Needed(file)' = Needed(file)
  BY <1>3, <1>5 DEF Unresolved, Needed
<1>7. \A file : ResolveSonames(file)' = ResolveSonames(file)
  BY <1>4, <1>5, <1>6 DEF ResolveSonames
<1>8. \A file : Fails(file)' <=> Fails(file)
  BY <1>6 DEF Fails
<1>9. \A file : Edges(file)' = Edges(file)
  BY <1>1, <1>2, <1>7, <1>8 DEF Edges
<1> QED
  BY <1>1, <1>2, <1>8, <1>9 DEF Nodes, Extra

-----------------------------------------------------------------------------
(* The walk: why the result is what the binary leads to.                   *)

WalkInv ==
  /\ \A S \in SUBSET Nodes : Complete(S) => queue \cup processed \subseteq S
  /\ tree.binary \in queue \cup processed
  /\ \A file \in processed :
       /\ ~(Readable(file) /\ Fails(file))
       /\ Edges(file) \subseteq queue \cup processed \cup {CacheFile}
  /\ finalMap = Extra \cup UNION {Edges(file) : file \in processed}
  /\ outcome = "failed" => \E file \in queue : Readable(file) /\ Fails(file)
  /\ Rooted(tree) => \A file \in queue : file[1].abs

IInv == TypeOK /\ WalkInv

LEMMA InitIInv == Init => IInv
<1> SUFFICES ASSUME Init PROVE IInv
  OBVIOUS
<1>1. TypeOK
  BY DEF Init, TypeOK, Nodes
<1>2. WalkInv
  BY DEF Init, WalkInv, Complete, Rooted, Extra
<1> QED
  BY <1>1, <1>2 DEF IInv

\* A file is looked at for the first time: its edges are followed.
LEMMA ExpandIInv ==
  ASSUME IInv, outcome = "running", NEW file \in queue, Expand(file)
  PROVE  IInv'
<1>1. /\ file \notin processed /\ Readable(file) /\ ~Fails(file)
      /\ processed' = processed \cup {file}
      /\ UNCHANGED <<tree, outcome, libraries>>
  BY DEF Expand
<1>2. tree \in Trees
  BY DEF IInv, TypeOK
<1>3. /\ Edges(file) = Interpreter(file) \cup ResolveSonames(file)
      /\ Edges(file) \subseteq Nodes
  BY <1>1, <1>2, EdgesType
<1>4. /\ finalMap' = finalMap \cup Edges(file)
      /\ queue' \subseteq (queue \ {file}) \cup Edges(file)
      /\ (queue \ {file}) \cup (Edges(file) \ finalMap) \subseteq queue'
  BY <1>3 DEF Expand
<1>5. finalMap \subseteq queue \cup processed \cup {CacheFile}
  BY DEF IInv, WalkInv, Extra
<1>6. TypeOK'
  <2>1. Nodes' = Nodes
    BY <1>1, SameGraph
  <2> QED
    BY <1>1, <1>3, <1>4, <2>1 DEF IInv, TypeOK
<1>7. WalkInv'
  <2>1. /\ Nodes' = Nodes /\ Extra' = Extra
        /\ \A f : /\ Readable(f)' <=> Readable(f)
                  /\ Fails(f)' <=> Fails(f)
                  /\ Edges(f)' = Edges(f)
    BY <1>1, SameGraph
  <2>2. \A S : Complete(S)' <=> Complete(S)
    BY <1>1, <2>1 DEF Complete
  <2>3. ASSUME NEW S \in SUBSET Nodes, Complete(S)
        PROVE  queue' \cup processed' \subseteq S
    <3>1. queue \cup processed \subseteq S
      BY <2>3 DEF IInv, WalkInv
    <3>2. Edges(file) \subseteq S
      BY <2>3, <3>1 DEF Complete
    <3> QED
      BY <1>1, <1>4, <3>1, <3>2
  <2>4. tree.binary \in queue' \cup processed'
    BY <1>1, <1>4 DEF IInv, WalkInv
  <2>5. queue \cup processed \cup Edges(file) \cup {CacheFile}
          \subseteq queue' \cup processed' \cup {CacheFile}
    BY <1>1, <1>4, <1>5
  <2>6. \A f \in processed' : /\ ~(Readable(f) /\ Fails(f))
                              /\ Edges(f) \subseteq queue' \cup processed' \cup {CacheFile}
    BY <1>1, <2>5 DEF IInv, WalkInv
  <2>7. finalMap' = Extra \cup UNION {Edges(f) : f \in processed'}
    BY <1>1, <1>4 DEF IInv, WalkInv
  <2>8. Rooted(tree) => \A f \in queue' : f[1].abs
    BY <1>2, <1>4, EdgesType DEF IInv, WalkInv
  <2>9. Rooted(tree)' <=> Rooted(tree)
    BY <1>1 DEF Rooted
  <2> QED
    BY <1>1, <2>1, <2>2, <2>3, <2>4, <2>6, <2>7, <2>8, <2>9 DEF WalkInv
<1> QED
  BY <1>6, <1>7 DEF IInv

\* The other steps leave the graph and what was found alone.
LEMMA NextIInv == IInv /\ [Next]_vars => IInv'
<1> SUFFICES ASSUME IInv, [Next]_vars PROVE IInv'
  OBVIOUS
<1>1. ASSUME NEW file \in queue, Dequeue(file), outcome = "running", ~Expand(file)
      PROVE  IInv'
  <2>1. tree' = tree /\ finalMap' = finalMap
    BY <1>1 DEF Dequeue, SkipProcessed, SkipUnreadable, Fail
  <2>2. /\ Nodes' = Nodes /\ Extra' = Extra
        /\ \A f : /\ Readable(f)' <=> Readable(f)
                  /\ Fails(f)' <=> Fails(f)
                  /\ Edges(f)' = Edges(f)
    BY <2>1, SameGraph
  <2>3. \A S : Complete(S)' <=> Complete(S)
    BY <2>1, <2>2 DEF Complete
  <2>4. Rooted(tree)' <=> Rooted(tree)
    BY <2>1 DEF Rooted
  <2>5. file \in Nodes
    BY <1>1 DEF IInv, TypeOK
  <2>6. CASE SkipProcessed(file)
    <3>1. /\ file \in processed /\ queue' = queue \ {file}
          /\ UNCHANGED <<tree, outcome, processed, finalMap, libraries>>
      BY <2>6 DEF SkipProcessed
    <3>2. TypeOK'
      BY <2>2, <3>1 DEF IInv, TypeOK
    <3>3. queue' \cup processed' = queue \cup processed
      BY <3>1
    <3>4. WalkInv'
      BY <1>1, <2>2, <2>3, <2>4, <3>1, <3>3 DEF IInv, WalkInv
    <3> QED
      BY <3>2, <3>4 DEF IInv
  <2>7. CASE SkipUnreadable(file)
    <3>1. /\ ~Readable(file) /\ queue' = queue \ {file}
          /\ processed' = processed \cup {file}
          /\ UNCHANGED <<tree, outcome, finalMap, libraries>>
      BY <2>7 DEF SkipUnreadable
    <3>2. TypeOK'
      BY <2>2, <2>5, <3>1 DEF IInv, TypeOK
    <3>3. queue' \cup processed' = queue \cup processed
      BY <1>1, <3>1
    <3>4. Edges(file) = {}
      BY <3>1 DEF Edges
    <3>5. UNION {Edges(f) : f \in processed'} = UNION {Edges(f) : f \in processed}
      BY <3>1, <3>4
    <3>6. \A f \in processed' : /\ ~(Readable(f) /\ Fails(f))
                                /\ Edges(f) \subseteq queue' \cup processed' \cup {CacheFile}
      BY <3>1, <3>3, <3>4 DEF IInv, WalkInv
    <3>7. WalkInv'
      BY <1>1, <2>2, <2>3, <2>4, <3>1, <3>3, <3>5, <3>6 DEF IInv, WalkInv
    <3> QED
      BY <3>2, <3>7 DEF IInv
  <2>8. CASE Fail(file)
    <3>1. /\ Readable(file) /\ Fails(file) /\ outcome' = "failed"
          /\ UNCHANGED <<tree, queue, processed, finalMap, libraries>>
      BY <2>8 DEF Fail
    <3>2. TypeOK'
      BY <1>1, <2>2, <3>1 DEF IInv, TypeOK
    <3>3. WalkInv'
      BY <1>1, <2>2, <2>3, <2>4, <3>1 DEF IInv, WalkInv
    <3> QED
      BY <3>2, <3>3 DEF IInv
  <2> QED
    BY <1>1, <2>6, <2>7, <2>8 DEF Dequeue
<1>2. ASSUME Finish \/ UNCHANGED vars
      PROVE  IInv'
  <2>1. /\ UNCHANGED <<tree, queue, processed, finalMap>>
        /\ \/ outcome' = "ok"
           \/ outcome' = outcome /\ libraries' = libraries
    BY <1>2 DEF Finish, vars
  <2>2. /\ Nodes' = Nodes /\ Extra' = Extra
        /\ \A f : /\ Readable(f)' <=> Readable(f)
                  /\ Fails(f)' <=> Fails(f)
                  /\ Edges(f)' = Edges(f)
    BY <2>1, SameGraph
  <2>3. \A S : Complete(S)' <=> Complete(S)
    BY <2>1, <2>2 DEF Complete
  <2>4. Rooted(tree)' <=> Rooted(tree)
    BY <2>1 DEF Rooted
  <2>5. TypeOK'
    BY <2>1, <2>2 DEF IInv, TypeOK
  <2>6. WalkInv'
    BY <2>1, <2>2, <2>3, <2>4 DEF IInv, WalkInv
  <2> QED
    BY <2>5, <2>6 DEF IInv
<1> QED
  BY <1>1, <1>2, ExpandIInv DEF Next

\* Every reachable state of the walk satisfies the invariant.
THEOREM InductiveInvariant == Spec => []IInv
BY InitIInv, NextIInv, PTL DEF Spec

-----------------------------------------------------------------------------
(* What follows from it.                                                   *)

\* The work list stays within the graph.
THEOREM TypeCorrect == Spec => []TypeOK
<1>1. IInv => TypeOK
  BY DEF IInv
<1> QED
  BY <1>1, InductiveInvariant, PTL

\* A binary that is named absolutely, as its interpreter is, is refused only
\* for an ABI that is not known or a library that is in none of the directories
\* a file names.
THEOREM FailsOnlyIfMissingCorrect == Spec => [](Rooted(tree) => FailsOnlyIfMissing)
<1>1. IInv => (Rooted(tree) => FailsOnlyIfMissing)
  <2> SUFFICES ASSUME IInv, Rooted(tree), outcome = "failed"
               PROVE  \E file \in queue :
                        /\ Readable(file)
                        /\ \/ ~SupportedABI(tree.files[file].abi)
                           \/ \E s \in Needed(file) :
                                \A d \in NamedDirs(file) : <<d, s>> \notin DOMAIN tree.files
    BY DEF FailsOnlyIfMissing
  <2>1. PICK file \in queue : Readable(file) /\ Fails(file) /\ file[1].abs
    BY DEF IInv, WalkInv
  <2>2. file \in DOMAIN tree.files /\ tree \in Trees
    BY <2>1 DEF Readable, IInv, TypeOK
  <2>3. CASE ~SupportedABI(tree.files[file].abi)
    BY <2>1, <2>3
  <2>4. CASE SupportedABI(tree.files[file].abi)
    <3> DEFINE entries == tree.files[file].rpath \o tree.files[file].runpath
               dirs == SearchDirs(file)
    <3>1. PICK s \in Needed(file) : Hits(s, dirs) = {}
      BY <2>1, <2>4 DEF Fails, Unresolved
    <3>2. \A d \in Range(dirs) : d # Nowhere => <<d, s>> \notin DOMAIN tree.files
      BY <3>1 DEF Hits, Range
    <3>3. ASSUME NEW d \in NamedDirs(file)
          PROVE  d \in Range(dirs) /\ d # Nowhere
      <4>0. ~Nowhere.abs
        BY DEF Nowhere
      <4>1. CASE d \in Range(StandardLibDirs(tree.files[file].abi))
        <5>1. d.abs
          BY <2>4, <4>1, StandardDirs
        <5>2. d \in Range(dirs)
          BY <2>2, <2>4, <4>1, SearchPath
        <5> QED
          BY <4>0, <5>1, <5>2
      <4>2. ASSUME NEW e \in Range(entries), ~EmptyEntry(e),
                   d = IF e.origin \/ ~e.path.abs THEN Below(file[1], e.path) ELSE e.path
            PROVE  d \in Range(dirs) /\ d # Nowhere
        <5>1. e \in Entry /\ file[1] \in Directory
          <6>1. entries \in Seq(Entry) /\ file[1] \in Directory
            BY <2>2, FileType
          <6> HIDE DEF entries
          <6> QED
            BY <4>2, <6>1 DEF Range
        <5>2. d = NormalizeRpath(e, file[1]) /\ d.abs
          BY <2>1, <4>2, <5>1, NormalizedDir
        <5>3. d \in Range(dirs)
          BY <2>2, <2>4, <4>2, <5>2, SearchPath
        <5> QED
          BY <4>0, <5>2, <5>3
      <4> QED
        BY <3>3, <4>1, <4>2 DEF NamedDirs
    <3> HIDE DEF dirs
    <3> QED
      BY <2>1, <3>1, <3>2, <3>3
  <2> QED
    BY <2>3, <2>4
<1> QED
  BY <1>1, InductiveInvariant, PTL

\* The abstract graph is that of the walk.
LEMMA ClosedSets ==
  ASSUME NEW S \in SUBSET Nodes
  PROVE  Closure!Closed(S) <=> Complete(S)
BY DEF Closure!Closed, Complete, DependencyGraph

\* When nothing is left to look at, what was looked at is all that the binary
\* leads to, but for the cache.
LEMMA AllReached ==
  ASSUME IInv, queue = {}
  PROVE  /\ processed \subseteq Closure!Reachable
         /\ Closure!Reachable \subseteq processed \cup {CacheFile}
<1> DEFINE S == processed \cup ({CacheFile} \cap Nodes)
<1>1. Closure!Reachable = {n \in Nodes : \A T \in SUBSET Nodes : Complete(T) => n \in T}
  BY ClosedSets DEF Closure!Reachable, DependencyGraph
<1>2. processed \subseteq Closure!Reachable
  BY <1>1 DEF IInv, TypeOK, WalkInv
<1>3. S \in SUBSET Nodes /\ Complete(S)
  <2>1. tree \in Trees /\ processed \subseteq Nodes /\ tree.binary \in processed
    BY DEF IInv, TypeOK, WalkInv
  <2>2. \A file \in processed : Edges(file) \subseteq S
    BY <2>1, EdgesType DEF IInv, WalkInv
  <2>3. Edges(CacheFile) = {}
    BY <2>1, CacheLeadsNowhere
  <2> QED
    BY <2>1, <2>2, <2>3 DEF Complete
<1> QED
  BY <1>1, <1>2, <1>3

\* A step of the walk decides or changes nothing that can be seen.
LEMMA WalkDecides ==
  ASSUME IInv, [Next]_vars
  PROVE  [Closure!Decide]_(Closure!closureVars)
<1>0. tree \in Trees
  BY DEF IInv, TypeOK
<1>1. tree' = tree => DependencyGraph' = DependencyGraph
  <2> SUFFICES ASSUME tree' = tree PROVE DependencyGraph' = DependencyGraph
    OBVIOUS
  <2>1. /\ Nodes' = Nodes
        /\ \A f : /\ Readable(f)' <=> Readable(f)
                  /\ Fails(f)' <=> Fails(f)
                  /\ Edges(f)' = Edges(f)
    BY SameGraph
  <2>2. [n \in Nodes |-> Edges(n)]' = [n \in Nodes |-> Edges(n)]
    BY <2>1
  <2>3. {n \in Nodes : Readable(n) /\ Fails(n)}' = {n \in Nodes : Readable(n) /\ Fails(n)}
    BY <2>1
  <2> QED
    BY <2>1, <2>2, <2>3 DEF DependencyGraph
<1>2. CASE UNCHANGED vars
  BY <1>1, <1>2 DEF vars, Closure!closureVars
<1>3. CASE Finish
  <2>1. /\ outcome = "running" /\ queue = {} /\ outcome' = "ok" /\ libraries' = finalMap
        /\ tree' = tree
    BY <1>3 DEF Finish
  <2> DEFINE R == Closure!Reachable
  <2>2. processed \subseteq R /\ R \subseteq processed \cup {CacheFile} /\ R \subseteq Nodes
    BY <2>1, AllReached DEF Closure!Reachable, DependencyGraph
  <2>3. Edges(CacheFile) = {} /\ ~Readable(CacheFile)
    BY <1>0, CacheLeadsNowhere
  <2> HIDE DEF R
  <2>4. R \cap DependencyGraph.bad = {}
    BY <2>2, <2>3 DEF DependencyGraph, IInv, WalkInv
  <2>5. UNION {DependencyGraph.edges[n] : n \in R} = UNION {Edges(n) : n \in processed}
    <3>1. \A n \in R : DependencyGraph.edges[n] = Edges(n)
      BY <2>2 DEF DependencyGraph
    <3> QED
      BY <2>2, <2>3, <3>1
  <2>6. libraries' = DependencyGraph.extra \cup UNION {DependencyGraph.edges[n] : n \in R}
    BY <2>1, <2>5 DEF DependencyGraph, IInv, WalkInv, Extra
  <2>7. Closure!Decide
    BY <1>1, <2>1, <2>4, <2>6 DEF Closure!Decide, R
  <2> QED
    BY <2>7
<1>4. ASSUME NEW file \in queue, outcome = "running", Dequeue(file)
      PROVE  [Closure!Decide]_(Closure!closureVars)
  <2>1. CASE SkipProcessed(file) \/ SkipUnreadable(file) \/ Expand(file)
    BY <1>1, <2>1 DEF SkipProcessed, SkipUnreadable, Expand, Closure!closureVars
  <2>2. CASE Fail(file)
    <3>1. /\ Readable(file) /\ Fails(file) /\ outcome' = "failed"
          /\ tree' = tree /\ libraries' = libraries
      BY <2>2 DEF Fail
    <3>2. file \in Nodes /\ \A T \in SUBSET Nodes : Complete(T) => file \in T
      BY <1>4 DEF IInv, TypeOK, WalkInv
    <3>3. file \in Closure!Reachable
      BY <3>2, ClosedSets DEF Closure!Reachable, DependencyGraph
    <3>4. file \in DependencyGraph.bad
      BY <3>1, <3>2 DEF DependencyGraph
    <3>5. Closure!Decide
      BY <1>1, <1>4, <3>1, <3>3, <3>4 DEF Closure!Decide
    <3> QED
      BY <3>5
  <2> QED
    BY <1>4, <2>1, <2>2 DEF Dequeue
<1> QED
  BY <1>2, <1>3, <1>4 DEF Next

\* The walk amounts to one decision, whatever the order in which the files are
\* looked at.
THEOREM WalkImplementsClosure == Spec => Implements
<1>1. Init => Closure!ClosureInit
  BY DEF Init, Closure!ClosureInit
<1> QED
  BY <1>1, WalkDecides, InductiveInvariant, PTL DEF Spec, Implements, Closure!ClosureSpec
=============================================================================
