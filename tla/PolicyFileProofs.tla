-------------------------- MODULE PolicyFileProofs -------------------------
(***************************************************************************)
(* Proofs about PolicyFile, for every set of texts, of changes of the file *)
(* and of command lines, and any size limit.                               *)
(***************************************************************************)
EXTENDS PolicyFile, SandboxFacts, TLAPS

-----------------------------------------------------------------------------
(* Why the loaded policy is that of the file: what each step has checked.  *)

\* The launcher is past a step on a policy file.
Past(steps) == invocation = "file" /\ pc \in steps

FileInv ==
  /\ command \in Commands /\ data \in Content
  /\ pc \in {"stat", "read", "scan", "decode"} => invocation = "file"
  /\ Past({"read", "scan", "decode", "merge", "merged"}) => content.kind = "regular"
  /\ (Past({"scan", "decode", "merge", "merged"}) /\ rewrites = 0) => data = content
  /\ Past({"decode", "merge", "merged"}) => ScanAccepts(data)
  /\ Past({"merge", "merged"}) => data.top = "object" /\ base = FilePolicy(Decoded(data))
  /\ pc = "merged" => policy = MergeLaunchPolicies(base, PolicyFromCommand(command))

IInv == TypeOK /\ FileInv /\ RejectedWithReason

-----------------------------------------------------------------------------
(* Options and the policies made of them.                                  *)

\* No options are options.
LEMMA NoOptionsType == NoOptions \in Options
BY DEF NoOptions, Options

\* The lists of a policy are lists, and those of --ro and --rw have what the
\* executable ones have.
LEMMA ReadRights ==
  ASSUME NEW options \in Options
  PROVE  /\ WithReadRights(options.strings) \in [PathClasses -> Seq(Path \cup {EmptyPath})]
         /\ \A c \in PathClasses :
              Range(WithReadRights(options.strings)[c]) =
                Range(options.strings[c])
                  \cup (IF c = "ro" THEN Range(options.strings["rox"]) ELSE {})
                  \cup (IF c = "rw" THEN Range(options.strings["rwx"]) ELSE {})
<1> DEFINE lists == options.strings
           S == Path \cup {EmptyPath}
<1>1. \A c \in PathClasses : lists[c] \in Seq(S)
  BY DEF Options, StringLists
<1> HIDE DEF lists, S
<1>2. /\ lists["ro"] \o lists["rox"] \in Seq(S)
      /\ Range(lists["ro"] \o lists["rox"]) = Range(lists["ro"]) \cup Range(lists["rox"])
  BY <1>1, RangeConcat DEF PathClasses
<1>3. /\ lists["rw"] \o lists["rwx"] \in Seq(S)
      /\ Range(lists["rw"] \o lists["rwx"]) = Range(lists["rw"]) \cup Range(lists["rwx"])
  BY <1>1, RangeConcat DEF PathClasses
<1>4. /\ WithReadRights(lists)["ro"] = lists["ro"] \o lists["rox"]
      /\ WithReadRights(lists)["rox"] = lists["rox"]
      /\ WithReadRights(lists)["rw"] = lists["rw"] \o lists["rwx"]
      /\ WithReadRights(lists)["rwx"] = lists["rwx"]
      /\ WithReadRights(lists)["unix"] = lists["unix"]
  BY DEF WithReadRights
<1>5. WithReadRights(lists) \in [PathClasses -> Seq(S)]
  <2>1. \A c \in PathClasses : WithReadRights(lists)[c] \in Seq(S)
    BY <1>1, <1>2, <1>3, <1>4 DEF PathClasses
  <2> QED
    BY <2>1 DEF WithReadRights, PathClasses
<1>6. \A c \in PathClasses :
        Range(WithReadRights(lists)[c]) =
          Range(lists[c]) \cup (IF c = "ro" THEN Range(lists["rox"]) ELSE {})
                          \cup (IF c = "rw" THEN Range(lists["rwx"]) ELSE {})
  BY <1>2, <1>3, <1>4 DEF PathClasses
<1> QED
  BY <1>5, <1>6 DEF lists, S

\* Options make a policy whose sandbox is a request.
LEMMA PolicyOfType ==
  ASSUME NEW options \in Options
  PROVE  FilePolicy(options).sandbox \in Request
<1>1. WithReadRights(options.strings) \in [PathClasses -> Seq(Path \cup {EmptyPath})]
  BY ReadRights
<1>2. [c \in PortClasses |-> options.ints[PortFlag[c]]] \in [PortClasses -> Seq(Int)]
  BY DEF Options, PortClasses, PortFlag, IntLists
<1> QED
  BY <1>1, <1>2 DEF FilePolicy, PolicyOf, Request, AuditFlags

\* Joined options are options, with the lists of both.
LEMMA JoinedOptions ==
  ASSUME NEW first \in Options, NEW second \in Options
  PROVE  /\ JoinOptions(first, second) \in Options
         /\ \A c \in PathClasses :
              Range(JoinOptions(first, second).strings[c]) =
                Range(first.strings[c]) \cup Range(second.strings[c])
<1> DEFINE S == Path \cup {EmptyPath}
<1>1. \A f \in StringLists : first.strings[f] \in Seq(S) /\ second.strings[f] \in Seq(S)
  BY DEF Options
<1> HIDE DEF S
<1>2. \A f \in StringLists :
        /\ first.strings[f] \o second.strings[f] \in Seq(S)
        /\ Range(first.strings[f] \o second.strings[f]) =
             Range(first.strings[f]) \cup Range(second.strings[f])
  BY <1>1, RangeConcat
<1>3. \A f \in IntLists : first.ints[f] \o second.ints[f] \in Seq(Int)
  BY DEF Options
<1>4. JoinOptions(first, second) \in Options
  BY <1>2, <1>3 DEF JoinOptions, Options, S
<1>5. \A c \in PathClasses :
        JoinOptions(first, second).strings[c] = first.strings[c] \o second.strings[c]
  BY DEF JoinOptions, StringLists
<1> QED
  BY <1>2, <1>4, <1>5 DEF StringLists

\* Merged sandboxes are a request, with the lists of both.
LEMMA MergedSandboxes ==
  ASSUME NEW a \in Request, NEW b \in Request
  PROVE  /\ MergeSandboxes(a, b) \in Request
         /\ \A c \in PathClasses :
              Range(MergeSandboxes(a, b).paths[c]) = Range(a.paths[c]) \cup Range(b.paths[c])
<1> DEFINE S == Path \cup {EmptyPath}
<1>1. \A c \in PathClasses : a.paths[c] \in Seq(S) /\ b.paths[c] \in Seq(S)
  BY DEF Request
<1> HIDE DEF S
<1>2. \A c \in PathClasses :
        /\ a.paths[c] \o b.paths[c] \in Seq(S)
        /\ Range(a.paths[c] \o b.paths[c]) = Range(a.paths[c]) \cup Range(b.paths[c])
  BY <1>1, RangeConcat
<1>3. \A c \in PortClasses : a.ports[c] \o b.ports[c] \in Seq(Int)
  BY DEF Request
<1>4. MergeSandboxes(a, b) \in Request
  BY <1>2, <1>3 DEF MergeSandboxes, Request, S
<1> QED
  BY <1>2, <1>4 DEF MergeSandboxes

-----------------------------------------------------------------------------
(* What the scan establishes.                                              *)

\* A scanned text has each field at most once, exactly spelled, and no null.
LEMMA ScannedMembers ==
  ASSUME NEW doc \in Content, ScanAccepts(doc)
  PROVE  /\ \A i \in DOMAIN doc.members :
              /\ doc.members[i].exact /\ doc.members[i].field # "unknown"
              /\ doc.members[i].value.type # "null" /\ ~doc.members[i].value.nullItem
         /\ \A i, j \in DOMAIN doc.members :
              doc.members[i].field = doc.members[j].field => i = j
<1> DEFINE members == doc.members
<1>1. \A i \in DOMAIN members :
        /\ members[i].exact /\ members[i].field # "unknown"
        /\ members[i].value.type # "null" /\ ~members[i].value.nullItem
        /\ \A j \in 1 .. i - 1 :
             <<members[j].field, members[j].exact>> # <<members[i].field, members[i].exact>>
  BY DEF ScanAccepts, ScanMember
<1>2. DOMAIN members = 1 .. Len(members) /\ Len(members) \in Nat
  BY DEF Content
<1>3. \A i \in DOMAIN members : members[i].exact = TRUE
  BY <1>1, <1>2 DEF Content
<1> HIDE DEF members
<1>4. ASSUME NEW i \in DOMAIN members, NEW j \in DOMAIN members, j < i
      PROVE  members[i].field # members[j].field
  <2>1. j \in 1 .. i - 1
    BY <1>2, <1>4
  <2> QED
    BY <1>1, <1>3, <2>1
<1>5. \A i, j \in DOMAIN members : members[i].field = members[j].field => i = j
  BY <1>2, <1>4
<1> QED
  BY <1>1, <1>5 DEF members

\* A reader finds the value of the one member of a scanned text that spells a
\* field, whatever kind of reader it is.
LEMMA ScannedValue ==
  ASSUME NEW doc \in Content, ScanAccepts(doc), NEW f,
         NEW folding \in BOOLEAN, NEW lastWins \in BOOLEAN
  PROVE  /\ ValueOf(doc, f, folding, lastWins) \in JSONValue
         /\ ValueOf(doc, f, folding, lastWins).nullItem = FALSE
         /\ (\A i \in DOMAIN doc.members : doc.members[i].field # f) =>
              ValueOf(doc, f, folding, lastWins) = NoValue
         /\ \A i \in DOMAIN doc.members :
              doc.members[i].field = f =>
                ValueOf(doc, f, folding, lastWins) = doc.members[i].value
<1>1. Members(doc, f, folding) = {i \in DOMAIN doc.members : doc.members[i].field = f}
  BY ScannedMembers DEF Members
<1>2. CASE \A i \in DOMAIN doc.members : doc.members[i].field # f
  <2>1. ValueOf(doc, f, folding, lastWins) = NoValue
    BY <1>1, <1>2 DEF ValueOf
  <2>2. NoValue \in JSONValue /\ NoValue.nullItem = FALSE
    BY DEF NoValue, JSONValue
  <2> QED
    BY <1>2, <2>1, <2>2
<1>3. ASSUME NEW i \in DOMAIN doc.members, doc.members[i].field = f
      PROVE  /\ ValueOf(doc, f, folding, lastWins) = doc.members[i].value
             /\ doc.members[i].value \in JSONValue
             /\ doc.members[i].value.nullItem = FALSE
  <2>1. Members(doc, f, folding) = {i}
    BY <1>1, <1>3, ScannedMembers
  <2>2. i \in Int /\ doc.members[i].value \in JSONValue
    <3> DEFINE M == [field : Fields \cup {"unknown"}, exact : BOOLEAN, value : JSONValue]
    <3>1. doc.members \in Seq(M)
      BY DEF Content
    <3> HIDE DEF M
    <3>2. i \in Int /\ doc.members[i] \in M
      BY <3>1
    <3> QED
      BY <3>2 DEF M
  <2>3. (CHOOSE k \in {i} : \A j \in {i} : IF lastWins THEN k >= j ELSE k <= j) = i
    BY <2>2
  <2>4. ValueOf(doc, f, folding, lastWins) = doc.members[i].value
    BY <2>1, <2>3 DEF ValueOf
  <2>5. doc.members[i].value.nullItem = FALSE
    BY <2>2, ScannedMembers DEF JSONValue
  <2> QED
    BY <2>2, <2>4, <2>5
<1> QED
  BY <1>2, <1>3

\* So every reader finds the options the launcher loads.
LEMMA ScannedOptions ==
  ASSUME NEW doc \in Content, ScanAccepts(doc),
         NEW folding \in BOOLEAN, NEW lastWins \in BOOLEAN, NEW nullIsZero \in BOOLEAN
  PROVE  /\ OptionsAs(doc, folding, lastWins, nullIsZero) = Decoded(doc)
         /\ Decoded(doc) \in Options
<1> DEFINE value(f) == ValueOf(doc, f, TRUE, TRUE)
           plain == [strings  |-> [f \in StringLists |-> value(f).strings \o <<>>],
                     ints     |-> [f \in IntLists |-> value(f).ints \o <<>>],
                     switches |-> {f \in Switches : value(f).on}]
<1>1. \A f : value(f) \in JSONValue /\ value(f).nullItem = FALSE
  BY ScannedValue
<1>2. ASSUME NEW fold \in BOOLEAN, NEW last \in BOOLEAN, NEW f
      PROVE  ValueOf(doc, f, fold, last) = value(f)
  <2>1. CASE \A i \in DOMAIN doc.members : doc.members[i].field # f
    <3>1. ValueOf(doc, f, fold, last) = NoValue
      BY <1>2, <2>1, ScannedValue
    <3>2. value(f) = NoValue
      BY <2>1, ScannedValue
    <3> QED
      BY <3>1, <3>2
  <2>2. ASSUME NEW i \in DOMAIN doc.members, doc.members[i].field = f
        PROVE  ValueOf(doc, f, fold, last) = value(f)
    <3>1. ValueOf(doc, f, fold, last) = doc.members[i].value
      BY <1>2, <2>2, ScannedValue
    <3>2. value(f) = doc.members[i].value
      BY <2>2, ScannedValue
    <3> QED
      BY <3>1, <3>2
  <2> QED
    BY <2>1, <2>2
<1> HIDE DEF value
<1>3. ASSUME NEW fold \in BOOLEAN, NEW last \in BOOLEAN, NEW zero \in BOOLEAN
      PROVE  OptionsAs(doc, fold, last, zero) = plain
  <2>1. \A f : ValueOf(doc, f, fold, last) = value(f)
    BY <1>2, <1>3
  <2> DEFINE zeros(f, z) == IF zero /\ ValueOf(doc, f, fold, last).nullItem THEN <<z>> ELSE <<>>
  <2>2. \A f, z : zeros(f, z) = <<>>
    BY <1>1, <2>1
  <2>3. OptionsAs(doc, fold, last, zero) =
          [strings  |-> [f \in StringLists |->
                           ValueOf(doc, f, fold, last).strings \o zeros(f, EmptyPath)],
           ints     |-> [f \in IntLists |-> ValueOf(doc, f, fold, last).ints \o zeros(f, 0)],
           switches |-> {f \in Switches : ValueOf(doc, f, fold, last).on}]
    BY DEF OptionsAs
  <2> HIDE DEF zeros
  <2>4. [f \in StringLists |-> ValueOf(doc, f, fold, last).strings \o zeros(f, EmptyPath)] =
          [f \in StringLists |-> value(f).strings \o <<>>]
    BY <2>1, <2>2
  <2>5. [f \in IntLists |-> ValueOf(doc, f, fold, last).ints \o zeros(f, 0)] =
          [f \in IntLists |-> value(f).ints \o <<>>]
    BY <2>1, <2>2
  <2>6. {f \in Switches : ValueOf(doc, f, fold, last).on} = {f \in Switches : value(f).on}
    BY <2>1
  <2> QED
    BY <2>3, <2>4, <2>5, <2>6
<1>4. plain \in Options
  <2>1. \A f \in StringLists : value(f).strings \o <<>> \in Seq(Path \cup {EmptyPath})
    BY <1>1 DEF JSONValue
  <2>2. \A f \in IntLists : value(f).ints \o <<>> \in Seq(Int)
    BY <1>1 DEF JSONValue
  <2> QED
    BY <2>1, <2>2 DEF Options
<1> HIDE DEF plain
<1> QED
  BY <1>3, <1>4 DEF Decoded

\* Nothing the launcher checks stands in the way of a well-formed text.
LEMMA WellFormedPasses ==
  ASSUME NEW doc \in Content, WellFormed(doc)
  PROVE  /\ ScanAccepts(doc) /\ DecodeAccepts(doc) /\ Version(doc) = 1
         /\ doc.size <= MaxSize /\ ~doc.trailing
<1> DEFINE members == doc.members
<1>1. /\ \A i \in DOMAIN members : i \in Nat /\ members[i].field \in Fields \cup {"unknown"}
      /\ \A i \in DOMAIN members : \A j \in 1 .. i - 1 : j \in DOMAIN members
  <2> DEFINE M == [field : Fields \cup {"unknown"}, exact : BOOLEAN, value : JSONValue]
  <2>1. members \in Seq(M)
    BY DEF Content
  <2>2. \A i \in DOMAIN members : members[i] \in M => members[i].field \in Fields \cup {"unknown"}
    OBVIOUS
  <2> HIDE DEF M, members
  <2>3. DOMAIN members = 1 .. Len(members) /\ Len(members) \in Nat
    BY <2>1
  <2>4. \A i \in DOMAIN members : members[i] \in M
    BY <2>1
  <2> QED
    BY <2>2, <2>3, <2>4
<1>2. /\ doc.top = "object" /\ ~doc.trailing /\ doc.size <= MaxSize
      /\ \A i, j \in DOMAIN members : members[i].field = members[j].field => i = j
      /\ \A i \in DOMAIN members : /\ members[i].field # "unknown"
                                   /\ members[i].exact
                                   /\ members[i].value.type = TypeOf(members[i].field)
                                   /\ ~members[i].value.nullItem
      /\ \E i \in DOMAIN members : members[i].field = "version" /\ members[i].value.ints = <<1>>
  <2> DEFINE ms(f) == {i \in DOMAIN members : members[i].field = f}
  <2>1. \A f \in Fields \cup {"unknown"} :
          /\ \A i, j \in ms(f) : i = j
          /\ f = "unknown" => ms(f) = {}
          /\ \A i \in ms(f) : /\ members[i].exact
                              /\ members[i].value.type = TypeOf(f)
                              /\ ~members[i].value.nullItem
          /\ f = "version" => \E i \in ms(f) : members[i].value.ints = <<1>>
    BY DEF WellFormed
  <2>2. \A f, i : i \in ms(f) <=> i \in DOMAIN members /\ members[i].field = f
    OBVIOUS
  <2>3. "version" \in Fields
    BY DEF Fields
  <2>4. doc.top = "object" /\ ~doc.trailing /\ doc.size <= MaxSize
    BY DEF WellFormed
  <2> HIDE DEF ms, members
  <2>5. \A i, j \in DOMAIN members : members[i].field = members[j].field => i = j
    BY <1>1, <2>1, <2>2
  <2>6. \A i \in DOMAIN members : /\ members[i].field # "unknown"
                                  /\ members[i].exact
                                  /\ members[i].value.type = TypeOf(members[i].field)
                                  /\ ~members[i].value.nullItem
    BY <1>1, <2>1, <2>2
  <2>7. \E i \in DOMAIN members : members[i].field = "version" /\ members[i].value.ints = <<1>>
    BY <2>1, <2>2, <2>3
  <2> QED
    BY <2>4, <2>5, <2>6, <2>7
<1>3. \A f \in Fields : TypeOf(f) # "null"
  BY DEF Fields, TypeOf
<1>4. \A i \in DOMAIN members : members[i].value.type # "null"
  <2> HIDE DEF members
  <2> QED
    BY <1>1, <1>2, <1>3
<1>5. ASSUME NEW i \in DOMAIN members
      PROVE  ScanMember(doc, i)
  <2>1. \A j \in 1 .. i - 1 : members[j].field # members[i].field
    <3> HIDE DEF members
    <3>1. \A j \in 1 .. i - 1 : j \in DOMAIN members /\ j # i
      BY <1>1
    <3> QED
      BY <1>2, <3>1
  <2> QED
    BY <1>2, <1>4, <2>1 DEF ScanMember
<1>6. ScanAccepts(doc)
  BY <1>2, <1>5 DEF ScanAccepts
<1>7. DecodeAccepts(doc)
  BY <1>2 DEF DecodeAccepts
<1>8. Version(doc) = 1
  <2>1. PICK i \in DOMAIN members : members[i].field = "version" /\ members[i].value.ints = <<1>>
    BY <1>2
  <2>2. ValueOf(doc, "version", TRUE, TRUE) = members[i].value
    BY <1>6, <2>1, ScannedValue
  <2>3. <<1>> # <<>> /\ <<1>>[1] = 1
    OBVIOUS
  <2>4. ValueOf(doc, "version", TRUE, TRUE).ints = <<1>>
    BY <2>1, <2>2
  <2> QED
    BY <2>3, <2>4 DEF Version
<1> QED
  BY <1>2, <1>6, <1>7, <1>8

-----------------------------------------------------------------------------
(* The invariant is inductive.                                             *)

LEMMA InitIInv == Init => IInv
<1> SUFFICES ASSUME Init
             PROVE  IInv
  OBVIOUS
<1>1. content \in Content /\ command \in Commands
  BY ContentAssumption DEF Init
<1>2. ZeroLaunchPolicy.sandbox \in Request
  BY NoOptionsType, PolicyOfType DEF ZeroLaunchPolicy
<1>3. TypeOK
  <2>1. content.kind \in Kinds
    BY <1>1 DEF Content
  <2>2. data.size = 0 /\ 0 \in 0 .. MaxSize + 1 /\ 0 <= MaxSize /\ 0 \in 0 .. MaxRewrites
    BY SizeAssumption DEF Init, NothingRead
  <2> QED
    BY <1>1, <1>2, <2>1, <2>2 DEF Init, TypeOK, Steps
<1>4. NothingRead \in Content
  BY DEF NothingRead, Content, Kinds
<1>5. FileInv
  BY <1>1, <1>4 DEF Init, FileInv, Past
<1>6. RejectedWithReason
  BY DEF Init, RejectedWithReason
<1> QED
  BY <1>3, <1>5, <1>6 DEF IInv

\* Reading takes the whole file, or shows that it is too large.
LEMMA FirstBytesRead ==
  ASSUME NEW doc \in Content
  PROVE  LET read == FirstBytes(doc, MaxSize + 1)
         IN  /\ read \in Content /\ read.size \in 0 .. MaxSize + 1
             /\ read.size <= MaxSize => read = doc
<1>1. doc.size \in Nat /\ MaxSize \in Nat
  BY SizeAssumption DEF Content
<1>2. CASE doc.size <= MaxSize + 1
  BY <1>1, <1>2 DEF FirstBytes
<1>3. CASE doc.size > MaxSize + 1
  <2> DEFINE cut == [doc EXCEPT !.size = MaxSize + 1, !.trailing = FALSE]
  <2>1. cut \in Content /\ cut.size = MaxSize + 1
    <3> DEFINE largest == MaxSize + 1
    <3>1. largest \in Nat
      BY <1>1
    <3> HIDE DEF largest
    <3>2. [doc EXCEPT !.size = largest, !.trailing = FALSE] \in Content
      BY <3>1 DEF Content
    <3>3. [doc EXCEPT !.size = largest, !.trailing = FALSE].size = largest
      BY DEF Content
    <3> QED
      BY <3>2, <3>3 DEF largest
  <2>2. FirstBytes(doc, MaxSize + 1) = cut
    BY <1>1, <1>3 DEF FirstBytes
  <2> HIDE DEF cut
  <2> QED
    BY <1>1, <2>1, <2>2
<1> QED
  BY <1>1, <1>2, <1>3

LEMMA NextIInv == IInv /\ [Next]_vars => IInv'
<1> SUFFICES ASSUME IInv, [Next]_vars
             PROVE  IInv'
  OBVIOUS
<1> USE DEF Trans, inputs, file, Past, Steps
<1>0. /\ TypeOK /\ FileInv /\ RejectedWithReason
      /\ content \in Content /\ data \in Content /\ MaxSize \in Nat /\ MaxRewrites \in Nat
  BY ContentAssumption, SizeAssumption DEF IInv, TypeOK, FileInv
<1>1. CASE NoPolicyFile
  BY <1>0, <1>1 DEF NoPolicyFile, IInv, TypeOK, FileInv, RejectedWithReason
<1>2. CASE RejectInvocation
  BY <1>0, <1>2 DEF RejectInvocation, Reject, IInv, TypeOK, FileInv, RejectedWithReason
<1>3. CASE OpenPolicyFile
  BY <1>0, <1>3 DEF OpenPolicyFile, IInv, TypeOK, FileInv, RejectedWithReason
<1>4. CASE RejectKind
  BY <1>0, <1>4 DEF RejectKind, Reject, IInv, TypeOK, FileInv, RejectedWithReason
<1>5. CASE StatPolicyFile
  BY <1>0, <1>5 DEF StatPolicyFile, IInv, TypeOK, FileInv, RejectedWithReason
<1>6. CASE ReadPolicyFile
  <2>1. /\ data' = FirstBytes(content, MaxSize + 1)
        /\ pc = "read" /\ pc' = IF data'.size > MaxSize THEN "rejected" ELSE "scan"
        /\ UNCHANGED <<inputs, file, base, policy>>
    BY <1>6 DEF ReadPolicyFile, ReadUpTo
  <2>2. /\ data' \in Content /\ data'.size \in 0 .. MaxSize + 1
        /\ data'.size <= MaxSize => data' = content
    BY <1>0, <2>1, FirstBytesRead
  <2>3. TypeOK'
    BY <1>0, <2>1, <2>2 DEF TypeOK
  <2>4. FileInv'
    BY <1>0, <2>1, <2>2 DEF FileInv
  <2>5. RejectedWithReason'
    <3>1. CASE data'.size > MaxSize
      <4>1. ~WellFormed(data')
        BY <1>0, <2>2, <3>1, WellFormedPasses
      <4> QED
        BY <4>1 DEF RejectedWithReason
    <3>2. CASE ~(data'.size > MaxSize)
      BY <2>1, <3>2 DEF RejectedWithReason
    <3> QED
      BY <3>1, <3>2
  <2> QED
    BY <2>3, <2>4, <2>5 DEF IInv
<1>7. CASE RejectDuplicateJSONKeys
  <2>1. TypeOK' /\ FileInv'
    BY <1>0, <1>7 DEF RejectDuplicateJSONKeys, TypeOK, FileInv
  <2>2. RejectedWithReason'
    BY <1>0, <1>7, WellFormedPasses DEF RejectDuplicateJSONKeys, RejectedWithReason
  <2> QED
    BY <2>1, <2>2 DEF IInv
<1>8. CASE RejectDecoded
  <2>1. TypeOK' /\ FileInv'
    BY <1>0, <1>8 DEF RejectDecoded, Reject, TypeOK, FileInv
  <2>2. RejectedWithReason'
    BY <1>0, <1>8, WellFormedPasses DEF RejectDecoded, Reject, RejectedWithReason
  <2> QED
    BY <2>1, <2>2 DEF IInv
<1>9. CASE DecodePolicyFile
  <2>1. /\ pc = "decode" /\ pc' = "merge" /\ base' = FilePolicy(Decoded(data))
        /\ data.top = "object"
        /\ UNCHANGED <<inputs, file, data, policy>>
    BY <1>9 DEF DecodePolicyFile, DecodeAccepts
  <2>2. Decoded(data) \in Options
    BY <1>0, <2>1, ScannedOptions DEF FileInv
  <2>3. FilePolicy(Decoded(data)).sandbox \in Request
    BY <2>2, PolicyOfType
  <2>4. TypeOK'
    BY <1>0, <2>1, <2>3 DEF TypeOK, FileInv
  <2>5. FileInv'
    BY <1>0, <2>1 DEF FileInv
  <2>6. RejectedWithReason'
    BY <2>1 DEF RejectedWithReason
  <2> QED
    BY <2>4, <2>5, <2>6 DEF IInv
<1>10. CASE Merge
  <2>1. PolicyFromCommand(command).sandbox \in Request
    <3>1. command \in Options
      BY <1>0, ContentAssumption DEF FileInv
    <3> QED
      BY <3>1, PolicyOfType DEF PolicyFromCommand, FilePolicy
  <2>2. policy'.sandbox \in Request
    BY <1>0, <1>10, <2>1, MergedSandboxes DEF Merge, MergeLaunchPolicies, MergeInto, TypeOK
  <2>3. TypeOK'
    BY <1>0, <1>10, <2>2 DEF Merge, TypeOK
  <2>4. FileInv'
    BY <1>0, <1>10 DEF Merge, FileInv
  <2>5. RejectedWithReason'
    BY <1>10 DEF Merge, RejectedWithReason
  <2> QED
    BY <2>3, <2>4, <2>5 DEF IInv
<1>11. CASE Rewrite
  BY <1>0, <1>11, ContentAssumption
  DEF Rewrite, IInv, TypeOK, FileInv, RejectedWithReason, Kinds
<1>12. CASE OpenWriter
  BY <1>0, <1>12 DEF OpenWriter, IInv, TypeOK, FileInv, RejectedWithReason
<1>13. CASE UNCHANGED vars
  BY <1>0, <1>13 DEF vars, IInv, TypeOK, FileInv, RejectedWithReason
<1> QED
  BY <1>1, <1>2, <1>3, <1>4, <1>5, <1>6, <1>7, <1>8, <1>9, <1>10, <1>11, <1>12, <1>13
  DEF Next, LoadStep

\* Every reachable state of the loader satisfies the invariant.
THEOREM InductiveInvariant == Spec => []IInv
BY InitIInv, NextIInv, PTL DEF Spec

-----------------------------------------------------------------------------
(* What follows from it.                                                   *)

\* What is read and loaded stays in its type, and the policy of the file is
\* empty when there is none.
THEOREM TypeCorrect == Spec => []TypeOK
<1>1. IInv => TypeOK
  BY DEF IInv
<1> QED
  BY <1>1, InductiveInvariant, PTL

\* A launch is refused only for a file that is not what is asked for.
THEOREM RejectedWithReasonCorrect == Spec => []RejectedWithReason
<1>1. IInv => RejectedWithReason
  BY DEF IInv
<1> QED
  BY <1>1, InductiveInvariant, PTL

\* Every reader of the text finds the policy that was loaded from it.
THEOREM OneMeaningCorrect == Spec => []OneMeaning
<1>1. IInv => OneMeaning
  <2> SUFFICES ASSUME IInv, FromFile,
                      NEW folding \in BOOLEAN, NEW lastWins \in BOOLEAN, NEW nullIsZero \in BOOLEAN
               PROVE  FilePolicy(OptionsAs(data, folding, lastWins, nullIsZero)) = base
    BY DEF OneMeaning
  <2>1. data \in Content /\ ScanAccepts(data) /\ base = FilePolicy(Decoded(data))
    BY DEF IInv, FileInv, FromFile, Past
  <2>2. OptionsAs(data, folding, lastWins, nullIsZero) = Decoded(data)
    BY <2>1, ScannedOptions
  <2> QED
    BY <2>1, <2>2
<1> QED
  BY <1>1, InductiveInvariant, PTL

\* What was loaded is one object that is the whole of a regular file.
THEOREM WholeFileJudgedCorrect == Spec => []WholeFileJudged
<1>1. IInv => WholeFileJudged
  BY DEF IInv, TypeOK, FileInv, FromFile, Past, ScanAccepts, WholeFileJudged
<1> QED
  BY <1>1, InductiveInvariant, PTL

\* A merged policy is made of the options of both sources.
LEMMA MergedSources ==
  ASSUME IInv, pc = "merged"
  PROVE  /\ Sources[1] \in Options /\ Sources[2] \in Options
         /\ policy = MergeLaunchPolicies(FilePolicy(Sources[1]), FilePolicy(Sources[2]))
<1>1. command \in Options /\ policy = MergeLaunchPolicies(base, PolicyFromCommand(command))
  BY ContentAssumption DEF IInv, FileInv
<1>2. CASE invocation = "file"
  <2>1. data \in Content /\ ScanAccepts(data) /\ base = FilePolicy(Decoded(data))
    BY <1>2 DEF IInv, FileInv, Past
  <2>2. Decoded(data) \in Options
    BY <2>1, ScannedOptions
  <2>3. Sources[1] = Decoded(data) /\ Sources[2] = command
    BY <1>2 DEF Sources
  <2> QED
    BY <1>1, <2>1, <2>2, <2>3 DEF PolicyFromCommand, FilePolicy
<1>3. CASE invocation # "file"
  <2>1. base = FilePolicy(NoOptions)
    BY <1>3 DEF IInv, TypeOK, ZeroLaunchPolicy
  <2>2. Sources[1] = NoOptions /\ Sources[2] = command
    BY <1>3 DEF Sources
  <2> QED
    BY <1>1, <2>1, <2>2, NoOptionsType DEF PolicyFromCommand, FilePolicy
<1> QED
  BY <1>2, <1>3

\* Normalised requests are equal when their lists have the same elements.
LEMMA NormalizedEqual ==
  ASSUME NEW a \in Request, NEW b \in Request,
         \A c \in PathClasses : Range(a.paths[c]) = Range(b.paths[c]),
         \A c \in PortClasses : Range(a.ports[c]) = Range(b.ports[c]),
         a.unrestricted = b.unrestricted, a.bestEffort = b.bestEffort,
         a.ignoreMissing = b.ignoreMissing, a.audit = b.audit
  PROVE  Normalize(a) = Normalize(b)
<1> DEFINE Like(P, Q) ==
             [paths : P, ports : Q, unrestricted : SUBSET Domains, bestEffort : BOOLEAN,
              ignoreMissing : BOOLEAN, audit : SUBSET AuditFlags]
           paths(req) == [c \in PathClasses |-> Range(req.paths[c])]
           ports(req) == [c \in PortClasses |-> Range(req.ports[c])]
<1>1. ASSUME NEW P, NEW Q, NEW r \in Like(P, Q)
      PROVE  r = [paths |-> r.paths, ports |-> r.ports, unrestricted |-> r.unrestricted,
                  bestEffort |-> r.bestEffort, ignoreMissing |-> r.ignoreMissing,
                  audit |-> r.audit]
  OBVIOUS
<1>2. ASSUME NEW req \in Request
      PROVE  /\ Normalize(req) \in Like({paths(req)}, {ports(req)})
             /\ Normalize(req).unrestricted = req.unrestricted
             /\ Normalize(req).bestEffort = req.bestEffort
             /\ Normalize(req).ignoreMissing = req.ignoreMissing
             /\ Normalize(req).audit = req.audit
  <2>1. Normalize(req) = [req EXCEPT !.paths = paths(req), !.ports = ports(req)]
    BY DEF Normalize
  <2>2. PICK P, Q : req \in Like(P, Q)
    BY DEF Request
  <2> HIDE DEF paths, ports
  <2> QED
    BY <2>1, <2>2
<1>3. paths(a) = paths(b) /\ ports(a) = ports(b)
  OBVIOUS
<1> HIDE DEF paths, ports
<1>4. /\ Normalize(a) \in Like({paths(a)}, {ports(a)})
      /\ Normalize(b) \in Like({paths(a)}, {ports(a)})
  BY <1>2, <1>3
<1>5. /\ Normalize(a).paths = Normalize(b).paths
      /\ Normalize(a).ports = Normalize(b).ports
  BY <1>4
<1>6. /\ Normalize(a).unrestricted = Normalize(b).unrestricted
      /\ Normalize(a).bestEffort = Normalize(b).bestEffort
      /\ Normalize(a).ignoreMissing = Normalize(b).ignoreMissing
      /\ Normalize(a).audit = Normalize(b).audit
  <2> HIDE DEF Like
  <2> QED
    BY <1>2
<1> HIDE DEF Like
<1> QED
  BY <1>1, <1>4, <1>5, <1>6

\* The parts of the policy that options make.
LEMMA PolicyParts ==
  ASSUME NEW options
  PROVE  /\ FilePolicy(options).sandbox.paths = WithReadRights(options.strings)
         /\ \A c \in PortClasses :
              FilePolicy(options).sandbox.ports[c] = options.ints[PortFlag[c]]
         /\ FilePolicy(options).sandbox.unrestricted =
              {d \in Domains : UnrestrictedFlag[d] \in options.switches}
         /\ FilePolicy(options).sandbox.audit =
              {f \in AuditFlags : AuditFlag[f] \in options.switches}
         /\ FilePolicy(options).env = options.strings["env"]
         /\ FilePolicy(options).preserve = options.ints["preserve-fd"]
BY DEF FilePolicy, PolicyOf

LEMMA PolicySwitches ==
  ASSUME NEW options
  PROVE  /\ FilePolicy(options).sandbox.bestEffort = ("best-effort" \in options.switches)
         /\ FilePolicy(options).sandbox.ignoreMissing = ("ignore-missing" \in options.switches)
         /\ FilePolicy(options).ldd = ("ldd" \in options.switches)
         /\ FilePolicy(options).addExec = ("add-exec" \in options.switches)
BY Zenon DEF FilePolicy, PolicyOf

\* The parts of a merged sandbox.
LEMMA MergedPorts ==
  ASSUME NEW a, NEW b, NEW c \in PortClasses
  PROVE  MergeSandboxes(a, b).ports[c] = a.ports[c] \o b.ports[c]
BY DEF MergeSandboxes

LEMMA MergedParts ==
  ASSUME NEW a, NEW b
  PROVE  /\ MergeSandboxes(a, b).unrestricted = a.unrestricted \cup b.unrestricted
         /\ MergeSandboxes(a, b).audit = a.audit \cup b.audit
BY DEF MergeSandboxes

LEMMA MergedSwitches ==
  ASSUME NEW a, NEW b
  PROVE  /\ MergeSandboxes(a, b).bestEffort = (a.bestEffort \/ b.bestEffort)
         /\ MergeSandboxes(a, b).ignoreMissing = (a.ignoreMissing \/ b.ignoreMissing)
BY Zenon DEF MergeSandboxes

\* The parts of joined options.
LEMMA JoinedStrings ==
  ASSUME NEW a, NEW b, NEW f \in StringLists
  PROVE  JoinOptions(a, b).strings[f] = a.strings[f] \o b.strings[f]
BY DEF JoinOptions

LEMMA JoinedInts ==
  ASSUME NEW a, NEW b, NEW f \in IntLists
  PROVE  JoinOptions(a, b).ints[f] = a.ints[f] \o b.ints[f]
BY DEF JoinOptions

LEMMA JoinedSwitches ==
  ASSUME NEW a, NEW b
  PROVE  JoinOptions(a, b).switches = a.switches \cup b.switches
BY DEF JoinOptions

\* Merging the sandboxes of two sources amounts to joining their options.
LEMMA MergedSandboxIsJoined ==
  ASSUME NEW a \in Options, NEW b \in Options,
         NEW first, first = FilePolicy(a).sandbox,
         NEW second, second = FilePolicy(b).sandbox,
         NEW both, both = JoinOptions(a, b),
         NEW joined, joined = FilePolicy(both).sandbox,
         NEW merged, merged = MergeSandboxes(first, second)
  PROVE  Normalize(merged) = Normalize(joined)
<1>1. first \in Request /\ second \in Request /\ both \in Options
  BY JoinedOptions, PolicyOfType
<1>2. joined \in Request /\ merged \in Request
  BY <1>1, PolicyOfType, MergedSandboxes
<1>3. \A c \in PathClasses : Range(merged.paths[c]) = Range(joined.paths[c])
  <2> DEFINE also(options, c) ==
               (IF c = "ro" THEN Range(options.strings["rox"]) ELSE {})
                 \cup (IF c = "rw" THEN Range(options.strings["rwx"]) ELSE {})
  <2> SUFFICES ASSUME NEW c \in PathClasses
               PROVE  Range(merged.paths[c]) = Range(joined.paths[c])
    OBVIOUS
  <2>1. first.paths = WithReadRights(a.strings) /\ second.paths = WithReadRights(b.strings)
    BY PolicyParts
  <2>2. joined.paths = WithReadRights(both.strings)
    BY PolicyParts
  <2>0. \A options \in Options :
          Range(WithReadRights(options.strings)[c]) =
            Range(options.strings[c]) \cup also(options, c)
    <3> TAKE options \in Options
    <3> DEFINE rox == IF c = "ro" THEN Range(options.strings["rox"]) ELSE {}
               rwx == IF c = "rw" THEN Range(options.strings["rwx"]) ELSE {}
    <3>1. Range(WithReadRights(options.strings)[c]) = Range(options.strings[c]) \cup rox \cup rwx
      BY ReadRights
    <3>2. also(options, c) = rox \cup rwx
      OBVIOUS
    <3> HIDE DEF also, rox, rwx
    <3> QED
      BY <3>1, <3>2
  <2> HIDE DEF also
  <2>3. Range(first.paths[c]) = Range(a.strings[c]) \cup also(a, c)
    BY <2>0, <2>1
  <2>4. Range(second.paths[c]) = Range(b.strings[c]) \cup also(b, c)
    BY <2>0, <2>1
  <2>5. Range(joined.paths[c]) = Range(both.strings[c]) \cup also(both, c)
    BY <1>1, <2>0, <2>2
  <2>6. Range(merged.paths[c]) = Range(first.paths[c]) \cup Range(second.paths[c])
    BY <1>1, MergedSandboxes
  <2>7. /\ Range(both.strings[c]) = Range(a.strings[c]) \cup Range(b.strings[c])
        /\ Range(both.strings["rox"]) = Range(a.strings["rox"]) \cup Range(b.strings["rox"])
        /\ Range(both.strings["rwx"]) = Range(a.strings["rwx"]) \cup Range(b.strings["rwx"])
    <3>1. \A d \in PathClasses :
            Range(both.strings[d]) = Range(a.strings[d]) \cup Range(b.strings[d])
      BY JoinedOptions
    <3>2. "rox" \in PathClasses /\ "rwx" \in PathClasses
      BY DEF PathClasses
    <3> QED
      BY <3>1, <3>2
  <2>8. also(both, c) = also(a, c) \cup also(b, c)
    BY <2>7 DEF also
  <2> QED
    BY <2>3, <2>4, <2>5, <2>6, <2>7, <2>8
<1>4. \A c \in PortClasses : merged.ports[c] = joined.ports[c]
  <2> SUFFICES ASSUME NEW c \in PortClasses
               PROVE  merged.ports[c] = joined.ports[c]
    OBVIOUS
  <2>1. MergeSandboxes(first, second).ports[c] = first.ports[c] \o second.ports[c]
    BY MergedPorts
  <2>2. first.ports[c] = a.ints[PortFlag[c]] /\ second.ports[c] = b.ints[PortFlag[c]]
    BY PolicyParts
  <2>3. joined.ports[c] = both.ints[PortFlag[c]]
    BY PolicyParts
  <2>4. PortFlag[c] \in IntLists
    BY DEF PortClasses, PortFlag, IntLists
  <2>5. JoinOptions(a, b).ints[PortFlag[c]] = a.ints[PortFlag[c]] \o b.ints[PortFlag[c]]
    BY <2>4, JoinedInts
  <2> QED
    BY <2>1, <2>2, <2>3, <2>5
<1>5. both.switches = a.switches \cup b.switches
  BY JoinedSwitches
<1>6. merged.unrestricted = joined.unrestricted /\ merged.audit = joined.audit
  <2>1. /\ first.unrestricted = {d \in Domains : UnrestrictedFlag[d] \in a.switches}
        /\ second.unrestricted = {d \in Domains : UnrestrictedFlag[d] \in b.switches}
        /\ first.audit = {f \in AuditFlags : AuditFlag[f] \in a.switches}
        /\ second.audit = {f \in AuditFlags : AuditFlag[f] \in b.switches}
    BY PolicyParts
  <2>2. /\ joined.unrestricted = {d \in Domains : UnrestrictedFlag[d] \in both.switches}
        /\ joined.audit = {f \in AuditFlags : AuditFlag[f] \in both.switches}
    BY PolicyParts
  <2>3. /\ merged.unrestricted = first.unrestricted \cup second.unrestricted
        /\ merged.audit = first.audit \cup second.audit
    BY MergedParts
  <2> QED
    BY <1>5, <2>1, <2>2, <2>3
<1>7. merged.bestEffort = joined.bestEffort /\ merged.ignoreMissing = joined.ignoreMissing
  <2>1. \A s : s \in both.switches <=> s \in a.switches \/ s \in b.switches
    BY <1>5
  <2>2. /\ first.bestEffort = ("best-effort" \in a.switches)
        /\ second.bestEffort = ("best-effort" \in b.switches)
        /\ first.ignoreMissing = ("ignore-missing" \in a.switches)
        /\ second.ignoreMissing = ("ignore-missing" \in b.switches)
        /\ joined.bestEffort = ("best-effort" \in both.switches)
        /\ joined.ignoreMissing = ("ignore-missing" \in both.switches)
    BY PolicySwitches, Zenon
  <2>3. /\ merged.bestEffort = (first.bestEffort \/ second.bestEffort)
        /\ merged.ignoreMissing = (first.ignoreMissing \/ second.ignoreMissing)
    BY MergedSwitches, Zenon
  <2>4. /\ joined.bestEffort <=> merged.bestEffort
        /\ joined.ignoreMissing <=> merged.ignoreMissing
    BY <2>1, <2>2, <2>3, Zenon
  <2>5. /\ joined.bestEffort \in BOOLEAN /\ merged.bestEffort \in BOOLEAN
        /\ joined.ignoreMissing \in BOOLEAN /\ merged.ignoreMissing \in BOOLEAN
    BY <1>2 DEF Request
  <2> QED
    BY <2>4, <2>5
<1> QED
  BY <1>2, <1>3, <1>4, <1>6, <1>7, NormalizedEqual

\* And so does merging the rest of their policies.
LEMMA MergeIsJoin ==
  ASSUME NEW a \in Options, NEW b \in Options,
         NEW merged, merged = MergeLaunchPolicies(FilePolicy(a), FilePolicy(b)),
         NEW joined, joined = FilePolicy(JoinOptions(a, b))
  PROVE  /\ Normalize(merged.sandbox) = Normalize(joined.sandbox)
         /\ [merged EXCEPT !.sandbox = joined.sandbox] = joined
<1> DEFINE first == FilePolicy(a)
           second == FilePolicy(b)
           both == JoinOptions(a, b)
<1>1. merged = [sandbox  |-> MergeSandboxes(first.sandbox, second.sandbox),
                env      |-> first.env \o second.env,
                preserve |-> first.preserve \o second.preserve,
                ldd      |-> first.ldd \/ second.ldd,
                addExec  |-> first.addExec \/ second.addExec]
  BY Zenon DEF MergeLaunchPolicies, MergeInto
<1>2. merged.sandbox = MergeSandboxes(first.sandbox, second.sandbox)
  BY <1>1
<1>3. Normalize(merged.sandbox) = Normalize(joined.sandbox)
  BY <1>2, MergedSandboxIsJoined
<1>4. /\ joined.env = first.env \o second.env
      /\ joined.preserve = first.preserve \o second.preserve
  <2>1. /\ joined.env = both.strings["env"] /\ first.env = a.strings["env"]
        /\ second.env = b.strings["env"]
        /\ joined.preserve = both.ints["preserve-fd"] /\ first.preserve = a.ints["preserve-fd"]
        /\ second.preserve = b.ints["preserve-fd"]
    BY PolicyParts
  <2>2. both.strings["env"] = a.strings["env"] \o b.strings["env"]
    BY JoinedStrings DEF StringLists
  <2>3. both.ints["preserve-fd"] = a.ints["preserve-fd"] \o b.ints["preserve-fd"]
    BY JoinedInts DEF IntLists
  <2> QED
    BY <2>1, <2>2, <2>3
<1>5. /\ joined.ldd = (first.ldd \/ second.ldd)
      /\ joined.addExec = (first.addExec \/ second.addExec)
  <2>1. \A s : s \in both.switches <=> s \in a.switches \/ s \in b.switches
    BY JoinedSwitches
  <2>2. /\ joined.ldd = ("ldd" \in both.switches) /\ first.ldd = ("ldd" \in a.switches)
        /\ second.ldd = ("ldd" \in b.switches)
        /\ joined.addExec = ("add-exec" \in both.switches)
        /\ first.addExec = ("add-exec" \in a.switches)
        /\ second.addExec = ("add-exec" \in b.switches)
    BY PolicySwitches, Zenon
  <2>3. /\ ("ldd" \in both.switches) = ("ldd" \in a.switches \/ "ldd" \in b.switches)
        /\ ("add-exec" \in both.switches) =
             ("add-exec" \in a.switches \/ "add-exec" \in b.switches)
    BY <2>1
  <2> HIDE DEF first, second, both
  <2>4. joined.ldd = (first.ldd \/ second.ldd)
    BY <2>2, <2>3, Zenon
  <2>5. joined.addExec = (first.addExec \/ second.addExec)
    BY <2>2, <2>3, Zenon
  <2> QED
    BY <2>4, <2>5, Zenon
<1>6. /\ joined = [sandbox |-> joined.sandbox, env |-> joined.env, preserve |-> joined.preserve,
                   ldd |-> joined.ldd, addExec |-> joined.addExec]
  <2>1. \E s, e, p, l, x : joined = [sandbox |-> s, env |-> e, preserve |-> p, ldd |-> l, addExec |-> x]
    BY Zenon DEF FilePolicy, PolicyOf
  <2> QED
    BY <2>1
<1>7. merged = [sandbox |-> merged.sandbox, env |-> joined.env, preserve |-> joined.preserve,
                ldd |-> joined.ldd, addExec |-> joined.addExec]
  <2> HIDE DEF first, second
  <2> QED
    BY <1>1, <1>2, <1>4, <1>5, Zenon
<1>8. ASSUME NEW m, NEW s, NEW t, NEW e, NEW p, NEW l, NEW x,
             m = [sandbox |-> s, env |-> e, preserve |-> p, ldd |-> l, addExec |-> x]
      PROVE  [m EXCEPT !.sandbox = t] =
             [sandbox |-> t, env |-> e, preserve |-> p, ldd |-> l, addExec |-> x]
  BY <1>8
<1>9. [merged EXCEPT !.sandbox = joined.sandbox] =
        [sandbox |-> joined.sandbox, env |-> joined.env, preserve |-> joined.preserve,
         ldd |-> joined.ldd, addExec |-> joined.addExec]
  BY <1>7, <1>8
<1>10. [merged EXCEPT !.sandbox = joined.sandbox] = joined
  BY <1>6, <1>9
<1> QED
  BY <1>3, <1>10

\* How options are divided between the file and the command line makes no
\* difference to the launch.
THEOREM SourceMakesNoDifferenceCorrect == Spec => []SourceMakesNoDifference
<1>1. IInv => SourceMakesNoDifference
  <2> SUFFICES ASSUME IInv, pc = "merged",
                      NEW joined, joined = PolicyFromCommand(JoinOptions(Sources[1], Sources[2]))
               PROVE  /\ Normalize(policy.sandbox) = Normalize(joined.sandbox)
                      /\ [policy EXCEPT !.sandbox = joined.sandbox] = joined
    BY Zenon DEF SourceMakesNoDifference
  <2>1. joined = FilePolicy(JoinOptions(Sources[1], Sources[2]))
    BY DEF PolicyFromCommand, FilePolicy
  <2> QED
    BY <2>1, MergedSources, MergeIsJoin
<1> QED
  BY <1>1, InductiveInvariant, PTL

\* The policy of two sources has the rules of both, and leaves unrestricted
\* what one of them does.
LEMMA MergedKeeps ==
  ASSUME NEW a \in Options, NEW b \in Options,
         NEW merged, merged = MergeSandboxes(FilePolicy(a).sandbox, FilePolicy(b).sandbox),
         NEW options \in {a, b}
  PROVE  /\ \A d \in Domains : Unrestricts(options, d) => d \in merged.unrestricted
         /\ \A c \in PathClasses : Range(options.strings[c]) \subseteq Range(merged.paths[c])
         /\ \A c \in PortClasses : Range(options.ints[PortFlag[c]]) \subseteq Range(merged.ports[c])
<1> DEFINE first == FilePolicy(a).sandbox
           second == FilePolicy(b).sandbox
<1>1. first \in Request /\ second \in Request
  BY PolicyOfType
<1>2. \A d \in Domains : Unrestricts(options, d) => d \in merged.unrestricted
  <2>1. /\ first.unrestricted = {d \in Domains : UnrestrictedFlag[d] \in a.switches}
        /\ second.unrestricted = {d \in Domains : UnrestrictedFlag[d] \in b.switches}
    BY PolicyParts
  <2>2. merged.unrestricted = first.unrestricted \cup second.unrestricted
    BY MergedParts
  <2> QED
    BY <2>1, <2>2 DEF Unrestricts
<1>3. ASSUME NEW c \in PathClasses
      PROVE  Range(options.strings[c]) \subseteq Range(merged.paths[c])
  <2>1. Range(merged.paths[c]) = Range(first.paths[c]) \cup Range(second.paths[c])
    BY <1>1, <1>3, MergedSandboxes
  <2>2. first.paths = WithReadRights(a.strings) /\ second.paths = WithReadRights(b.strings)
    BY PolicyParts
  <2>3. \A o \in Options : Range(o.strings[c]) \subseteq Range(WithReadRights(o.strings)[c])
    BY <1>3, ReadRights
  <2>4. /\ Range(a.strings[c]) \subseteq Range(first.paths[c])
        /\ Range(b.strings[c]) \subseteq Range(second.paths[c])
    BY <2>2, <2>3
  <2> QED
    BY <2>1, <2>4
<1>4. ASSUME NEW c \in PortClasses
      PROVE  Range(options.ints[PortFlag[c]]) \subseteq Range(merged.ports[c])
  <2>1. merged.ports[c] = first.ports[c] \o second.ports[c]
    BY <1>4, MergedPorts
  <2>2. first.ports[c] = a.ints[PortFlag[c]] /\ second.ports[c] = b.ints[PortFlag[c]]
    BY <1>4, PolicyParts
  <2>3. first.ports[c] \in Seq(Int) /\ second.ports[c] \in Seq(Int)
    BY <1>1, <1>4 DEF Request
  <2>4. Range(merged.ports[c]) = Range(first.ports[c]) \cup Range(second.ports[c])
    BY <2>1, <2>3, RangeConcat
  <2> QED
    BY <2>2, <2>4
<1> QED
  BY <1>2, <1>3, <1>4

\* A valid policy leaves no domain unrestricted for which a source has a rule.
THEOREM NoRuleMadeMootCorrect == Spec => []NoRuleMadeMoot
<1>1. IInv => NoRuleMadeMoot
  <2> SUFFICES ASSUME IInv, pc = "merged", ValidConfig(policy.sandbox),
                      NEW i \in 1 .. 2, NEW j \in 1 .. 2, NEW d \in Domains,
                      Unrestricts(Sources[i], d)
               PROVE  RulesIn(Sources[j], d) = {}
    BY DEF NoRuleMadeMoot
  <2> DEFINE a == Sources[1]
             b == Sources[2]
             options == Sources[j]
             merged == MergeSandboxes(FilePolicy(a).sandbox, FilePolicy(b).sandbox)
  <2>1. a \in Options /\ b \in Options /\ policy.sandbox = merged
    <3>1. policy = MergeLaunchPolicies(FilePolicy(a), FilePolicy(b))
      BY MergedSources
    <3>2. policy.sandbox = merged
      BY <3>1 DEF MergeLaunchPolicies, MergeInto
    <3> QED
      BY <3>2, MergedSources
  <2>2. Sources[i] \in {a, b} /\ options \in {a, b}
    OBVIOUS
  <2>3. d \in merged.unrestricted
    <3> HIDE DEF a, b
    <3> QED
      BY <2>1, <2>2, MergedKeeps
  <2>4. /\ \A c \in PathClasses : Range(options.strings[c]) \subseteq Range(merged.paths[c])
        /\ \A c \in PortClasses :
             Range(options.ints[PortFlag[c]]) \subseteq Range(merged.ports[c])
    <3> HIDE DEF a, b, options
    <3> QED
      BY <2>1, <2>2, MergedKeeps
  <2>5. ValidConfig(merged)
    BY <2>1
  <2> HIDE DEF a, b, options, merged
  <2>6. Range(<<>>) = {}
    BY DEF Range
  <2>7. CASE d = "filesystem"
    <3>1. \A c \in PathClasses : merged.paths[c] = <<>>
      BY <2>3, <2>5, <2>7 DEF ValidConfig
    <3>2. \A c \in PathClasses : Range(options.strings[c]) = {}
      BY <2>4, <2>6, <3>1
    <3>3. UNION {Range(options.strings[c]) : c \in PathClasses} = {}
      BY <3>2
    <3> QED
      BY <2>7, <3>3 DEF RulesIn, options
  <2>8. CASE d = "network"
    <3>1. \A c \in PortClasses : merged.ports[c] = <<>>
      BY <2>3, <2>5, <2>8 DEF ValidConfig
    <3>2. \A c \in PortClasses : Range(options.ints[PortFlag[c]]) = {}
      BY <2>4, <2>6, <3>1
    <3>3. UNION {Range(options.ints[PortFlag[c]]) : c \in PortClasses} = {}
      BY <3>2
    <3> QED
      BY <2>8, <3>3 DEF RulesIn, options
  <2>9. CASE d = "scoped"
    BY <2>9 DEF RulesIn
  <2> QED
    BY <2>7, <2>8, <2>9 DEF Domains
<1> QED
  BY <1>1, InductiveInvariant, PTL
=============================================================================
