----------------------------- MODULE PolicyFile ----------------------------
(***************************************************************************)
(* From the invocation to the policy of a launch: the policy file is       *)
(* opened, checked, read once, scanned for what encoding/json would let    *)
(* through, decoded, and merged with the command line                      *)
(* (cmd/landrun/policy.go, cmd/landrun/main.go:158-179).                   *)
(*                                                                         *)
(* A content is the kind of the file and its JSON text, as far as readers  *)
(* tell texts apart: the top value, the members of an object in order,     *)
(* whether anything follows, and the size.  The key of a member is the     *)
(* field it spells, exactly or in another case, which encoding/json takes  *)
(* for the same field; "unknown" is any other key.                         *)
(***************************************************************************)
EXTENDS LaunchPolicy

CONSTANTS
  Contents,     \* the contents the file may have at first
  Edits,        \* the contents somebody may write into it
  Commands,     \* the options of the command line
  MaxSize,      \* maxPolicyFileSize
  MaxRewrites   \* bound of the model on changes of the file

ASSUME SizeAssumption == MaxSize \in Nat /\ MaxRewrites \in Nat

Fields == StringLists \cup IntLists \cup Switches \cup {"version"}

Kinds == {"regular", "directory", "fifo", "missing"}

\* A value has its type and, as far as its type gives them, strings, numbers,
\* or on; nullItem is a null in a list.
JSONValue ==
  [type     : {"null", "bool", "int", "strings", "ints", "other"},
   strings  : Seq(Path \cup {EmptyPath}),
   ints     : Seq(Int),
   on       : BOOLEAN,
   nullItem : BOOLEAN]

Content ==
  [kind     : Kinds,
   top      : {"object", "array", "scalar", "null", "malformed"},
   members  : Seq([field : Fields \cup {"unknown"}, exact : BOOLEAN, value : JSONValue]),
   trailing : BOOLEAN,
   size     : Nat]

\* What is written into a file does not change its kind.
ASSUME ContentAssumption ==
  /\ Contents \cup Edits \subseteq Content
  /\ \A c \in Edits : c.kind = "regular"
  /\ Commands \subseteq Options

VARIABLES
  pc,          \* the step the launcher is at
  invocation,  \* what --policy is: "none", "empty" or "file"
  command,     \* the options of the command line
  content,     \* what the path of the policy file names, and what it holds
  writer,      \* somebody has the FIFO open for writing
  rewrites,    \* changes of the file so far
  data,        \* what was read of it
  base,        \* the policy of the file
  policy       \* the merged policy

inputs == <<invocation, command>>
file == <<content, writer, rewrites>>
vars == <<pc, inputs, file, data, base, policy>>

NothingRead == [kind |-> "missing", top |-> "null", members |-> <<>>, trailing |-> FALSE, size |-> 0]

Steps == {"start", "stat", "read", "scan", "decode", "merge", "merged", "rejected"}

Init ==
  /\ pc = "start"
  /\ invocation \in {"none", "empty", "file"}
  /\ command \in Commands
  /\ content \in Contents
  /\ writer = FALSE
  /\ rewrites = 0
  /\ data = NothingRead
  /\ base = ZeroLaunchPolicy
  /\ policy = ZeroLaunchPolicy

Trans(from, to) == pc = from /\ pc' = to

-----------------------------------------------------------------------------
(* The scan: rejectDuplicateJSONKeys.                                      *)

\* Mutated form: a key is known in any case, as for encoding/json.
ScanMemberFolding(doc, i) ==
  LET m == doc.members[i]
  IN  /\ m.field # "unknown"
      /\ \A j \in 1 .. i - 1 : <<doc.members[j].field, doc.members[j].exact>> # <<m.field, m.exact>>
      /\ m.value.type # "null" /\ ~m.value.nullItem

\* A member passes: its key is known, in the exact case, and new; there is no
\* null in its value.
ScanMember(doc, i) ==
  LET m == doc.members[i]
  IN  /\ m.field # "unknown" /\ m.exact
      /\ \A j \in 1 .. i - 1 : <<doc.members[j].field, doc.members[j].exact>> # <<m.field, m.exact>>
      /\ m.value.type # "null" /\ ~m.value.nullItem

\* The scan does not look at types: a scalar or a list passes for a document.
ScanAccepts(doc) ==
  /\ doc.top \notin {"malformed", "null"}
  /\ \A i \in DOMAIN doc.members : ScanMember(doc, i)
  /\ ~doc.trailing

-----------------------------------------------------------------------------
(* The decoder (external: encoding/json with DisallowUnknownFields).       *)

TypeOf(f) ==
  CASE f = "version"        -> "int"
    [] f \in StringLists    -> "strings"
    [] f \in IntLists       -> "ints"
    [] f \in Switches       -> "bool"

\* The members one reader takes for a field.  Readers differ: encoding/json
\* folds case and lets the last member win.
Members(doc, f, folding) ==
  {i \in DOMAIN doc.members :
     /\ doc.members[i].field = f
     /\ folding \/ doc.members[i].exact
     /\ doc.members[i].value.type # "null"}

NoValue == [type |-> "null", strings |-> <<>>, ints |-> <<>>, on |-> FALSE, nullItem |-> FALSE]

ValueOf(doc, f, folding, lastWins) ==
  LET ms == Members(doc, f, folding)
  IN  IF ms = {} THEN NoValue
      ELSE doc.members[CHOOSE i \in ms : \A j \in ms : IF lastWins THEN i >= j ELSE i <= j].value

\* The options a reader finds in a document; a null in a list is an empty
\* element for some readers and nothing for others.
OptionsAs(doc, folding, lastWins, nullIsZero) ==
  LET value(f) == ValueOf(doc, f, folding, lastWins)
      zero(f, z) == IF nullIsZero /\ value(f).nullItem THEN <<z>> ELSE <<>>
  IN  [strings  |-> [f \in StringLists |-> value(f).strings \o zero(f, EmptyPath)],
       ints     |-> [f \in IntLists |-> value(f).ints \o zero(f, 0)],
       switches |-> {f \in Switches : value(f).on}]

Decoded(doc) == OptionsAs(doc, TRUE, TRUE, TRUE)

DecodeAccepts(doc) ==
  /\ doc.top = "object"
  /\ \A i \in DOMAIN doc.members :
       LET m == doc.members[i]
       IN  m.field # "unknown" /\ m.value.type \in {TypeOf(m.field), "null"}

Version(doc) ==
  LET v == ValueOf(doc, "version", TRUE, TRUE).ints
  IN  IF v = <<>> THEN 0 ELSE v[1]

-----------------------------------------------------------------------------
(* Steps of Action and loadPolicyFile.                                     *)

Reject(from) ==
  /\ Trans(from, "rejected")
  /\ UNCHANGED <<inputs, file, data, base, policy>>

NoPolicyFile ==
  /\ Trans("start", "merge")
  /\ invocation = "none"
  /\ UNCHANGED <<inputs, file, data, base, policy>>

\* Mutated form: a missing file is waited for.
RejectInvocationWaits == invocation = "empty" /\ Reject("start")

RejectInvocation ==
  /\ invocation = "empty" \/ (invocation = "file" /\ content.kind = "missing")
  /\ Reject("start")

\* os.Open waits for the writer of a FIFO.
OpenPolicyFile ==
  /\ Trans("start", "stat")
  /\ invocation = "file" /\ content.kind # "missing"
  /\ content.kind = "fifo" => writer
  /\ UNCHANGED <<inputs, file, data, base, policy>>

RejectKind == content.kind # "regular" /\ Reject("stat")

StatPolicyFile ==
  /\ Trans("stat", "read")
  /\ content.kind = "regular"
  /\ UNCHANGED <<inputs, file, data, base, policy>>

\* io.LimitReader: what follows the object is behind the limit in a content
\* that is too large.
FirstBytes(doc, limit) ==
  IF doc.size <= limit THEN doc ELSE [doc EXCEPT !.size = limit, !.trailing = FALSE]

ReadUpTo(limit, largest) ==
  /\ pc = "read"
  /\ data' = FirstBytes(content, limit)
  /\ pc' = IF data'.size > largest THEN "rejected" ELSE "scan"
  /\ UNCHANGED <<inputs, file, base, policy>>

\* Mutated forms: the reader stops at the limit, so that too large cannot
\* show; the largest size is one too many, or one too few.
ReadPolicyFileToLimit == ReadUpTo(MaxSize, MaxSize)
ReadPolicyFileOneMore == ReadUpTo(MaxSize + 1, MaxSize + 1)
ReadPolicyFileOneLess == ReadUpTo(MaxSize + 1, MaxSize - 1)

\* One byte more than the limit is asked for, so that too large shows.
ReadPolicyFile == ReadUpTo(MaxSize + 1, MaxSize)

RejectDuplicateJSONKeys ==
  /\ pc = "scan"
  /\ pc' = IF ScanAccepts(data) THEN "decode" ELSE "rejected"
  /\ UNCHANGED <<inputs, file, data, base, policy>>

RejectDecoded ==
  /\ ~DecodeAccepts(data) \/ data.trailing \/ Version(data) # 1
  /\ Reject("decode")

DecodePolicyFile ==
  /\ Trans("decode", "merge")
  /\ DecodeAccepts(data) /\ ~data.trailing /\ Version(data) = 1
  /\ base' = FilePolicy(Decoded(data))
  /\ UNCHANGED <<inputs, file, data, policy>>

Merge ==
  /\ Trans("merge", "merged")
  /\ policy' = MergeLaunchPolicies(base, PolicyFromCommand(command))
  /\ UNCHANGED <<inputs, file, data, base>>

LoadStep ==
  \/ NoPolicyFile     \/ RejectInvocation        \/ OpenPolicyFile
  \/ RejectKind       \/ StatPolicyFile          \/ ReadPolicyFile
  \/ RejectDuplicateJSONKeys                     \/ RejectDecoded
  \/ DecodePolicyFile \/ Merge

\* Somebody writes into the file, or opens the FIFO for writing.
Rewrite ==
  /\ pc \notin {"merged", "rejected"} /\ rewrites < MaxRewrites /\ content.kind = "regular"
  /\ content' \in Edits \ {content}
  /\ rewrites' = rewrites + 1
  /\ UNCHANGED <<pc, inputs, writer, data, base, policy>>

OpenWriter ==
  /\ pc = "start" /\ content.kind = "fifo" /\ ~writer
  /\ writer' = TRUE
  /\ UNCHANGED <<pc, inputs, content, rewrites, data, base, policy>>

Next == LoadStep \/ Rewrite \/ OpenWriter

\* The launcher runs on; nobody has to write anything.
Spec == Init /\ [][Next]_vars /\ WF_vars(LoadStep)

-----------------------------------------------------------------------------
(* Properties.                                                             *)

\* One type invariant for the module.
TypeOK ==
  /\ pc \in Steps
  /\ invocation \in {"none", "empty", "file"}
  /\ content.kind \in Kinds /\ writer \in BOOLEAN
  /\ rewrites \in 0 .. MaxRewrites
  /\ content \in Contents \cup Edits
  /\ data.size \in 0 .. MaxSize + 1
  /\ pc \notin {"rejected"} => data.size <= MaxSize
  /\ base.sandbox \in Request /\ policy.sandbox \in Request
  /\ invocation # "file" => base = ZeroLaunchPolicy

FromFile == pc = "merged" /\ invocation = "file"

\* The scan and the decoder agree on what a key is: every reader of the text,
\* whether it folds case, lets the first or the last member win, and drops
\* null or not, finds the policy that was loaded from it.
OneMeaning ==
  FromFile =>
    \A folding, lastWins, nullIsZero \in BOOLEAN :
      FilePolicy(OptionsAs(data, folding, lastWins, nullIsZero)) = base

\* "the input must be a regular file no larger than 1 MiB", "it must contain
\* exactly one JSON object" (docs/policy-files.md:91-92): nothing follows the
\* object in the whole file either, unless somebody wrote it after the read.
WholeFileJudged ==
  FromFile =>
    /\ content.kind = "regular"
    /\ data.top = "object" /\ ~data.trailing
    /\ rewrites = 0 => content.size <= MaxSize /\ ~content.trailing

\* docs/policy-files.md:48-96 of a text: version 1, known fields, each at
\* most once, values of their type, no null, nothing else.
WellFormed(doc) ==
  /\ doc.top = "object" /\ ~doc.trailing /\ doc.size <= MaxSize
  /\ \A f \in Fields \cup {"unknown"} :
       LET ms == {i \in DOMAIN doc.members : doc.members[i].field = f}
       IN  /\ \A i, j \in ms : i = j
           /\ f = "unknown" => ms = {}
           /\ \A i \in ms : /\ doc.members[i].exact
                            /\ doc.members[i].value.type = TypeOf(f)
                            /\ ~doc.members[i].value.nullItem
           /\ f = "version" => \E i \in ms : doc.members[i].value.ints = <<1>>

\* A launch is refused only for a file that is not what the documentation asks
\* for, whatever order and length its members come in.
RejectedWithReason ==
  pc = "rejected" =>
    \/ invocation = "empty"
    \/ content.kind # "regular"
    \/ ~WellFormed(data)

Sources == <<IF invocation = "file" THEN Decoded(data) ELSE NoOptions, command>>

\* "use the same values and security semantics as their namesake flags"
\* (docs/policy-files.md:49-50): how the options are divided between the file
\* and the command line makes no difference to the sandbox, the environment,
\* the preserve list or the helpers.
SourceMakesNoDifference ==
  pc = "merged" =>
    LET joined == PolicyFromCommand(JoinOptions(Sources[1], Sources[2]))
    IN  /\ Normalize(policy.sandbox) = Normalize(joined.sandbox)
        /\ [policy EXCEPT !.sandbox = joined.sandbox] = joined

\* "Contradictory combinations ... remain launcher errors"
\* (docs/policy-files.md:84-85): a policy that is valid leaves no domain
\* unrestricted for which either source has a rule.
NoRuleMadeMoot ==
  (pc = "merged" /\ ValidConfig(policy.sandbox)) =>
    \A i, j \in 1 .. 2, d \in Domains :
      Unrestricts(Sources[i], d) => RulesIn(Sources[j], d) = {}

Settled == pc \in {"merged", "rejected"}

\* The launch gets its policy or is refused, whatever is written meanwhile; a
\* FIFO is the exception.
Settles == content.kind # "fifo" => <>Settled

\* "the input must be a regular file no larger than 1 MiB"
\* (docs/policy-files.md:91): anything else is refused.  A FIFO nobody writes
\* to is waited for, because the check follows the open.
NonRegularIsRefused == (invocation = "file" /\ content.kind # "regular") => <>(pc = "rejected")
=============================================================================
