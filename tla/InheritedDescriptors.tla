------------------------ MODULE InheritedDescriptors -----------------------
(***************************************************************************)
(* The file descriptors above stderr, from the start of landrun to the     *)
(* exec of the target: who opened each, whether it is close-on-exec, and   *)
(* which of them the target inherits (cmd/landrun/main.go,                 *)
(* internal/exec/fds_linux.go, internal/exec/executable_linux.go).         *)
(*                                                                         *)
(* The kernel gives an open the lowest free number.  The first os.Open of  *)
(* a Go program also starts the runtime's network poller, which keeps an   *)
(* epoll and an eventfd descriptor for the life of the process; a standard *)
(* stream that the caller made non-blocking starts it before main runs.    *)
(***************************************************************************)
EXTENDS Integers, Sequences, Functions

CONSTANTS
  MaxFD,          \* the largest descriptor the process may have (RLIMIT_NOFILE)
  PreserveLists,  \* the --preserve-fd lists, merged from policy file and CLI
  PolicyFile,     \* whether --policy may be given: a set of BOOLEANs
  NonblockingStdio, \* whether a standard stream may be non-blocking: the same
  MaxLibraries    \* bound: ELF files --ldd opens

FirstNonStandardFD == 3
FD == FirstNonStandardFD .. MaxFD

ASSUME DescriptorAssumption ==
  /\ MaxFD \in Nat
  /\ PreserveLists \subseteq Seq(Int)
  /\ PolicyFile \subseteq BOOLEAN /\ NonblockingStdio \subseteq BOOLEAN
  /\ MaxLibraries \in Nat

VARIABLES
  preserve,   \* policy.PreserveDescriptors
  policyFile, \* --policy is set
  nonblocking, \* stdin, stdout or stderr is non-blocking
  ldd,        \* policy.ResolveLibraries
  pc,         \* the step of the launcher's Action
  owner,      \* who opened each descriptor; "none" when it is closed
  cloexec,    \* the descriptors marked close-on-exec
  keep,       \* preserved descriptors still to be unmarked
  libraries,  \* ELF files opened so far
  inherited,  \* the descriptors of the target once it runs
  outcome     \* "running", "executed", "exit125" or "crashed"

options == <<preserve, policyFile, nonblocking, ldd>>
table == <<owner, cloexec>>
vars == <<options, table, pc, keep, libraries, inherited, outcome>>

Owners == {"none", "caller", "policy", "poller", "executable", "library"}
Steps == {"stdio", "policy", "policy_poller", "policy_read", "validate", "executable",
          "libraries", "library_poller", "library_read", "apply", "prepare",
          "mark", "unmark", "exec"}

Open == {fd \in FD : owner[fd] # "none"}
Free == FD \ Open

TypeOK ==
  /\ preserve \in PreserveLists
  /\ policyFile \in PolicyFile
  /\ nonblocking \in NonblockingStdio
  /\ ldd \in BOOLEAN
  /\ pc \in Steps
  /\ owner \in [FD -> Owners]
  /\ cloexec \subseteq Open
  /\ keep \subseteq Range(preserve)
  /\ libraries \in 0 .. MaxLibraries
  /\ inherited \subseteq FD
  /\ outcome \in {"running", "executed", "exit125", "crashed"}

-----------------------------------------------------------------------------
\* The caller leaves any descriptors open; what survives an exec is not
\* close-on-exec.
Init ==
  /\ preserve \in PreserveLists
  /\ policyFile \in PolicyFile
  /\ nonblocking \in NonblockingStdio
  /\ ldd \in BOOLEAN
  /\ pc = "stdio"
  /\ owner \in [FD -> {"none", "caller"}]
  /\ cloexec = {}
  /\ keep = {}
  /\ libraries = 0
  /\ inherited = {}
  /\ outcome = "running"

-----------------------------------------------------------------------------
At(step) == outcome = "running" /\ pc = step

Goto(step) == pc' = step /\ UNCHANGED outcome

\* An error returned by Action: main prints it and exits with status 125.
Fail == outcome' = "exit125" /\ UNCHANGED pc

IsLowest(fd, S) == fd \in S /\ \A other \in S : fd <= other

\* open(2) and its kind, always with O_CLOEXEC.
Allocate(who) ==
  \E fd \in Free : /\ IsLowest(fd, Free)
                   /\ owner' = [owner EXCEPT ![fd] = who]
                   /\ cloexec' = cloexec \cup {fd}

\* Mutated form: a closed descriptor keeps its flag.
ReleaseKeepsFlag(who) ==
  /\ owner' = [fd \in FD |-> IF owner[fd] = who THEN "none" ELSE owner[fd]]
  /\ UNCHANGED cloexec

Release(who) ==
  /\ owner' = [fd \in FD |-> IF owner[fd] = who THEN "none" ELSE owner[fd]]
  /\ cloexec' = {fd \in cloexec : owner[fd] # who}

\* The runtime's poller (external): an epoll instance, then an eventfd; the
\* runtime aborts when it cannot have both.
StartPoller ==
  \E epoll \in Free :
    \E event \in Free \ {epoll} :
      /\ IsLowest(epoll, Free)
      /\ IsLowest(event, Free \ {epoll})
      /\ owner' = [owner EXCEPT ![epoll] = "poller", ![event] = "poller"]
      /\ cloexec' = cloexec \cup {epoll, event}

PollerStarted == \E fd \in FD : owner[fd] = "poller"
PollerFits == \E a, b \in Free : a # b

-----------------------------------------------------------------------------
(* Before main: os.NewFile of the standard streams (external).             *)

BlockingStdio ==
  /\ At("stdio")
  /\ ~nonblocking
  /\ Goto("policy")
  /\ UNCHANGED <<options, table, keep, libraries, inherited>>

StartPollerForStdio ==
  /\ At("stdio")
  /\ nonblocking
  /\ \/ StartPoller /\ Goto("policy")
     \/ ~PollerFits /\ outcome' = "crashed" /\ UNCHANGED <<pc, table>>
  /\ UNCHANGED <<options, keep, libraries, inherited>>

-----------------------------------------------------------------------------
(* The policy file: loadPolicyFile.                                        *)

NoPolicyFile ==
  /\ At("policy")
  /\ ~policyFile
  /\ Goto("validate")
  /\ UNCHANGED <<options, table, keep, libraries, inherited>>

\* The open of a FIFO may wait for ever: the launch then stays at this step.
OpenPolicyFile ==
  /\ At("policy")
  /\ policyFile
  /\ \/ Allocate("policy")
          /\ Goto(IF PollerStarted THEN "policy_read" ELSE "policy_poller")
     \/ Fail /\ UNCHANGED table  \* no such file, no permission, no descriptor
  /\ UNCHANGED <<options, keep, libraries, inherited>>

StartPollerForPolicy ==
  /\ At("policy_poller")
  /\ \/ StartPoller /\ Goto("policy_read")
     \/ ~PollerFits /\ outcome' = "crashed" /\ UNCHANGED <<pc, table>>
  /\ UNCHANGED <<options, keep, libraries, inherited>>

\* Mutated form: the policy file is left open.
ClosePolicyFileNever ==
  /\ At("policy_read")
  /\ UNCHANGED table
  /\ Goto("validate") \/ Fail
  /\ UNCHANGED <<options, keep, libraries, inherited>>

\* The deferred Close, whether the file was accepted or not.
ClosePolicyFile ==
  /\ At("policy_read")
  /\ Release("policy")
  /\ Goto("validate") \/ Fail
  /\ UNCHANGED <<options, keep, libraries, inherited>>

-----------------------------------------------------------------------------
(* The preserve list is checked, then the executable is opened.            *)

\* validatePreservedDescriptors: every entry is 3 or greater and open.
ValidPreserve == Range(preserve) \subseteq Open

\* Mutated form: the early check is left out.
ValidateInheritedDescriptorsSkipped ==
  /\ At("validate")
  /\ Goto("executable")
  /\ UNCHANGED <<options, table, keep, libraries, inherited>>

ValidateInheritedDescriptors ==
  /\ At("validate")
  /\ \/ ValidPreserve /\ Goto("executable")
     \/ ~ValidPreserve /\ Fail
  /\ UNCHANGED <<options, table, keep, libraries, inherited>>

\* LookPath and OpenExecutable, which bypasses os.Open and its poller.
OpenExecutable ==
  /\ At("executable")
  /\ \/ Allocate("executable") /\ Goto(IF ldd THEN "libraries" ELSE "apply")
     \/ Fail /\ UNCHANGED table
  /\ UNCHANGED <<options, keep, libraries, inherited>>

-----------------------------------------------------------------------------
(* GetLibraryDependencies opens one ELF file after the other.              *)

\* A file that cannot be opened is passed over.
OpenLibrary ==
  /\ At("libraries")
  /\ libraries < MaxLibraries
  /\ libraries' = libraries + 1
  /\ \/ Allocate("library")
          /\ Goto(IF PollerStarted THEN "library_read" ELSE "library_poller")
     \/ Goto("libraries") /\ UNCHANGED table
  /\ UNCHANGED <<options, keep, inherited>>

StartPollerForLibrary ==
  /\ At("library_poller")
  /\ \/ StartPoller /\ Goto("library_read")
     \/ ~PollerFits /\ outcome' = "crashed" /\ UNCHANGED <<pc, table>>
  /\ UNCHANGED <<options, keep, libraries, inherited>>

\* The file is closed before its dependencies are queued, or an unresolved
\* one ends the launch.
CloseLibrary ==
  /\ At("library_read")
  /\ Release("library")
  /\ Goto("libraries") \/ Fail
  /\ UNCHANGED <<options, keep, libraries, inherited>>

LibrariesResolved ==
  /\ At("libraries")
  /\ Goto("apply")
  /\ UNCHANGED <<options, table, keep, libraries, inherited>>

\* sandbox.Apply: go-landlock closes the ruleset and the paths it opens.
Apply ==
  /\ At("apply")
  /\ Goto("prepare") \/ Fail
  /\ UNCHANGED <<options, table, keep, libraries, inherited>>

-----------------------------------------------------------------------------
(* PrepareInheritedDescriptors and RunFile.                                *)

RevalidateDescriptors ==
  /\ At("prepare")
  /\ \/ ValidPreserve /\ Goto("mark")
     \/ ~ValidPreserve /\ Fail
  /\ UNCHANGED <<options, table, keep, libraries, inherited>>

\* Mutated form: close_range starts one descriptor late.
MarkCloseOnExecLate ==
  /\ At("mark")
  /\ \/ /\ cloexec' = cloexec \cup (Open \ {FirstNonStandardFD})
        /\ keep' = Range(preserve)
        /\ Goto("unmark")
     \/ Fail /\ UNCHANGED <<cloexec, keep>>
  /\ UNCHANGED <<options, owner, libraries, inherited>>

\* close_range(3, ~0U, CLOSE_RANGE_CLOEXEC); kernels before 5.11 refuse it.
MarkCloseOnExec ==
  /\ At("mark")
  /\ \/ /\ cloexec' = Open
        /\ keep' = Range(preserve)
        /\ Goto("unmark")
     \/ Fail /\ UNCHANGED <<cloexec, keep>>
  /\ UNCHANGED <<options, owner, libraries, inherited>>

\* F_GETFD and F_SETFD of one preserved descriptor, in increasing order.
UnmarkPreserved(fd) ==
  /\ At("unmark")
  /\ IsLowest(fd, keep)
  /\ cloexec' = cloexec \ {fd}
  /\ keep' = keep \ {fd}
  /\ Goto("unmark")
  /\ UNCHANGED <<options, owner, libraries, inherited>>

PreparedDescriptors ==
  /\ At("unmark")
  /\ keep = {}
  /\ Goto("exec")
  /\ UNCHANGED <<options, table, keep, libraries, inherited>>

\* execveat: the target has what is open and not close-on-exec, or the call
\* fails (a script, a denied execution) and the launch with it.
RunFile ==
  /\ At("exec")
  /\ \/ /\ inherited' = Open \ cloexec
        /\ outcome' = "executed"
     \/ outcome' = "exit125" /\ UNCHANGED inherited
  /\ UNCHANGED <<options, pc, table, keep, libraries>>

-----------------------------------------------------------------------------
Next ==
  \/ BlockingStdio
  \/ StartPollerForStdio
  \/ NoPolicyFile
  \/ OpenPolicyFile
  \/ StartPollerForPolicy
  \/ ClosePolicyFile
  \/ ValidateInheritedDescriptors
  \/ OpenExecutable
  \/ OpenLibrary
  \/ StartPollerForLibrary
  \/ CloseLibrary
  \/ LibrariesResolved
  \/ Apply
  \/ RevalidateDescriptors
  \/ MarkCloseOnExec
  \/ \E fd \in keep : UnmarkPreserved(fd)
  \/ PreparedDescriptors
  \/ RunFile

\* Nothing has to happen: the opens may wait, on a FIFO even for ever.
Spec == Init /\ [][Next]_vars

-----------------------------------------------------------------------------
\* "An unlisted inherited descriptor cannot reach the target process"
\* (ROADMAP.md), and a listed one always does: the target inherits exactly
\* the preserve list, whatever the caller left open and landrun opened.
InheritsExactlyListed ==
  outcome = "executed" => inherited = Range(preserve)

\* ValidateInheritedDescriptors "prevents a closed requested number from being
\* accidentally satisfied by launcher setup" (fds_linux.go): what the target
\* inherits was opened by the caller.
PreservedAreCallers ==
  outcome = "executed" => \A fd \in inherited : owner[fd] = "caller"

\* The same for the command line alone: without a policy file, and with
\* standard streams that block, the runtime has no descriptors yet when the list
\* is checked, and none can pass for a listed one that the caller left closed.
CallersWithoutPolicyFile == ~policyFile /\ ~nonblocking => PreservedAreCallers

\* No file landrun opens (policy file, executable, library) reaches the
\* target, whatever numbers are preserved.
NoOpenedFileLeaks ==
  outcome = "executed" =>
    \A fd \in inherited : owner[fd] \notin {"policy", "executable", "library"}

\* After the early check nothing landrun does closes a preserved descriptor:
\* the second check, which runs when the sandbox is already applied, never fails.
RevalidationSucceeds ==
  At("prepare") => ValidPreserve

-----------------------------------------------------------------------------
(* Why they hold.                                                          *)

Unchecked == {"stdio", "policy", "policy_poller", "policy_read", "validate"}

\* How long landrun keeps each kind of file open, and, while nothing has started
\* the poller, who may own a descriptor until the preserve list has been checked.
OwnersInv ==
  /\ \A fd \in FD :
       /\ owner[fd] = "policy"     => pc \in {"policy_poller", "policy_read"}
       /\ owner[fd] = "library"    => pc \in {"library_poller", "library_read"}
       /\ owner[fd] = "executable" => pc \notin Unchecked \cup {"executable"}
  /\ ~policyFile => pc \notin {"policy_poller", "policy_read"}
  /\ ~policyFile /\ ~nonblocking /\ pc \in Unchecked =>
       \A fd \in FD : owner[fd] \in {"none", "caller"}

\* Since the first check every preserved descriptor is open and none of it is
\* a file landrun opens.
CheckedInv ==
  pc \notin Unchecked =>
    \A fd \in Range(preserve) :
      /\ fd \in FD
      /\ owner[fd] \in {"caller", "poller"}
      /\ ~policyFile /\ ~nonblocking => owner[fd] = "caller"

\* What survives the exec, while the preserved descriptors are unmarked.
MarkedInv ==
  /\ pc = "unmark" => Open \ cloexec = Range(preserve) \ keep
  /\ pc = "exec"   => Open \ cloexec = Range(preserve)
  /\ outcome = "executed" => pc = "exec" /\ inherited = Range(preserve)

IInv == TypeOK /\ OwnersInv /\ CheckedInv /\ MarkedInv

=============================================================================
