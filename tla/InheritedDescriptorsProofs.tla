--------------------- MODULE InheritedDescriptorsProofs ---------------------
(***************************************************************************)
(* Proofs about InheritedDescriptors, for every descriptor limit, every    *)
(* preserve list and every number of ELF files.                            *)
(***************************************************************************)
EXTENDS InheritedDescriptors, TLAPS

-----------------------------------------------------------------------------
(* The descriptor table.                                                   *)

\* open takes a free descriptor and leaves the others alone.
LEMMA AllocateTakesFree ==
  ASSUME TypeOK, NEW who \in Owners \ {"none"}, Allocate(who)
  PROVE  /\ owner' \in [FD -> Owners]
         /\ cloexec' \subseteq Open'
         /\ \A fd \in FD : owner'[fd] # owner[fd] => owner[fd] = "none" /\ owner'[fd] = who
<1>1. PICK new \in Free : /\ owner' = [owner EXCEPT ![new] = who]
                          /\ cloexec' = cloexec \cup {new}
  BY DEF Allocate
<1>2. new \in FD /\ owner[new] = "none"
  BY DEF Free, Open
<1> QED
  BY <1>1, <1>2 DEF TypeOK, Open, Owners

\* close frees the descriptors of one owner and leaves the others alone.
LEMMA ReleaseFrees ==
  ASSUME TypeOK, NEW who \in Owners \ {"none"}, Release(who)
  PROVE  /\ owner' \in [FD -> Owners]
         /\ cloexec' \subseteq Open'
         /\ \A fd \in FD : owner'[fd] = IF owner[fd] = who THEN "none" ELSE owner[fd]
BY DEF TypeOK, Release, Open, Owners

\* The poller takes free descriptors too.
LEMMA PollerTakesFree ==
  ASSUME TypeOK, StartPoller
  PROVE  /\ owner' \in [FD -> Owners]
         /\ cloexec' \subseteq Open'
         /\ \A fd \in FD : owner'[fd] # owner[fd] => owner[fd] = "none" /\ owner'[fd] = "poller"
<1>1. PICK epoll \in Free : \E event \in Free \ {epoll} :
        /\ owner' = [owner EXCEPT ![epoll] = "poller", ![event] = "poller"]
        /\ cloexec' = cloexec \cup {epoll, event}
  BY DEF StartPoller
<1>2. PICK event \in Free \ {epoll} :
        /\ owner' = [owner EXCEPT ![epoll] = "poller", ![event] = "poller"]
        /\ cloexec' = cloexec \cup {epoll, event}
  BY <1>1
<1>3. /\ epoll \in FD /\ owner[epoll] = "none"
      /\ event \in FD /\ owner[event] = "none"
  BY DEF Free, Open
<1> QED
  BY <1>2, <1>3 DEF TypeOK, Open, Owners

-----------------------------------------------------------------------------
(* The inductive invariant.                                                *)

LEMMA InitIInv == Init => IInv
BY DescriptorAssumption
DEF Init, IInv, TypeOK, OwnersInv, CheckedInv, MarkedInv, Owners, Steps, Open, Unchecked

LEMMA NextIInv == IInv /\ [Next]_vars => IInv'
<1> SUFFICES ASSUME IInv, [Next]_vars
             PROVE  IInv'
  OBVIOUS
<1> USE DEF At, Goto, Fail, options, table, Steps, Unchecked
<1>0. TypeOK /\ OwnersInv /\ CheckedInv /\ MarkedInv
  BY DEF IInv
<1>1. CASE BlockingStdio \/ NoPolicyFile
  BY <1>0, <1>1 DEF BlockingStdio, NoPolicyFile, IInv, TypeOK, OwnersInv, CheckedInv, MarkedInv, Open
<1>2. CASE OpenPolicyFile
  <2>1. CASE Allocate("policy") /\ Goto(IF PollerStarted THEN "policy_read" ELSE "policy_poller")
    <3>1. /\ owner' \in [FD -> Owners]
          /\ cloexec' \subseteq Open'
          /\ \A fd \in FD : owner'[fd] # owner[fd] => owner[fd] = "none" /\ owner'[fd] = "policy"
      BY <1>0, <2>1, AllocateTakesFree DEF Owners
    <3>2. pc = "policy" /\ pc' \in {"policy_read", "policy_poller"}
      BY <1>2, <2>1 DEF OpenPolicyFile
    <3>3. TypeOK'
      BY <1>0, <1>2, <2>1, <3>1, <3>2 DEF OpenPolicyFile, TypeOK
    <3> QED
      BY <1>0, <1>2, <2>1, <3>1, <3>2, <3>3
      DEF OpenPolicyFile, IInv, OwnersInv, CheckedInv, MarkedInv
  <2>2. CASE Fail /\ UNCHANGED table
    BY <1>0, <1>2, <2>2 DEF OpenPolicyFile, IInv, TypeOK, OwnersInv, CheckedInv, MarkedInv, Open
  <2> QED
    BY <1>2, <2>1, <2>2 DEF OpenPolicyFile
<1>3. CASE StartPollerForPolicy
  <2>1. CASE StartPoller /\ Goto("policy_read")
    <3>1. /\ owner' \in [FD -> Owners]
          /\ cloexec' \subseteq Open'
          /\ \A fd \in FD : owner'[fd] # owner[fd] => owner[fd] = "none" /\ owner'[fd] = "poller"
      BY <1>0, <2>1, PollerTakesFree
    <3>2. TypeOK'
      BY <1>0, <1>3, <2>1, <3>1 DEF StartPollerForPolicy, TypeOK
    <3> QED
      BY <1>0, <1>3, <2>1, <3>1, <3>2
      DEF StartPollerForPolicy, IInv, OwnersInv, CheckedInv, MarkedInv
  <2>2. CASE outcome' = "crashed" /\ UNCHANGED <<pc, table>>
    BY <1>0, <1>3, <2>2
    DEF StartPollerForPolicy, IInv, TypeOK, OwnersInv, CheckedInv, MarkedInv, Open
  <2> QED
    BY <1>3, <2>1, <2>2 DEF StartPollerForPolicy
<1>4. CASE ClosePolicyFile
  <2>1. /\ owner' \in [FD -> Owners]
        /\ cloexec' \subseteq Open'
        /\ \A fd \in FD : owner'[fd] = IF owner[fd] = "policy" THEN "none" ELSE owner[fd]
    BY <1>0, <1>4, ReleaseFrees DEF ClosePolicyFile, Owners
  <2>2. TypeOK'
    BY <1>0, <1>4, <2>1 DEF ClosePolicyFile, TypeOK
  <2> QED
    BY <1>0, <1>4, <2>1, <2>2 DEF ClosePolicyFile, IInv, OwnersInv, CheckedInv, MarkedInv
<1>5. CASE ValidateInheritedDescriptors
  <2>1. CASE ValidPreserve /\ Goto("executable")
    <3>1. TypeOK' /\ OwnersInv' /\ MarkedInv'
      BY <1>0, <1>5, <2>1
      DEF ValidateInheritedDescriptors, TypeOK, OwnersInv, MarkedInv, Open
    <3>2. \A fd \in Range(preserve) :
            /\ fd \in FD
            /\ owner[fd] \in {"caller", "poller"}
            /\ ~policyFile /\ ~nonblocking => owner[fd] = "caller"
      BY <1>0, <1>5, <2>1
      DEF ValidateInheritedDescriptors, ValidPreserve, Open, TypeOK, Owners, OwnersInv
    <3> QED
      BY <1>5, <3>1, <3>2 DEF ValidateInheritedDescriptors, IInv, CheckedInv
  <2>2. CASE ~ValidPreserve /\ Fail
    BY <1>0, <1>5, <2>2
    DEF ValidateInheritedDescriptors, IInv, TypeOK, OwnersInv, CheckedInv, MarkedInv, Open
  <2> QED
    BY <1>5, <2>1, <2>2 DEF ValidateInheritedDescriptors
<1>6. CASE OpenExecutable
  <2>1. CASE Allocate("executable") /\ Goto(IF ldd THEN "libraries" ELSE "apply")
    <3>1. /\ owner' \in [FD -> Owners]
          /\ cloexec' \subseteq Open'
          /\ \A fd \in FD : owner'[fd] # owner[fd] =>
                              owner[fd] = "none" /\ owner'[fd] = "executable"
      BY <1>0, <2>1, AllocateTakesFree DEF Owners
    <3>2. pc = "executable" /\ pc' \in {"libraries", "apply"}
      BY <1>6, <2>1 DEF OpenExecutable
    <3>3. TypeOK'
      BY <1>0, <1>6, <2>1, <3>1, <3>2 DEF OpenExecutable, TypeOK
    <3> QED
      BY <1>0, <1>6, <2>1, <3>1, <3>2, <3>3
      DEF OpenExecutable, IInv, OwnersInv, CheckedInv, MarkedInv
  <2>2. CASE Fail /\ UNCHANGED table
    BY <1>0, <1>6, <2>2 DEF OpenExecutable, IInv, TypeOK, OwnersInv, CheckedInv, MarkedInv, Open
  <2> QED
    BY <1>6, <2>1, <2>2 DEF OpenExecutable
<1>7. CASE OpenLibrary
  <2>1. libraries' \in 0 .. MaxLibraries
    BY <1>0, <1>7, DescriptorAssumption DEF OpenLibrary, TypeOK
  <2>2. CASE Allocate("library") /\ Goto(IF PollerStarted THEN "library_read" ELSE "library_poller")
    <3>1. /\ owner' \in [FD -> Owners]
          /\ cloexec' \subseteq Open'
          /\ \A fd \in FD : owner'[fd] # owner[fd] => owner[fd] = "none" /\ owner'[fd] = "library"
      BY <1>0, <2>2, AllocateTakesFree DEF Owners
    <3>2. pc = "libraries" /\ pc' \in {"library_read", "library_poller"}
      BY <1>7, <2>2 DEF OpenLibrary
    <3>3. TypeOK'
      BY <1>0, <1>7, <2>1, <2>2, <3>1, <3>2 DEF OpenLibrary, TypeOK
    <3> QED
      BY <1>0, <1>7, <2>2, <3>1, <3>2, <3>3
      DEF OpenLibrary, IInv, OwnersInv, CheckedInv, MarkedInv
  <2>3. CASE Goto("libraries") /\ UNCHANGED table
    BY <1>0, <1>7, <2>1, <2>3
    DEF OpenLibrary, IInv, TypeOK, OwnersInv, CheckedInv, MarkedInv, Open
  <2> QED
    BY <1>7, <2>2, <2>3 DEF OpenLibrary
<1>8. CASE StartPollerForLibrary
  <2>1. CASE StartPoller /\ Goto("library_read")
    <3>1. /\ owner' \in [FD -> Owners]
          /\ cloexec' \subseteq Open'
          /\ \A fd \in FD : owner'[fd] # owner[fd] => owner[fd] = "none" /\ owner'[fd] = "poller"
      BY <1>0, <2>1, PollerTakesFree
    <3>2. TypeOK'
      BY <1>0, <1>8, <2>1, <3>1 DEF StartPollerForLibrary, TypeOK
    <3> QED
      BY <1>0, <1>8, <2>1, <3>1, <3>2
      DEF StartPollerForLibrary, IInv, OwnersInv, CheckedInv, MarkedInv
  <2>2. CASE outcome' = "crashed" /\ UNCHANGED <<pc, table>>
    BY <1>0, <1>8, <2>2
    DEF StartPollerForLibrary, IInv, TypeOK, OwnersInv, CheckedInv, MarkedInv, Open
  <2> QED
    BY <1>8, <2>1, <2>2 DEF StartPollerForLibrary
<1>9. CASE CloseLibrary
  <2>1. /\ owner' \in [FD -> Owners]
        /\ cloexec' \subseteq Open'
        /\ \A fd \in FD : owner'[fd] = IF owner[fd] = "library" THEN "none" ELSE owner[fd]
    BY <1>0, <1>9, ReleaseFrees DEF CloseLibrary, Owners
  <2>2. TypeOK'
    BY <1>0, <1>9, <2>1 DEF CloseLibrary, TypeOK
  <2> QED
    BY <1>0, <1>9, <2>1, <2>2 DEF CloseLibrary, IInv, OwnersInv, CheckedInv, MarkedInv
<1>10. CASE LibrariesResolved
  BY <1>0, <1>10 DEF LibrariesResolved, IInv, TypeOK, OwnersInv, CheckedInv, MarkedInv, Open
<1>11. CASE Apply
  BY <1>0, <1>11 DEF Apply, IInv, TypeOK, OwnersInv, CheckedInv, MarkedInv, Open
<1>12. CASE RevalidateDescriptors
  BY <1>0, <1>12 DEF RevalidateDescriptors, IInv, TypeOK, OwnersInv, CheckedInv, MarkedInv, Open
<1>13. CASE MarkCloseOnExec
  <2>1. TypeOK' /\ OwnersInv' /\ CheckedInv'
    BY <1>0, <1>13 DEF MarkCloseOnExec, TypeOK, OwnersInv, CheckedInv, Open
  <2>2. MarkedInv'
    BY <1>0, <1>13 DEF MarkCloseOnExec, MarkedInv, Open
  <2> QED
    BY <2>1, <2>2 DEF IInv
<1>14. ASSUME NEW fd \in keep, UnmarkPreserved(fd)
       PROVE  IInv'
  <2>1. TypeOK' /\ OwnersInv' /\ CheckedInv'
    BY <1>0, <1>14 DEF UnmarkPreserved, TypeOK, OwnersInv, CheckedInv, Open
  <2>2. fd \in Range(preserve) /\ fd \in Open
    BY <1>0, <1>14 DEF UnmarkPreserved, TypeOK, CheckedInv, Open
  <2>3. MarkedInv'
    BY <1>0, <1>14, <2>2 DEF UnmarkPreserved, MarkedInv, Open
  <2> QED
    BY <2>1, <2>3 DEF IInv
<1>15. CASE PreparedDescriptors
  BY <1>0, <1>15 DEF PreparedDescriptors, IInv, TypeOK, OwnersInv, CheckedInv, MarkedInv, Open
<1>16. CASE RunFile
  BY <1>0, <1>16 DEF RunFile, IInv, TypeOK, OwnersInv, CheckedInv, MarkedInv, Open
<1>17. CASE StartPollerForStdio
  <2>1. CASE StartPoller /\ Goto("policy")
    <3>1. /\ owner' \in [FD -> Owners]
          /\ cloexec' \subseteq Open'
          /\ \A fd \in FD : owner'[fd] # owner[fd] => owner[fd] = "none" /\ owner'[fd] = "poller"
      BY <1>0, <2>1, PollerTakesFree
    <3>2. TypeOK'
      BY <1>0, <1>17, <2>1, <3>1 DEF StartPollerForStdio, TypeOK
    <3> QED
      BY <1>0, <1>17, <2>1, <3>1, <3>2
      DEF StartPollerForStdio, IInv, OwnersInv, CheckedInv, MarkedInv
  <2>2. CASE outcome' = "crashed" /\ UNCHANGED <<pc, table>>
    BY <1>0, <1>17, <2>2
    DEF StartPollerForStdio, IInv, TypeOK, OwnersInv, CheckedInv, MarkedInv, Open
  <2> QED
    BY <1>17, <2>1, <2>2 DEF StartPollerForStdio
<1>18. CASE UNCHANGED vars
  BY <1>0, <1>18 DEF vars, IInv, TypeOK, OwnersInv, CheckedInv, MarkedInv, Open
<1> QED
  BY <1>1, <1>2, <1>3, <1>4, <1>5, <1>6, <1>7, <1>8, <1>9, <1>10, <1>11, <1>12,
     <1>13, <1>14, <1>15, <1>16, <1>17, <1>18 DEF Next

LEMMA InductiveInvariant == Spec => []IInv
BY InitIInv, NextIInv, PTL DEF Spec

-----------------------------------------------------------------------------
(* What follows.                                                           *)

\* In every reachable state the descriptor table has its type: only open
\* descriptors are marked, and only preserved ones wait to be unmarked.
THEOREM TypeCorrect == Spec => []TypeOK
<1>1. IInv => TypeOK
  BY DEF IInv
<1> QED
  BY <1>1, InductiveInvariant, PTL

\* The target inherits exactly the preserve list, whatever the caller left
\* open and landrun opened on the way.
THEOREM InheritsExactlyListedCorrect == Spec => []InheritsExactlyListed
<1>1. IInv => InheritsExactlyListed
  BY DEF IInv, MarkedInv, InheritsExactlyListed
<1> QED
  BY <1>1, InductiveInvariant, PTL

\* No file landrun opens reaches the target, whatever numbers are preserved.
THEOREM NoOpenedFileLeaksCorrect == Spec => []NoOpenedFileLeaks
<1>1. IInv => NoOpenedFileLeaks
  BY DEF IInv, MarkedInv, CheckedInv, Unchecked, NoOpenedFileLeaks
<1> QED
  BY <1>1, InductiveInvariant, PTL

\* The check that runs inside the sandbox never fails once the early one passed.
THEOREM RevalidationSucceedsCorrect == Spec => []RevalidationSucceeds
<1>1. IInv => RevalidationSucceeds
  BY DEF IInv, CheckedInv, Unchecked, RevalidationSucceeds, ValidPreserve, Open, At
<1> QED
  BY <1>1, InductiveInvariant, PTL

\* Without a policy file and with standard streams that block, the target
\* inherits the caller's own descriptors only: nothing landrun or its runtime
\* opened can pass for a listed one.
THEOREM PreservedAreCallersCorrect == Spec => []CallersWithoutPolicyFile
<1>1. IInv => CallersWithoutPolicyFile
  BY DEF IInv, MarkedInv, CheckedInv, Unchecked, CallersWithoutPolicyFile, PreservedAreCallers
<1> QED
  BY <1>1, InductiveInvariant, PTL
=============================================================================
