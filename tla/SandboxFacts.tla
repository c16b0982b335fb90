---------------------------- MODULE SandboxFacts ---------------------------
(***************************************************************************)
(* Facts about requests that the proofs about more than one component      *)
(* need: the lists of a request, what they ask for, and what happens when  *)
(* lists are joined.                                                       *)
(***************************************************************************)
EXTENDS SandboxPromise, SequenceFacts

\* An explicit rule is a pair of a class and an entry of the list of that class.
LEMMA RequestedRule ==
  ASSUME NEW req \in Request, NEW rule
  PROVE  rule \in Requested(req) <=>
           \/ \E c \in PathClasses : \E p \in Range(req.paths[c]) : rule = <<c, p>>
           \/ \E c \in PortClasses : \E n \in Range(req.ports[c]) : rule = <<c, n>>
<1> DEFINE OfPath(c) == {<<c, p>> : p \in Range(req.paths[c])}
           OfPort(c) == {<<c, n>> : n \in Range(req.ports[c])}
<1>1. \A c : rule \in OfPath(c) <=> \E p \in Range(req.paths[c]) : rule = <<c, p>>
  OBVIOUS
<1>2. \A c : rule \in OfPort(c) <=> \E n \in Range(req.ports[c]) : rule = <<c, n>>
  OBVIOUS
<1> DEFINE Paths == UNION {OfPath(c) : c \in PathClasses}
           Ports == UNION {OfPort(c) : c \in PortClasses}
<1>3. Requested(req) = Paths \cup Ports
  BY DEF Requested
<1> HIDE DEF OfPath, OfPort
<1>4. rule \in Paths <=> \E c \in PathClasses : rule \in OfPath(c)
  OBVIOUS
<1>5. rule \in Ports <=> \E c \in PortClasses : rule \in OfPort(c)
  OBVIOUS
<1> HIDE DEF Paths, Ports
<1> QED
  BY <1>1, <1>2, <1>3, <1>4, <1>5

\* More executables in a request are more rules of their class, and nothing
\* else changes.
LEMMA RequestedExtended ==
  ASSUME NEW req \in Request, NEW paths \in Seq(Path),
         NEW more, more = [req EXCEPT !.paths["rox"] = @ \o paths]
  PROVE  /\ more \in Request
         /\ more.unrestricted = req.unrestricted
         /\ more.bestEffort = req.bestEffort
         /\ more.ignoreMissing = req.ignoreMissing
         /\ more.audit = req.audit
         /\ Requested(more) = Requested(req) \cup {<<"rox", p>> : p \in Range(paths)}
<1>1. req.paths["rox"] \in Seq(Path \cup {EmptyPath}) /\ paths \in Seq(Path \cup {EmptyPath})
  BY DEF Request, PathClasses
<1>2. /\ req.paths["rox"] \o paths \in Seq(Path \cup {EmptyPath})
      /\ Range(req.paths["rox"] \o paths) = Range(req.paths["rox"]) \cup Range(paths)
  BY <1>1, RangeConcat
<1>3. /\ more \in Request
      /\ more.unrestricted = req.unrestricted
      /\ more.bestEffort = req.bestEffort
      /\ more.ignoreMissing = req.ignoreMissing
      /\ more.audit = req.audit
      /\ more.ports = req.ports
      /\ \A c \in PathClasses :
           more.paths[c] = IF c = "rox" THEN req.paths["rox"] \o paths ELSE req.paths[c]
  BY <1>2 DEF Request, PathClasses
<1>4. \A c \in PathClasses :
        Range(more.paths[c]) =
          Range(req.paths[c]) \cup (IF c = "rox" THEN Range(paths) ELSE {})
  BY <1>2, <1>3
<1>5. ASSUME NEW rule
      PROVE  rule \in Requested(more) <=>
               rule \in Requested(req) \/ \E p \in Range(paths) : rule = <<"rox", p>>
  <2>1. (\E c \in PathClasses : \E p \in Range(more.paths[c]) : rule = <<c, p>>) <=>
          \/ \E c \in PathClasses : \E p \in Range(req.paths[c]) : rule = <<c, p>>
          \/ \E p \in Range(paths) : rule = <<"rox", p>>
    BY <1>4 DEF PathClasses
  <2>2. rule \in Requested(req) <=>
          \/ \E c \in PathClasses : \E p \in Range(req.paths[c]) : rule = <<c, p>>
          \/ \E c \in PortClasses : \E n \in Range(req.ports[c]) : rule = <<c, n>>
    BY RequestedRule
  <2>3. rule \in Requested(more) <=>
          \/ \E c \in PathClasses : \E p \in Range(more.paths[c]) : rule = <<c, p>>
          \/ \E c \in PortClasses : \E n \in Range(more.ports[c]) : rule = <<c, n>>
    <3>1. more \in Request
      BY <1>3
    <3> QED
      BY <3>1, RequestedRule
  <2>4. more.ports = req.ports
    BY <1>3
  <2> QED
    BY <2>1, <2>2, <2>3, <2>4
<1> QED
  BY <1>3, <1>5
=============================================================================
