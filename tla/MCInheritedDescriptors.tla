----------------------- MODULE MCInheritedDescriptors ----------------------
(***************************************************************************)
(* Small instances of InheritedDescriptors.                                *)
(***************************************************************************)
EXTENDS InheritedDescriptors

\* Nothing, one descriptor, duplicates in any order, a standard descriptor, a
\* negative one, and one that no process can have.
MCPreserveLists ==
  {<<>>, <<3>>, <<4>>, <<5>>, <<6>>, <<5, 3, 5>>, <<4, 6>>, <<2>>, <<-1>>,
   <<MaxFD + 1>>}
=============================================================================
