---------------------------- MODULE LandlockABI ----------------------------
(***************************************************************************)
(* The access rights landrun's policy is written in, the kernel interface  *)
(* (ABI) that introduced each of them, and the rights each class of path   *)
(* rule carries (internal/sandbox/sandbox.go).                             *)
(*                                                                         *)
(* A right, a scope or an audit flag is its name; a bit mask of the code   *)
(* is a set of names.                                                      *)
(***************************************************************************)
EXTENDS Integers

\* const maxPolicyABI: the newest ABI that is part of landrun's contract.
MaxPolicyABI == 9

MakeRights == {"make_char", "make_dir", "make_reg", "make_sock", "make_fifo",
               "make_block", "make_sym"}

FullFSAccess ==
  {"execute", "write_file", "read_file", "read_dir", "remove_dir",
   "remove_file", "refer", "truncate", "ioctl_dev", "resolve_unix"}
    \cup MakeRights

FullNetAccess == {"bind_tcp", "connect_tcp"}

FullScoped == {"abstract_unix_socket", "signal"}

AuditFlags == {"disable_originating", "enable_subprocesses", "disable_subdomains"}

Rights == FullFSAccess \cup FullNetAccess \cup FullScoped

(***************************************************************************)
(* The kernel (external).  Introduced gives the ABI that introduced a      *)
(* right or flag, a kernel supports what its ABI or an earlier one         *)
(* introduced, and only FileRights may be granted on an inode that is not  *)
(* a directory.                                                            *)
(***************************************************************************)
Introduced ==
  [r \in Rights \cup AuditFlags |->
     CASE r = "refer"           -> 2
       [] r = "truncate"        -> 3
       [] r \in FullNetAccess   -> 4
       [] r = "ioctl_dev"       -> 5
       [] r \in FullScoped      -> 6
       [] r \in AuditFlags      -> 7
       [] r = "resolve_unix"    -> 9
       [] OTHER                 -> 1]

Supported(abi) == {r \in Rights \cup AuditFlags : Introduced[r] <= abi}

FileRights == {"execute", "write_file", "read_file", "truncate", "ioctl_dev",
               "resolve_unix"}

-----------------------------------------------------------------------------
(* What landrun believes the kernel handles at an ABI.                     *)

\* Mutated form: ioctl_dev is taken for a right of ABI 4.
FilesystemRightsEarlyIoctl(abi) ==
  FullFSAccess \ {r \in {"resolve_unix", "ioctl_dev", "truncate", "refer"} :
                    \/ abi < 1
                    \/ r = "resolve_unix" /\ abi < 9
                    \/ r = "ioctl_dev"    /\ abi < 4
                    \/ r = "truncate"     /\ abi < 3
                    \/ r = "refer"        /\ abi < 2}

FilesystemRightsForABI(abi) ==
  {r \in FullFSAccess :
     /\ abi >= 1
     /\ r = "resolve_unix" => abi >= 9
     /\ r = "ioctl_dev"    => abi >= 5
     /\ r = "truncate"     => abi >= 3
     /\ r = "refer"        => abi >= 2}

-----------------------------------------------------------------------------
(* Classes of rules.                                                       *)

PathClasses == {"ro", "rox", "rw", "rwx", "unix"}
PortClasses == {"bind", "connect"}

\* The order in which Apply walks the lists of the configuration.
ClassRank == [c \in PathClasses \cup PortClasses |->
                CASE c = "rox"  -> 1
                  [] c = "rwx"  -> 2
                  [] c = "ro"   -> 3
                  [] c = "rw"   -> 4
                  [] c = "unix" -> 5
                  [] c = "bind" -> 6
                  [] OTHER      -> 7]

\* A directory rule also carries rights that exist on directories only.
ForDirectory(dir, rights) == IF dir THEN rights ELSE {}

TreeRights == {"read_dir", "remove_dir", "remove_file", "refer"} \cup MakeRights

GetReadWriteExecutableRights(dir) ==
  {"execute", "read_file", "write_file", "truncate", "ioctl_dev"}
    \cup ForDirectory(dir, TreeRights)

GetReadOnlyExecutableRights(dir) ==
  {"execute", "read_file"} \cup ForDirectory(dir, {"read_dir"})

\* Mutated form: a read-only rule that lets files be executed.
GetReadOnlyRightsExecutable(dir) == GetReadOnlyExecutableRights(dir)

GetReadOnlyRights(dir) ==
  {"read_file"} \cup ForDirectory(dir, {"read_dir"})

GetReadWriteRights(dir) ==
  {"read_file", "write_file", "truncate", "ioctl_dev"}
    \cup ForDirectory(dir, TreeRights)

GetUnixSocketRights(dir) ==
  {"read_file", "resolve_unix"} \cup ForDirectory(dir, {"read_dir"})

\* The rights of the rule Apply builds for a path of a class.
PathRights(class, dir) ==
  CASE class = "rox"  -> GetReadOnlyExecutableRights(dir)
    [] class = "rwx"  -> GetReadWriteExecutableRights(dir)
    [] class = "ro"   -> GetReadOnlyRights(dir)
    [] class = "rw"   -> GetReadWriteRights(dir)
    [] class = "unix" -> GetUnixSocketRights(dir)

\* landlock.BindTCP and landlock.ConnectTCP.
PortRights(class) == IF class = "bind" THEN {"bind_tcp"} ELSE {"connect_tcp"}
=============================================================================
