-------------------------- MODULE ArchiveDirectory --------------------------
(***************************************************************************)
(* What ReadArchive promises to the requests for the files of an archive,  *)
(* whoever reads it: "Reads a zip file (once) ... Upon exit from a lock    *)
(* the resulting directory/file structure is immutable" (ZipDir.go:41-43), *)
(* and until then it only grows, by one file or directory of the archive   *)
(* after the other: what a request has found, every later one finds.       *)
(***************************************************************************)
CONSTANT Roots     \* nodes for the archive

VARIABLES contents, \* the files and directories of the archive, never changed
          shown,    \* those that requests find, by root
          complete  \* the archive has been read, by root

vars == <<contents, shown, complete>>

Init ==
  /\ shown = [r \in Roots |-> {}]
  /\ complete = [r \in Roots |-> FALSE]

Reveal(r) ==
  /\ ~complete[r]
  /\ \E e \in contents \ shown[r] : shown' = [shown EXCEPT ![r] = @ \cup {e}]
  /\ UNCHANGED <<contents, complete>>

Complete(r) ==
  /\ ~complete[r] /\ shown[r] = contents
  /\ complete' = [complete EXCEPT ![r] = TRUE]
  /\ UNCHANGED <<contents, shown>>

Next == \E r \in Roots : Reveal(r) \/ Complete(r)

Spec == Init /\ [][Next]_vars
=============================================================================
