------------------------------ MODULE FileList ------------------------------
(***************************************************************************)
(* The list of program files, as src/loader_s.c uses it: loader_init reads *)
(* a directory into it and sorts it by name; then each tick of the loader  *)
(* pops a file.                                                            *)
(***************************************************************************)
EXTENDS SortedList

(* The paths of two files are not the same: strcmp tells them apart. *)
ASSUME PathAssumption == \A f, g \in Data : Key[f] = Key[g] => f = g

VARIABLES phase,     \* where the loader is in the life of the list
          found,     \* history: the files in the order of the directory
          loaded     \* history: the files in the order in which they were popped

fvars == <<svars, phase, found, loaded>>

FInit == SInit /\ phase = "read" /\ found = <<>> /\ loaded = <<>>

(* readdir returns each file once, in any order. *)
ReadFile ==
  /\ phase = "read"
  /\ \E n \in Nodes, f \in Data :
       /\ \A i \in DOMAIN found : found[i] # f
       /\ Push(n, f)
       /\ found' = Append(found, f)
  /\ UNCHANGED <<strayed, phase, loaded>>

SortFiles ==
  /\ phase = "read"
  /\ Sort
  /\ phase' = "load"
  /\ UNCHANGED <<found, loaded>>

(* loader_load_next_process takes a path: returned is NULL if there is     *)
(* none, and it is not reached if the pop follows an invalid pointer.      *)
PopFile ==
  /\ phase = "load"
  /\ SPop
  /\ loaded' = IF length = 0 \/ wrong' THEN loaded ELSE Append(loaded, returned')
  /\ UNCHANGED <<phase, found>>
-----------------------------------------------------------------------------
(* Where the directory had the file that sorts last. *)
Greatest == CHOOSE k \in DOMAIN found : \A i \in DOMAIN found : Key[found[i]] <= Key[found[k]]

(* The files are not loaded in the order they were sorted into: the file   *)
(* that sorts last comes first, then the prev pointers lead back through   *)
(* the directory, and every file is loaded at most once.  At the first     *)
(* file of the directory the loader follows a NULL pointer, if some are    *)
(* left: those after the one that sorts last.                              *)
LoadsBackThroughDirectory ==
  /\ \A i \in DOMAIN loaded : loaded[i] = found[Greatest - i + 1]
  /\ wrong => Len(loaded) = Greatest - 1 /\ Greatest < Len(found)
=============================================================================
