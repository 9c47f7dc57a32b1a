--------------------------------- MODULE NodeId -------------------------------
(***************************************************************************)
(* The node's id, which get_node_id of nmoscommon/utils.py reads from a    *)
(* file, or writes to it if there is none; processes of the node share the *)
(* file, and start again and again.                                        *)
(***************************************************************************)
EXTENDS FiniteSets, Integers

CONSTANTS
  Processes,    \* processes that ask for the id
  None,         \* no file
  MaxIds        \* bound: starts, each of which makes up an id

VARIABLES
  file,         \* None, 0 when no id can be read from it, or the id in it
  process,      \* each process: where it is, the id it goes by, and whether
                \* it warned that it could not read or write the file's
  ids,          \* how many ids have been made up
  raced         \* a process opened the file to write it although another had
                \* made it after this one looked

vars == <<file, process, ids, raced>>

At(at, id) == [at |-> at, id |-> id, warned |-> FALSE]
-------------------------------------------------------------------------------
(* get_node_id makes up an id first, and looks whether there is a file.    *)
IsThere == file # None
Begin(p) ==
  /\ ids < MaxIds /\ ids' = ids + 1
  /\ process[p].at = "off"
  /\ process' = [process EXCEPT ![p] = At(IF IsThere THEN "read" ELSE "open", ids')]
  /\ UNCHANGED <<file, raced>>

(* Whatever is raised leads to a warning, and the id made up is used.      *)
Warn(p) == process' = [process EXCEPT ![p].at = "done", ![p].warned = TRUE]

(* Opening or reading the file may raise; without an id in it, it does.    *)
Read(p) ==
  /\ process[p].at = "read"
  /\ \/ /\ file \notin {None, 0}
        /\ process' = [process EXCEPT ![p].at = "done", ![p].id = file]
     \/ Warn(p)
  /\ UNCHANGED <<file, ids, raced>>

(* Opened, the file is empty until what was written reaches it.            *)
OpenFile(p) ==
  /\ process[p].at = "open"
  /\ \/ /\ file' = 0 /\ raced' = (raced \/ IsThere)
        /\ process' = [process EXCEPT ![p].at = "write"]
     \/ Warn(p) /\ UNCHANGED <<file, raced>>
  /\ UNCHANGED ids

(* A write that raises, or the close after it, may have reached the file,  *)
(* in part or not at all.                                                  *)
WriteOther(p) == ids + 1                                \* mutant of the next
Written(p) == process[p].id
WriteFile(p) ==
  /\ process[p].at = "write"
  /\ \/ file' = Written(p) /\ process' = [process EXCEPT ![p].at = "done"]
     \/ file' \in {file, 0, Written(p)} /\ Warn(p)
  /\ UNCHANGED <<ids, raced>>

End(p) ==
  /\ process[p].at # "off"
  /\ process' = [process EXCEPT ![p] = At("off", 0)]
  /\ UNCHANGED <<file, ids, raced>>
-------------------------------------------------------------------------------
Init ==
  /\ file = None /\ ids = 0 /\ raced = FALSE
  /\ process = [p \in Processes |-> At("off", 0)]

Next ==
  \E p \in Processes : Begin(p) \/ Read(p) \/ OpenFile(p) \/ WriteFile(p) \/ End(p)

Spec == Init /\ [][Next]_vars
-------------------------------------------------------------------------------
(* All processes of the node, at the same time and one after the other,    *)
(* go by one id, which is the file's, or have warned that they do not:     *)
(* whichever of them crash or fail while they read or write the file, and  *)
(* whenever others start meanwhile.  Two that look for it when there is    *)
(* none yet, and both write it, are the exception.                         *)
OneId ==
  ~raced =>
    \A p \in Processes : process[p].at = "done" /\ ~process[p].warned => process[p].id = file
===============================================================================
