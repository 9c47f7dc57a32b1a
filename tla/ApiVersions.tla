------------------------------ MODULE ApiVersions -----------------------------
(***************************************************************************)
(* Resources handed on to clients of older API versions:                   *)
(* translate_api_version and api_ver_compare of nmoscommon/utils.py.       *)
(*                                                                         *)
(* A version is a pair of numbers, which the code compares as strings; a   *)
(* resource is the set of its keys, at any depth, with its version.        *)
(***************************************************************************)
EXTENDS FiniteSets, Integers, Sequences

CONSTANTS
  Types,        \* types of resources
  Removed,      \* DOWNGRADE_MAP: the keys that a version brought to a type
  Versions,     \* the versions in it
  Unlisted,     \* versions that are not, and v1.0 neither
  OtherKeys,    \* keys that all versions have
  Extra,        \* "max_api_version", which is removed from any resource
  None,         \* no version, or no result
  Error         \* an exception

V1_0 == <<1, 0>>
Known == {V1_0} \cup Versions

VARIABLES
  obj,          \* the resource: its type, version (or None) and keys
  target_ver,   \* the version that is asked for
  downgrade_ver \* the oldest version that the client takes, or None
vars == <<obj, target_ver, downgrade_ver>>
-------------------------------------------------------------------------------
(* The numbers of a version compare as strings: 10 is less than 9. *)
Digits(n) == IF n < 10 THEN <<n>> ELSE <<n \div 10, n % 10>>
AsStrings(m, n) ==
  LET s == Digits(m) t == Digits(n) IN
    \/ s[1] < t[1]
    \/ s[1] = t[1] /\ Len(s) < Len(t)
    \/ s[1] = t[1] /\ Len(s) = 2 /\ Len(t) = 2 /\ s[2] < t[2]

api_ver_compare(first, second) ==
  CASE AsStrings(first[1], second[1])                          -> -1
    [] AsStrings(second[1], first[1])                          -> 1
    [] first[1] = second[1] /\ AsStrings(first[2], second[2])  -> -2
    [] first[1] = second[1] /\ AsStrings(second[2], first[2])  -> 2
    [] OTHER                                                   -> 0

(* The versions in ascending order, v1.0 first. *)
Before(v) == {w \in Known : api_ver_compare(w, v) < 0}
version_list == [i \in 1..Cardinality(Known) |->
                   CHOOSE v \in Known : Cardinality(Before(v)) = i - 1]
max_ver == version_list[Len(version_list)]

Current == IF obj.version = None THEN max_ver ELSE obj.version

(* From the place of the resource's version in the list, one version is    *)
(* left after the other.                                                   *)
PastTarget(v) == api_ver_compare(target_ver, v) <= 0    \* mutant of the next
IsNewer(v) == api_ver_compare(target_ver, v) < 0
Reached[i \in 0..Len(version_list)] ==
  IF i > 1 /\ IsNewer(version_list[i]) THEN Reached[i - 1] ELSE i
Place == CHOOSE i \in DOMAIN version_list : version_list[i] = Current
current_api_version == IF Current \in Known THEN version_list[Reached[Place]] ELSE Current
Left == IF Current \in Known THEN {version_list[i] : i \in Reached[Place] + 1..Place} ELSE {}

(* To leave a version that the map does not know raises; v1.0 is one. *)
Raises == IsNewer(current_api_version)

Result ==
  [type |-> obj.type,
   version |-> IF obj.version = None THEN None ELSE current_api_version,
   keys |-> obj.keys \ ({Extra} \cup UNION {Removed[v, obj.type] : v \in Left})]

IsTaken == downgrade_ver # None /\ api_ver_compare(current_api_version, downgrade_ver) >= 0

translate_api_version ==
  CASE api_ver_compare(target_ver, max_ver) > 0 -> None
    [] ~(api_ver_compare(target_ver, max_ver) > 0) /\ Raises -> Error
    [] OTHER -> IF target_ver = current_api_version \/ IsTaken THEN Result ELSE None
-------------------------------------------------------------------------------
Keys == OtherKeys \cup {Extra} \cup UNION {Removed[v, t] : v \in Versions, t \in Types}

(* Resources of any version, with the keys it has, or with no version      *)
(* given.                                                                  *)
Older(v, w) == v[1] < w[1] \/ (v[1] = w[1] /\ v[2] < w[2])
KeysAt(v, t) ==
  {k \in Keys : \A w \in Versions : Older(v, w) => k \notin Removed[w, t]}

Named == Known \cup Unlisted
Init ==
  /\ obj \in {[type |-> t, version |-> v,
               keys |-> IF v = None THEN Keys ELSE KeysAt(v, t)] :
                 t \in Types, v \in Named \cup {None}}
  /\ target_ver \in Named /\ downgrade_ver \in Named \cup {None}
Next == FALSE /\ UNCHANGED vars
Spec == Init /\ [][Next]_vars
-------------------------------------------------------------------------------
(* The newest version listed that is not newer than v. *)
Floor(v) ==
  CHOOSE w \in Known : ~Older(v, w) /\ \A u \in Known : ~Older(v, u) => ~Older(w, u)

Takes(v) == downgrade_ver # None /\ ~Older(v, downgrade_ver)
At(v) == [type |-> obj.type, version |-> IF obj.version = None THEN None ELSE v,
          keys |-> (obj.keys \cap KeysAt(v, obj.type)) \ {Extra}]

(* A client that asks for a version is given a resource of that version    *)
(* exactly: without any key that a later version brought, and with all     *)
(* others.  A resource that is older than what it asks for is given as it  *)
(* is, if the client takes its version, and otherwise not at all; so is    *)
(* one that has been taken down past a version that is not listed.  One    *)
(* that is to be taken down from such a version raises, and a version      *)
(* newer than any listed is not given.                                     *)
VersionRight ==
  LET tooNew == \A v \in Known : Older(v, target_ver)
      isOlder == Older(target_ver, Current)
      isStuck == Current \in Unlisted \/ Older(target_ver, V1_0)
  IN CASE tooNew -> translate_api_version = None
       [] ~tooNew /\ isOlder /\ isStuck -> translate_api_version = Error
       [] ~tooNew /\ isOlder /\ ~isStuck ->
            translate_api_version = IF Floor(target_ver) = target_ver \/ Takes(Floor(target_ver))
                                      THEN At(Floor(target_ver)) ELSE None
       [] ~tooNew /\ ~isOlder ->
            translate_api_version = IF Current = target_ver \/ Takes(Current)
                                      THEN [obj EXCEPT !.keys = @ \ {Extra}] ELSE None
===============================================================================
