-------------------------------- MODULE Startup -------------------------------
(***************************************************************************)
(* The address by which a node goes: the interface that the                *)
(* InterfaceController of interfaceController.py finds first, for which    *)
(* webapi.py waits when it is loaded, as interfaces may be late at boot.   *)
(***************************************************************************)
EXTENDS Integers, Sequences

CONSTANTS
  Links,        \* the interfaces other than the loopback
  All,          \* "*", for all interfaces
  None,         \* nothing
  MaxChanges    \* bound: changes of the interfaces

VARIABLES
  config,       \* the configured interfaces, All, or None for no entry
  link,         \* each interface: "absent", "bare" (no IPv4 address) or "up"
  gateway,      \* the interface of the default gateway, or None
  changes,      \* how often the interfaces have changed
  HOST,         \* the interface chosen, which stands for its address
  itt,          \* how many attempts raised
  gaveUp        \* the import of webapi has given up

vars == <<config, link, gateway, changes, HOST, itt, gaveUp>>
-------------------------------------------------------------------------------
(* Each way to find interfaces gives a set of possible lists of them, or   *)
(* Raises.                                                                 *)
Raises == {<<None>>}
Up == {l \in Links : link[l] = "up"}
AllInterfaces == IF Up = {} THEN {<< >>} ELSE {<<l>> : l \in Up}

(* Those listed up to the first without an address; one that is not there  *)
(* raises.                                                                 *)
Listed ==
  LET bad == {i \in DOMAIN config : link[config[i]] # "up"}
      first == CHOOSE i \in bad : \A j \in bad : i <= j
  IN CASE bad = {}                          -> {config}
       [] bad # {} /\ link[config[first]] = "absent" -> Raises
       [] OTHER                             -> {SubSeq(config, 1, first - 1)}

FromFile == CASE config = None -> {<< >>}
              [] config = All  -> AllInterfaces
              [] OTHER         -> Listed

FromGateway ==
  CASE gateway = None            -> {<< >>}
    [] gateway # None /\ link[gateway] = "absent" -> Raises
    [] gateway # None /\ link[gateway] = "bare"   -> {<< >>}
    [] gateway # None /\ link[gateway] = "up"     -> {<<gateway>>}

(* get_default_interfaces, without ipp-utils. *)
AnyInterfaces(found, others) == others                  \* mutant of the next
OrElse(found, others) == IF found = {<< >>} THEN others ELSE found
Interfaces == OrElse(FromFile, OrElse(FromGateway, AllInterfaces))

(* webapi waits for an address: it goes on at once if there is none, and   *)
(* after a second, for seven attempts, if one raises.                      *)
Wait ==
  /\ HOST = None /\ ~gaveUp
  /\ IF Interfaces = Raises
       THEN /\ UNCHANGED HOST
            /\ IF itt > 5 THEN gaveUp' = TRUE /\ UNCHANGED itt
               ELSE itt' = itt + 1 /\ UNCHANGED gaveUp
       ELSE /\ UNCHANGED <<itt, gaveUp>>
            /\ \E found \in Interfaces : HOST' = IF found = << >> THEN None ELSE found[1]
  /\ UNCHANGED <<config, link, gateway, changes>>

Change(l) ==
  /\ changes < MaxChanges /\ changes' = changes + 1
  /\ \/ \E state \in {"absent", "bare", "up"} \ {link[l]} :
          link' = [link EXCEPT ![l] = state] /\ UNCHANGED gateway
     \/ gateway' = (IF gateway = l THEN None ELSE l) /\ UNCHANGED link
  /\ UNCHANGED <<config, HOST, itt, gaveUp>>
-------------------------------------------------------------------------------
Init ==
  /\ config \in {None, All} \cup UNION {[1..n -> Links] : n \in 1..2}
  /\ link \in [Links -> {"absent", "bare", "up"}]
  /\ gateway \in Links \cup {None}
  /\ changes = 0 /\ HOST = None /\ itt = 0 /\ gaveUp = FALSE

Next == Wait \/ \E l \in Links : Change(l)

Fairness == WF_vars(Wait)
Spec == Init /\ [][Next]_vars /\ Fairness
-------------------------------------------------------------------------------
(* The address is one that the node has; it is that of the first interface *)
(* configured wherever this has one, and of the default gateway's where    *)
(* none is configured.  An interface that is up in the end is found, or    *)
(* the import fails: it does not wait forever.                             *)
Chosen ==
  HOST' # HOST =>
    /\ link[HOST'] = "up"
    /\ config \in {None, All} \/ HOST' = config[1] \/ link[config[1]] = "bare"
    /\ config = None /\ gateway \in Up => HOST' = gateway
Boots ==
  /\ [][Chosen]_vars
  /\ <>[](Up # {}) => <>(HOST # None \/ gaveUp)
===============================================================================
