------------------------------- MODULE MCParts --------------------------------
(* The keys that v1.1, v1.2 and v1.3 brought, one for each: as in          *)
(* DOWNGRADE_MAP, v1.2 brought a sender's and not a device's.              *)
EXTENDS PartsWithRql

VersionsMC == {<<1, 1>>, <<1, 2>>, <<1, 3>>}
UnlistedMC == {<<0, 9>>, <<1, 4>>}
Key(v, t) == <<v, t>>
RemovedMC ==
  [p \in VersionsMC \X {"node", "sender", "device"} |->
     IF \/ p[2] = "node"
        \/ p[2] = "sender" /\ p[1] = <<1, 2>>
        \/ p[2] = "device" /\ p[1] # <<1, 2>>
       THEN {Key(p[1], p[2])} ELSE {}]
OtherKeysMC == {Key(<<1, 0>>, "id")}
ExtraMC == Key(<<0, 0>>, "max_api_version")
===============================================================================
