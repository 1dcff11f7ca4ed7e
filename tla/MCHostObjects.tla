--------------------------- MODULE MCHostObjects ---------------------------
(* Two modules that export one class, whose realisation runs host code that may ask for *)
(* it again, one that exports a name twice and one that has not the state its class      *)
(* requires; a class that requires none.                                                 *)
EXTENDS HostObjects

CONSTANTS geometry, shapes, repeated, stateless, point, marker, payload, items

Member(name, what) == [name |-> name, what |-> what]

MCMembers ==
    [x \in {geometry, shapes, repeated, stateless} |->
        CASE x = geometry -> <<Member("a", point), Member("b", "host")>>
          [] x = shapes -> <<Member("b", point)>>
          [] x = repeated -> <<Member("a", "plain"), Member("a", "plain")>>
          [] x = stateless -> <<Member("a", point)>>]
MCClassMembers == [x \in {point, marker} |-> IF x = point THEN <<"host">> ELSE <<>>]
MCMakes ==
    [x \in {geometry, shapes, repeated, stateless} |->
        IF x \in {geometry, shapes} THEN "S" ELSE "none"]
MCModuleNeeds ==
    [x \in {geometry, shapes, repeated, stateless} |-> IF x = geometry THEN {"S"} ELSE {}]
MCClassNeeds == [x \in {point, marker} |-> IF x = point THEN {"S"} ELSE {}]
RuntimeHostList == <<"rh">>
GuestHostList == <<"gh">>
RuntimeNativeList == <<"rn">>
GuestNativeList == <<>>
=============================================================================
