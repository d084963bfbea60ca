----------------------------- MODULE MCDiscovery -----------------------------
(* The instance of Discovery for TLC: one slave announced by an IPv4        *)
(* address, one by an IPv6 address, a printer, and this phone itself.       *)
EXTENDS Discovery

MCServices == {"slave4", "slave6", "printer", "master"}
MCKind == [s \in MCServices |->
             CASE s = "printer" -> "other"
               [] s = "master"  -> "master"
               [] OTHER         -> "slave"]
MCHost == [s \in MCServices |->
             IF s = "slave6" THEN <<Other, Dot, Dot, 1>>
             ELSE <<Other, 1, 9, Dot, 2, Dot, 0, Dot, 3, 4>>]
MCAddress == [s \in MCServices |-> IF s = "slave6" THEN <<>> ELSE <<19, 2, 0, 34>>]
MCPort == [s \in MCServices |-> 8080]
=============================================================================
