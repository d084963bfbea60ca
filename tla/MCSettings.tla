------------------------------ MODULE MCSettings ------------------------------
(* The instance of Settings for TLC: a camera with the highest number in its *)
(* address and a port of five digits, as a phone may well announce.          *)
EXTENDS Settings

MCDefault == [name |-> "(Unknown)", ip_ad4 |-> 1, ip_port |-> 8080, no_port |-> FALSE]
MCProfiles == {[name |-> "a", ip_ad4 |-> 255, ip_port |-> 45678, no_port |-> FALSE]}
MCTypedNumbers == {Empty}
MCTypedPorts == {Empty}
=============================================================================
