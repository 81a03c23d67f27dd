---------------------------- MODULE MCVpnService ----------------------------
(***************************************************************************)
(* Bounded instances of VpnService: one config, and one MTU (what the      *)
(* service does does not depend on it).                                    *)
(***************************************************************************)
EXTENDS VpnService, TLC

UdpOnly      == [c \in Configs |-> <<"UDP">>]
UdpThenTcp   == [c \in Configs |-> <<"UDP", "TCP">>]
MCConfigMtu  == [c \in Configs |-> 1280]
MCLadder     == <<1280>>

Interchangeable == Permutations(Networks) \cup Permutations(Slots)

=============================================================================
