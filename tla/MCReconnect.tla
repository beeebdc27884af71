----------------------------- MODULE MCReconnect -----------------------------
(* Instances of Reconnect for TLC.                                           *)
EXTENDS Reconnect

Config(enabled, max, rebuild, mid) ==
    [enabled |-> enabled, max_attempts |-> max, rebuild_session |-> rebuild,
     allow_mid_transaction |-> mid]

Disabled == Config(FALSE, 3, TRUE, FALSE)    \* ReconnectConfig::default()
Zero     == Config(TRUE, 0, TRUE, FALSE)     \* max_attempts(0)
Twice    == Config(TRUE, 2, TRUE, FALSE)
Bare     == Config(TRUE, 2, FALSE, TRUE)     \* no rebuild, mid-transaction allowed

AllConfigs == {Disabled, Zero, Twice, Bare}
=============================================================================
