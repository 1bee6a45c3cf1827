---------------------------- MODULE MCVpnClient ----------------------------
(* Small instances of VpnClient for TLC.                                   *)
EXTENDS VpnClient, TLC

Setting(kill, retries, prog) ==
  [killSwitchMode |-> kill, autoReconnect |-> retries > 0,
   maxReconnectAttempts |-> retries, helper |-> prog]

\* The defaults of the application.
DefaultSettings == {Setting("system-proxy", 3, "sing-box")}

\* Few retries, none, and the kill switch off.
MixedSettings ==
  {Setting("system-proxy", 1, "sing-box"), Setting("system-proxy", 0, "custom"),
   Setting("off", 0, "sing-box")}

\* A proxy at each port, and a TUN configuration.
TunAndProxies ==
  {[mode |-> "proxy", localPort |-> p] : p \in Ports}
    \cup {[mode |-> "tun", localPort |-> 8888]}

OnePort == {8888}
TwoPorts == {8888, 9888}

CalmOnly == {{}}
\* Nothing unusual; calls and helpers overlap; the application dies.
SeveralEnvs == {{}, {"overlap", "slowExit"}, {"crash"}}
============================================================================
