------------------------------ MODULE Displays ------------------------------
(***************************************************************************)
(* What the front end says of the protection that the backend gives: the   *)
(* settings dialog, the ticker, the monitor and the badge each derive a    *)
(* level or a score from the same reply of /api/security/status.           *)
(***************************************************************************)
EXTENDS Integers, FiniteSets, FiniteSetsExt

CONSTANT Nil

VARIABLE config   \* the privacy configuration of the torrent client

Switches == {"ipObfuscation", "dnsObfuscation", "dhtInvisibility", "sharingDisabled",
             "noLogsMode", "trafficObfuscation",
             "torEnabled", "chained",   \* the client has a Tor proxy, and a chain of them
             "torChosen"}               \* the stored connection type

\* No-logs mode takes invisibility and sharing with it; Tor needs a chain.
Configs == {c \in [Switches -> BOOLEAN] :
              /\ c["noLogsMode"] => c["dhtInvisibility"] /\ c["sharingDisabled"]
              /\ c["torEnabled"] => c["chained"]}

Init == config = Nil

\* The environment at the start, the dialog and the wizard set it.
Configure == config = Nil /\ config' \in Configs

Next == Configure

Spec == Init /\ [][Next]_config

-----------------------------------------------------------------------------
(* The backend                                                             *)

ProxyRequired == config["ipObfuscation"] \/ config["dnsObfuscation"]

ProxyAvailable == config["torEnabled"] /\ config["chained"]

PrivacyStatus ==
  [ipObfuscation |-> config["ipObfuscation"] /\ ProxyAvailable,
   dnsObfuscation |-> config["dnsObfuscation"] /\ ProxyAvailable,
   peerExchangeDisabled |-> config["dhtInvisibility"],
   proxyRequired |-> ProxyRequired]

calculateSecurityScore ==
  LET p == PrivacyStatus
      Earned == {<<p.ipObfuscation, 1>>, <<p.dnsObfuscation, 2>>,
                 <<config["dhtInvisibility"] /\ p.peerExchangeDisabled, 3>>,
                 <<config["sharingDisabled"], 4>>,
                 <<config["noLogsMode"] /\ config["trafficObfuscation"], 5>>}
  IN 20 * Quantify(Earned, LAMBDA e : e[1])

\* Nothing in the backend implements a kill switch or encrypts stored data,
\* whatever the settings say; leaks are not looked for.
Enforced == FALSE

\* Mutant of DNSProtection: as it is configured.
DNSProtectionAsSet == config["dnsObfuscation"]

DNSProtection == PrivacyStatus.dnsObfuscation

connectionType ==
  IF ProxyAvailable THEN "Tor Proxy Chain"
  ELSE IF config["torChosen"] \/ config["torEnabled"] THEN "Tor Proxy Unavailable"
  ELSE "Direct Connection"

GetSecurityStatus ==
  [killSwitchActive |-> Enforced, dataEncryptionActive |-> Enforced,
   dnsProtectionActive |-> DNSProtection,
   dnsObfuscationActive |-> PrivacyStatus.dnsObfuscation,
   ipObfuscationActive |-> PrivacyStatus.ipObfuscation,
   dhtInvisible |-> config["dhtInvisibility"], sharingDisabled |-> config["sharingDisabled"],
   peerExchangeDisabled |-> PrivacyStatus.peerExchangeDisabled,
   proxyRequired |-> PrivacyStatus.proxyRequired, proxyAvailable |-> ProxyAvailable,
   connectionType |-> connectionType, noLogsMode |-> config["noLogsMode"],
   securityScore |-> calculateSecurityScore, leaksDetected |-> Nil]

-----------------------------------------------------------------------------
(* The displays, for the reply s                                           *)

Guarded(s) == s.killSwitchActive /\ s.dnsProtectionActive /\ s.dhtInvisible

Everything(s) ==
  Guarded(s) /\ s.ipObfuscationActive /\ s.dnsObfuscationActive /\ s.sharingDisabled

tickerLevel(s) ==
  IF Everything(s) THEN "MAXIMUM" ELSE IF Guarded(s) THEN "HIGH" ELSE "BASIC"

leakStatus(s) ==
  IF s.leaksDetected = Nil THEN "LEAK STATUS NOT CHECKED"
  ELSE IF s.leaksDetected > 0 THEN "LEAKS DETECTED" ELSE "NO LEAKS DETECTED"

isSecure(s) == leakStatus(s) = "NO LEAKS DETECTED" /\ tickerLevel(s) # "BASIC"

tickerItems(s) ==
  [KillSwitch |-> s.killSwitchActive, DNSProtection |-> s.dnsProtectionActive,
   IP |-> s.ipObfuscationActive, DNS |-> s.dnsObfuscationActive, DHT |-> s.dhtInvisible,
   Upload |-> s.sharingDisabled]

monitorLevel(s) ==
  IF Everything(s) THEN "maximum" ELSE IF Guarded(s) THEN "high" ELSE "basic"

badge(s) ==
  IF Everything(s) /\ s.dataEncryptionActive THEN "Secure"
  ELSE IF Guarded(s) THEN "Protected" ELSE "Exposed"

\* The statistics carry no security level, and 100 stands in for it.
connectionSecurityLevel == 100

\* The score, or if there is none (0 counts as none) the level.
protectionScore(s) ==
  IF s.securityScore # 0 THEN s.securityScore ELSE connectionSecurityLevel

\* The dialog's connection type is the stored one, or Tor where that runs.
vpnTypeIsTor == config["torChosen"] \/ config["torEnabled"]

proxyBlocked(s) == (s.proxyRequired \/ vpnTypeIsTor) /\ ~s.proxyAvailable

routeBadge(s) == IF proxyBlocked(s) THEN "Proxy required" ELSE "Route ready"

protectionFlow(s) ==
  [IP |-> s.ipObfuscationActive,
   DNS |-> s.dnsObfuscationActive \/ s.dnsProtectionActive,
   DHT |-> s.dhtInvisible,
   PEX |-> s.peerExchangeDisabled,
   Upload |-> s.sharingDisabled]

\* The switches that the user asked for and the backend does not do.
blockedToggles(s) ==
  {t \in {<<"ipObfuscation", s.ipObfuscationActive>>, <<"dnsObfuscation", s.dnsObfuscationActive>>} :
     config[t[1]] /\ ~t[2]}

-----------------------------------------------------------------------------
(* Properties                                                              *)

Answered == config # Nil

\* No display turns green for protection that nothing enforces: without a kill
\* switch in the backend, each of the three shows its lowest level, whatever
\* is configured, and the ticker calls nothing secure while leaks are not
\* looked for.
NoFalseGreen ==
  Answered => LET s == GetSecurityStatus
              IN /\ tickerLevel(s) = "BASIC" /\ monitorLevel(s) = "basic"
                 /\ badge(s) = "Exposed" /\ ~isSecure(s)

\* "Route ready" is said exactly if every obfuscation that is asked for is done
\* and the backend does not report its Tor proxy as unavailable: the badge, the
\* boxes of the dialog and the ticker's connection, each with a condition of
\* its own, agree.
ReadyMeansMasked ==
  Answered => LET s == GetSecurityStatus
              IN routeBadge(s) = "Route ready" <=>
                   blockedToggles(s) = {} /\ s.connectionType # "Tor Proxy Unavailable"

\* The ticker and the dialog never disagree: what one shows as masked, proxied,
\* silent or blocked, the other lights.
TickerAgrees ==
  Answered => LET s == GetSecurityStatus
              IN \A box \in {"IP", "DNS", "DHT", "Upload"} :
                   tickerItems(s)[box] = protectionFlow(s)[box]

\* Together: ticker, monitor and dialog agree with each other and with the
\* backend.
DisplaysAgree == NoFalseGreen /\ ReadyMeansMasked /\ TickerAgrees

\* The dialog says "100% Protected" only if each box of its protection flow is
\* lit.  It is not so for a backend without any protection: its score of 0 is
\* taken for a missing one.
FullScoreIsEarned ==
  Answered => LET s == GetSecurityStatus
              IN protectionScore(s) = 100 =>
                   \A box \in {"IP", "DNS", "DHT", "PEX", "Upload"} : protectionFlow(s)[box]

=============================================================================
