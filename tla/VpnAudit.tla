------------------------------- MODULE VpnAudit -------------------------------
(***************************************************************************)
(* The safety report of the VPN client: what main finds in the settings    *)
(* (vpn-client/main.js, getSafetyReport), what the window shows of it      *)
(* (vpn-client/renderer.js), and the TUN route that was made under the     *)
(* settings of its time.  Some settings are saved, a route is connected,   *)
(* settings are changed; then the report is asked for.                     *)
(***************************************************************************)
EXTENDS Integers, FiniteSetsExt

CONSTANT Nil

VARIABLES settings,  \* what findings depend on, the keyring included
          route,     \* what the TUN helper was told of the route it serves
          changed,   \* history: settings were saved since
          shown      \* window: the report on show

vars == <<settings, route, changed, shown>>

AllSettings ==
  [killSwitchMode : {"off", "app", "system-proxy"}, allowLan : BOOLEAN,
   allowInsecureTransport : BOOLEAN, blockPrivateDestinations : BOOLEAN,
   dnsProtection : BOOLEAN, ipv6Mode : {"unchanged", "privacy"}, saveSecrets : BOOLEAN,
   keyring : BOOLEAN]

\* The parts of a server that decide how its route is protected; "keyed" is it
\* that has a UUID or a password, "none" the security of VMess.
Configs == [type : {"socks5", "http", "https", "vless", "vmess", "shadowsocks"},
            tls : {"yes", "no", "unset"}, none : BOOLEAN, keyed : BOOLEAN]

Init == settings = Nil /\ route = Nil /\ changed = FALSE /\ shown = Nil

-----------------------------------------------------------------------------
(* The route                                                               *)

Tls(c) == c.tls = "yes" \/ (c.tls = "unset" /\ c.type = "vless")

\* Mutant of Accepted: no word of VMess.
AcceptedVmess(c) ==
  settings.allowInsecureTransport \/ ~(c.type = "http" \/ (c.type = "vless" /\ ~Tls(c)))

\* normalizeConfig: weak transports are for testing.
Accepted(c) ==
  settings.allowInsecureTransport
    \/ ~(c.type = "http" \/ (c.type = "vless" /\ ~Tls(c)) \/ (c.type = "vmess" /\ c.none))

\* buildSingBoxOutbound: what needs a key and has none is an error.
Buildable(c) == c.type \in {"vless", "vmess", "shadowsocks"} => c.keyed

buildSingBoxOutbound(c) ==
  [type |-> c.type, none |-> c.type = "vmess" /\ c.none,
   tls |-> c.type = "https" \/ (c.type = "vless" /\ Tls(c))]

\* buildSingBoxConfig: everything leaves by the outbound but what is blocked.
buildSingBoxConfig(c) ==
  [out |-> buildSingBoxOutbound(c), blocks |-> settings.blockPrivateDestinations]

Connect ==
  /\ settings # Nil /\ route = Nil /\ shown = Nil
  /\ \E c \in Configs : Accepted(c) /\ Buildable(c) /\ route' = buildSingBoxConfig(c)
  /\ UNCHANGED <<settings, changed, shown>>

-----------------------------------------------------------------------------
(* The report                                                              *)

Finding(when, of, severity, penalty) ==
  IF when THEN {[of |-> of, severity |-> severity, penalty |-> penalty]} ELSE {}

\* getSafetyReport: addFinding
Findings(s) ==
  UNION {
    Finding(s.killSwitchMode = "off", "kill switch", "high", 25),
    Finding(s.killSwitchMode = "app", "kill switch", "medium", 12),
    Finding(s.allowLan, "lan", "high", 20),
    Finding(s.allowInsecureTransport, "transport", "high", 25),
    Finding(~s.blockPrivateDestinations, "private", "medium", 12),
    Finding(~s.dnsProtection, "dns", "medium", 12),
    Finding(s.ipv6Mode = "unchanged", "ipv6", "low", 6),
    Finding(s.saveSecrets /\ ~s.keyring, "secrets", "high", 25),
    Finding(s.saveSecrets /\ s.keyring, "secrets", "low", 5),
    Finding(route # Nil /\ route.out.type = "http", "upstream", "high", 20) }

Score(s) == Max({0, 100 - MapThenSumSet(LAMBDA f : f.penalty, Findings(s))})

Level(n) ==
  CASE n >= 85 -> "strong"
    [] n \in 65..84 -> "good"
    [] n \in 40..64 -> "caution"
    [] OTHER -> "risky"

\* getSafetyReport: level and summary.
Report(s) == [level |-> Level(Score(s)), clear |-> Findings(s) = {}, findings |-> Findings(s)]

Save ==
  /\ settings = Nil
  /\ settings' \in AllSettings
  /\ UNCHANGED <<route, changed, shown>>

\* The form is saved with one field changed.
SaveAgain ==
  /\ settings # Nil /\ route # Nil /\ shown = Nil
  /\ \E f \in {"allowInsecureTransport", "blockPrivateDestinations", "dnsProtection"} :
       settings' = [settings EXCEPT ![f] = ~@]
  /\ changed' = TRUE
  /\ UNCHANGED <<route, shown>>

\* refreshSafetyReport and renderSafetyReport
Refresh ==
  /\ settings # Nil /\ shown = Nil
  /\ shown' = Report(settings)
  /\ UNCHANGED <<settings, route, changed>>

Next == Save \/ SaveAgain \/ Connect \/ Refresh

Spec == Init /\ [][Next]_vars

\* A report is never "strong" with a high finding, nor "good" with two; and one
\* that is all clear is "strong".
AuditIsHonest ==
  shown # Nil =>
    LET high == {f \in shown.findings : f.severity = "high"}
    IN  /\ shown.level = "strong" => high = {}
        /\ shown.level = "good" => \A f, g \in high : f = g
        /\ shown.clear => shown.level = "strong"

Weak(out) == (out.type \in {"http", "vless"} /\ ~out.tls) \/ out.none

\* A report that is all clear speaks for the route that is up: it blocks private
\* destinations and its transport is not one of the weak ones.  A route that was
\* made before the settings changed is another matter, but for plain HTTP.
ClearRouteIsGuarded ==
  shown # Nil /\ shown.clear /\ route # Nil =>
    /\ route.out.type # "http"
    /\ ~changed => route.blocks /\ ~Weak(route.out)

\* Together: the level fits the findings, and "all clear" fits the route.
AuditIsSound == AuditIsHonest /\ ClearRouteIsGuarded
==============================================================================
