------------------------------ MODULE MCBackend -------------------------------
(* Small instances for TLC of the torrent client, of the displays that judge *)
(* its configuration, and of the alerts that show its events. A run is one   *)
(* of the three.                                                             *)
EXTENDS MCTorrentClient

CONSTANTS Types, Polls, MaxEvents, MaxToasts   \* Alerts

ASSUME BoundsAssumption == MaxEvents \in Nat /\ MaxToasts \in Nat

VARIABLES
  mode,   \* the component that runs; the others rest
  displaysConfig,   \* Displays
  happened, kept, tries, processed, closure, render, polls, alerts, toasts,
  timers, count, dismissed   \* Alerts

displaysVars == <<displaysConfig>>
alertsVars ==
  <<happened, kept, tries, processed, closure, render, polls, alerts, toasts,
    timers, count, dismissed>>

D == INSTANCE Displays WITH Nil <- None, config <- displaysConfig
A == INSTANCE Alerts WITH Window <- 3, Keep <- 2

MCInit ==
  /\ mode \in {"client", "displays", "alerts"}
  /\ Init /\ D!Init /\ A!Init
  /\ mode # "client" =>
       /\ config = [noLogs |-> FALSE, disableSharing |-> FALSE]
       /\ env = CHOOSE e \in Envs : TRUE

MCNext ==
  /\ UNCHANGED mode
  /\ \/ mode = "client"   /\ Next
     \/ mode = "displays" /\ D!Next
     \/ mode = "alerts"   /\ A!Next
     \/ mode # "client" /\ UNCHANGED <<displaysVars, alertsVars>>   \* or its bound is reached
  /\ mode # "client"   => UNCHANGED vars
  /\ mode # "displays" => UNCHANGED displaysVars
  /\ mode # "alerts"   => UNCHANGED alertsVars

MCSpec ==
  /\ MCInit /\ [][MCNext]_<<mode, vars, displaysVars, alertsVars>>

DisplaysAgree == D!DisplaysAgree
AlertsAreSeen == A!AlertsAreSeen
===============================================================================
