---------------------------- MODULE WifiStation ----------------------------
(***************************************************************************)
(* The Wi-Fi station transport (services/wifi/src/lib.rs): the lazily      *)
(* started radio, the scan and the access point it makes connect pin to,   *)
(* and connect, which tears an association down and waits for the network  *)
(* stack at two awaits.  Both calls take &mut self, so one is in progress  *)
(* at a time; the network runner and the air go on beside it, and a caller *)
(* may drop the call at any await.                                         *)
(*                                                                         *)
(* esp-radio and embassy-net are external: the runner drops its lease when *)
(* it finds the link down, and gets one from the network it finds.         *)
(***************************************************************************)
EXTENDS Naturals, Sequences, FiniteSetsExt

CONSTANTS
  Ssids,      \* the networks
  Signals,    \* signal strengths
  MaxAps      \* how many access points a scan reports (20 in the code)

ASSUME WifiAssumption ==
  /\ Signals \subseteq Nat
  /\ MaxAps \in Nat
  /\ Ssids \cap {"none", ""} = {}

VARIABLES
  peripheral, radio,   \* WifiManager: Option<WIFI>, Option<Radio>
  strongest_bssid,     \* WifiManager: the last scan's choice per network
  heard,               \* history: what the last successful scan heard
  assoc,               \* controller: the network associated with
  lease,               \* stack: the network the IPv4 configuration is from
  pc,                  \* the await the call in progress is at
  ssid, bssid,         \* connect's argument, and what it pins to (0: nothing)
  returned             \* what the last call returned

call == <<pc, ssid, bssid, returned>>
vars == <<peripheral, radio, strongest_bssid, heard, assoc, lease, call>>

None == "none"

\* An access point as scan_async reports it; a hidden network has no name.  Its
\* bssid is its place in the report, which no two share.
AccessPoint == [ssid : Ssids \cup {""}, bssid : 1 .. MaxAps, signal : Signals]

Reports ==
  UNION {{r \in [1 .. n -> AccessPoint] : \A i \in 1 .. n : r[i].bssid = i} : n \in 0 .. MaxAps}

Init ==
  /\ peripheral = TRUE /\ radio = FALSE
  /\ strongest_bssid = <<>> /\ heard = <<>>
  /\ assoc = None /\ lease = None
  /\ pc = "idle" /\ ssid = None /\ bssid = 0 /\ returned = "nothing"

-----------------------------------------------------------------------------
(* The radio is started by the first call that needs it.                   *)

RadioUp ==
  \/ radio /\ UNCHANGED <<peripheral, radio>>
  \/ ~radio /\ peripheral /\ peripheral' = FALSE /\ radio' = TRUE

\* The peripheral is taken before the start can fail, and it is not put back.
RadioFails ==
  /\ ~radio
  /\ peripheral' = FALSE
  /\ UNCHANGED radio

Return(value) ==
  /\ pc' = "idle" /\ ssid' = None /\ bssid' = 0
  /\ returned' = value

-----------------------------------------------------------------------------
(* scan                                                                    *)

\* Keep the access point heard first.
Keep_first(strongest, ap) ==
  IF ap.ssid = "" \/ \E i \in DOMAIN strongest : strongest[i].ssid = ap.ssid
    THEN strongest
    ELSE Append(strongest, ap)

\* One turn of scan's loop.
Keep(strongest, ap) ==
  IF ap.ssid = "" THEN strongest
  ELSE IF \E i \in DOMAIN strongest : strongest[i].ssid = ap.ssid
    THEN [i \in DOMAIN strongest |->
            IF strongest[i].ssid = ap.ssid /\ strongest[i].signal < ap.signal
              THEN ap ELSE strongest[i]]
    ELSE Append(strongest, ap)

\* The loop over the access points of the report.
Strongest(report) ==
  LET kept[n \in 0 .. Len(report)] ==
        IF n = 0 THEN <<>> ELSE Keep(kept[n - 1], report[n])
  IN  kept[Len(report)]

Scan ==
  /\ pc = "idle"
  /\ \/ RadioUp /\ pc' = "scan" /\ returned' = "nothing" /\ UNCHANGED <<ssid, bssid>>
     \/ RadioFails /\ Return("nothing")
  /\ UNCHANGED <<strongest_bssid, heard, assoc, lease>>

\* A scan that fails leaves the choices of the one before.
ScanDone ==
  /\ pc = "scan"
  /\ \/ \E report \in Reports :
          /\ heard' = report
          /\ strongest_bssid' = Strongest(report)
     \/ UNCHANGED <<heard, strongest_bssid>>
  /\ Return("nothing")
  /\ UNCHANGED <<peripheral, radio, assoc, lease>>

-----------------------------------------------------------------------------
(* connect                                                                 *)

Pin(name) ==
  LET known == {i \in DOMAIN strongest_bssid : strongest_bssid[i].ssid = name}
  IN  IF known = {} THEN 0 ELSE strongest_bssid[Min(known)].bssid

\* Go on without waiting for the old configuration to go.
AfterTeardown_nowait == "join"

\* With no association left: does the stack still hold a configuration?
AfterTeardown == IF lease = None THEN "join" ELSE "wait_down"

\* Leave the association as it is.
Teardown_kept == AfterTeardown

\* Tear down only what has a configuration to show for it.
Teardown_configured == IF lease = None THEN "join" ELSE "disconnect"

Teardown == IF assoc = None THEN AfterTeardown ELSE "disconnect"

Connect(name) ==
  /\ pc = "idle"
  /\ \/ /\ RadioUp
        /\ ssid' = name /\ bssid' = Pin(name)
        /\ pc' = Teardown
        /\ returned' = "nothing"
     \/ RadioFails /\ Return("false")
  /\ UNCHANGED <<strongest_bssid, heard, assoc, lease>>

\* disconnect_async returns; then is_config_up decides at once.
Disconnected ==
  /\ pc = "disconnect"
  /\ \/ assoc' = None /\ pc' = AfterTeardown /\ UNCHANGED <<ssid, bssid, returned>>
     \/ UNCHANGED assoc /\ Return("false")
  /\ UNCHANGED <<peripheral, radio, strongest_bssid, heard, lease>>

ConfigDown ==
  /\ pc = "wait_down" /\ lease = None
  /\ pc' = "join"
  /\ UNCHANGED <<peripheral, radio, strongest_bssid, heard, assoc, lease, ssid, bssid, returned>>

\* set_config and connect_async: the access point answers, or not.
Joined ==
  /\ pc = "join"
  /\ \/ assoc' = ssid /\ pc' = "wait_up" /\ UNCHANGED <<ssid, bssid, returned>>
     \/ UNCHANGED assoc /\ Return("false")
  /\ UNCHANGED <<peripheral, radio, strongest_bssid, heard, lease>>

\* The last wait: a link lost under it keeps it waiting until the caller drops it.
ConfigUp ==
  /\ pc = "wait_up" /\ lease # None
  /\ Return("true")
  /\ UNCHANGED <<peripheral, radio, strongest_bssid, heard, assoc, lease>>

\* The caller drops the future: the controller has done its part or has not.
Cancel ==
  /\ pc # "idle"
  /\ Return("nothing")
  /\ assoc' \in {assoc} \cup (IF pc = "disconnect" THEN {None} ELSE {})
                       \cup (IF pc = "join" THEN {ssid} ELSE {})
  /\ UNCHANGED <<peripheral, radio, strongest_bssid, heard, lease>>

-----------------------------------------------------------------------------
(* net_task and the air.                                                   *)

\* The runner finds the link down and drops its configuration.
LeaseLost ==
  /\ assoc = None /\ lease # None
  /\ lease' = None
  /\ UNCHANGED <<peripheral, radio, strongest_bssid, heard, assoc, call>>

\* DHCP answers.
LeaseGiven ==
  /\ assoc # None /\ lease = None
  /\ lease' = assoc
  /\ UNCHANGED <<peripheral, radio, strongest_bssid, heard, assoc, call>>

\* The access point goes away; the runner has yet to find out.
LinkLost ==
  /\ assoc # None
  /\ assoc' = None
  /\ UNCHANGED <<peripheral, radio, strongest_bssid, heard, lease, call>>

Next ==
  \/ Scan \/ ScanDone
  \/ (\E name \in Ssids : Connect(name))
  \/ Disconnected \/ ConfigDown \/ Joined \/ ConfigUp \/ Cancel
  \/ LeaseLost \/ LeaseGiven \/ LinkLost

Spec == Init /\ [][Next]_vars

\* The executor polls net_task and the call when they are woken.  Nothing is
\* assumed of the air, of the access point or of its DHCP server.
FairSpec == Spec /\ WF_vars(LeaseLost) /\ WF_vars(ConfigDown)

-----------------------------------------------------------------------------
(* What the scan keeps, and connect relies on.                             *)

\* One access point per network, each of the first n of the report and none
\* hidden, and for each of those one of its network at least as strong.
Kept(strongest, report, n) ==
  /\ \A i, j \in DOMAIN strongest :
        strongest[i].ssid = strongest[j].ssid => i = j
  /\ \A i \in DOMAIN strongest :
        strongest[i].ssid # "" /\ \E j \in 1 .. n : strongest[i] = report[j]
  /\ \A j \in 1 .. n : report[j].ssid # "" =>
        \E i \in DOMAIN strongest :
          /\ strongest[i].ssid = report[j].ssid
          /\ report[j].signal <= strongest[i].signal

Connecting == {"disconnect", "wait_down", "join", "wait_up"}

PinInv ==
  /\ heard \in Reports /\ strongest_bssid \in Seq(AccessPoint)
  /\ Kept(strongest_bssid, heard, Len(heard))
  /\ pc \in Connecting => ssid \in Ssids /\ bssid = Pin(ssid)

-----------------------------------------------------------------------------
\* PinStrongest: connect pins to the strongest access point the last successful
\* scan heard for that network, and to none only if it heard none; whatever
\* calls failed or were dropped in between.
PinStrongest ==
  pc \in Connecting =>
    LET same == {i \in DOMAIN heard : heard[i].ssid = ssid} IN
      /\ bssid = 0 <=> same = {}
      /\ bssid # 0 => bssid \in same /\ \A i \in same : heard[i].signal <= heard[bssid].signal

\* FreshLease: connect never reports success on the configuration of another
\* network ("wait_config_up() below cannot return immediately with a stale
\* lease", lib.rs:187), even when the link is lost as it looks.
FreshLease == [][returned' = "true" /\ returned # "true" => lease = ssid]_vars

\* JoinsApart: set_config and connect_async, which do not move a station from one
\* network to another (lib.rs:183-186), only ever meet one that is associated with
\* nothing and configured by nobody - after a call dropped between its join and
\* its configuration, too, whose association no lease shows.
JoinsApart == pc = "join" => assoc = None /\ lease = None

\* TeardownEnds: the wait for the old configuration to go away ends; it never
\* waits on an association that connect itself has left standing.
TeardownEnds == pc = "wait_down" ~> pc # "wait_down"
=============================================================================
