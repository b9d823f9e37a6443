--------------------------- MODULE MCConfigEditor ---------------------------
EXTENDS ConfigEditor, TLC

\* Two egresses, one of them disabled, and a device on each way out.
MCTunnels == {1, 2}
MCDevices == 1 .. 3
Tunnel(enabled, probe, routes) ==
  [enabled |-> enabled, probe |-> probe, routes |-> routes, zones |-> {}, servers |-> {},
   allowed |-> {}]
Entry(address, key, egress) == [address |-> address, key |-> key, egress |-> egress]
Rule == [source |-> Anyone, target |-> 1, proto |-> "tcp", port |-> 22]
MCWritten ==
  {[hub |-> [port |-> 51820, udp443 |-> FALSE, reality |-> TRUE, site |-> "site",
             endpoint |-> "hub", key |-> 100, awg |-> Blank],
    devices |-> 1 :> Entry(2, 101, 1) @@ 2 :> Entry(3, 102, Direct),
    tunnels |-> 1 :> Tunnel(TRUE, "ping", {}) @@ 2 :> Tunnel(FALSE, Blank, {{200}}),
    acls |-> {}]}

MCJobs(loop, spawned, shells) ==
  loop :> {ToggleTunnel(1, FALSE), AllowClients(Rule), ForbidClients(Rule),
           ToggleAccess(AppendListItem(1, "allowed", 2)), SetEgress(1, 2),
           EditHub("endpoint", "site"), SetAWG("awg", "jc"), RemoveAWG("awg"),
           EditTunnelList(AppendListItem(1, "routes", {200})), SetProbe(1, "https"), RemoveProbe(1),
           NewDevice(3, 4, 2), NewDevice(2, 4, 1), Reissue(1), SendCurrent(1),
           RevokeDevice(1), Deploy}
  @@ spawned :> {RotateHubKey}
  @@ [s \in shells |->
        {ToggleTunnel(1, TRUE), HubctlListEdit(AppendListItem(1, "routes", {200})),
         HubctlListEdit(RemoveListItem(2, "routes", {200})), SetEgress(2, 2),
         RevokeDevice(2), Unrevoke(1), Deploy}]
CONSTANTS loop, spawned, shell
MCJobsHere == MCJobs(loop, spawned, {shell})
MCShells == {shell}

\* A rotation and nothing else.
MCRotation == [s \in {loop, spawned, shell} |-> IF s = spawned THEN {RotateHubKey} ELSE {}]
=============================================================================
