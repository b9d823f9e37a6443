----------------------------- MODULE MCHubPolicy -----------------------------
EXTENDS HubPolicy, TLC

\* Tunnels 1 and 2 are egresses, 3 and 4 private networks; 2 and 4 run their process
\* inside the namespace.  Clients live in 0 .. 5, the links from 6 on.
MCTunnels == 1 .. 4
MCPrivate == {3, 4}
MCContained == {2, 4}
MCDevices == 1 .. 3
Web == 101
Office == 102
Lab == 103
MCDestinations == {Web, Office, Lab}
MCServices == {<<"tcp", 22>>, <<"udp", 443>>, <<"udp", 53>>, <<"tcp", 853>>}
MCPrivateRange == 0 .. 30
Tunnel(enabled, routes, zones, servers, allowed) ==
  [enabled |-> enabled, routes |-> routes, zones |-> zones, servers |-> servers,
   allowed |-> allowed, probe |-> Blank]
Device(d, egress) == [address |-> d + 1, key |-> d, egress |-> egress]
Rule(source, target) == [source |-> source, target |-> target, proto |-> "tcp", port |-> 22]

Hub(reality) ==
  [port |-> 51820, udp443 |-> FALSE, reality |-> reality, site |-> "site", endpoint |-> "hub",
   key |-> 0, awg |-> Blank]
Usual ==
  [hub |-> Hub(TRUE),
   devices |-> 1 :> Device(1, 1) @@ 2 :> Device(2, Direct),
   tunnels |-> 1 :> Tunnel(TRUE, {}, {}, {}, {})
            @@ 2 :> Tunnel(TRUE, {}, {}, {}, {1})
            @@ 3 :> Tunnel(TRUE, {{Office}}, {{"corp"}}, {Office}, {1})
            @@ 4 :> Tunnel(FALSE, {{Lab}}, {{"lab"}}, {Lab}, {}),
   acls |-> {}]
MCWritten == {Usual, [Usual EXCEPT !.acls = {Rule(1, 2)}]}

MCEdits ==
  {SetTunnel(1, "enabled", FALSE), SetTunnel(2, "enabled", FALSE), SetTunnel(4, "enabled", TRUE),
   SetDevice(1, "egress", 2), SetDevice(1, "egress", Direct), SetDevice(2, "egress", 1),
   SetDevice(2, "address", 4),
   SetHub("udp443", TRUE), SetHub("reality", FALSE), SetHub("site", "hub"),
   AppendListItem(3, "allowed", 2), RemoveListItem(3, "allowed", 1),
   AppendListItem(3, "routes", {4}), AppendListItem(4, "routes", {Office}),
   AppendListItem(4, "allowed", 2), AppendListItem(4, "servers", Web),
   AddClientACL(Rule(1, 2)), AddClientACL(Rule(Anyone, 1)), RemoveClientACL(Rule(1, 2)),
   AddDevice(3, Device(3, 1)), AddDevice(3, Device(2, 1)), RemoveDevice(2)}
=============================================================================
