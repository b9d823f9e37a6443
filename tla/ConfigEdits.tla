---------------------------- MODULE ConfigEdits ----------------------------
(***************************************************************************)
(* The edits of the configuration editor: what each does to the            *)
(* configuration, when it refuses, and the edit its caller undoes it with. *)
(* An edit is [verb, section, id, field, value]; the section is tunnels,   *)
(* devices, acls or hub.                                                   *)
(***************************************************************************)
EXTENDS Policy

Edit(verb, section, id, field, value) ==
  [verb |-> verb, section |-> section, id |-> id, field |-> field, value |-> value]

\* Scalars: SetTunnelField, SetDeviceField, SetHubField.
SetTunnel(t, field, value) == Edit("set", "tunnels", t, field, value)
SetDevice(d, field, value) == Edit("set", "devices", d, field, value)
SetHub(field, value) == Edit("set", "hub", Blank, field, value)
\* A key of a nested mapping (awg_interface, health) is a field that may be Blank.
SetHubMapField(key, value) == Edit("set", "hub", Blank, key, value)
RemoveHubMapField(key) == Edit("unset", "hub", Blank, key, Blank)
SetTunnelMapField(t, key, value) == Edit("set", "tunnels", t, key, value)
RemoveTunnelMapField(t, key) == Edit("unset", "tunnels", t, key, Blank)
\* Sequences: routes, zones and allowed, which lists devices.
AppendListItem(t, field, value) == Edit("append", "tunnels", t, field, value)
RemoveListItem(t, field, value) == Edit("drop", "tunnels", t, field, value)
AddClientACL(rule) == Edit("add", "acls", Blank, "rule", rule)
RemoveClientACL(rule) == Edit("remove", "acls", Blank, "rule", rule)
AddDevice(d, entry) == Edit("add", "devices", d, "entry", entry)
RemoveDevice(d) == Edit("remove", "devices", d, "entry", Blank)

\* Mutant: a device is added over another of its name.
AppliesOverAnother(cfg, e) ==
  CASE e.verb = "set" -> e.section = "hub" \/ e.id \in DOMAIN cfg[e.section]
    [] e.verb = "unset" /\ e.section = "hub" -> cfg.hub[e.field] # Blank
    [] e.verb = "unset" /\ e.section # "hub" ->
         e.id \in DOMAIN cfg[e.section] /\ cfg[e.section][e.id][e.field] # Blank
    [] e.verb = "append" -> e.id \in DOMAIN cfg.tunnels /\ e.value \notin cfg.tunnels[e.id][e.field]
    [] e.verb = "drop" -> e.id \in DOMAIN cfg.tunnels /\ e.value \in cfg.tunnels[e.id][e.field]
    [] e.verb = "add" /\ e.section = "acls" -> e.value \notin cfg.acls
    [] e.verb = "remove" /\ e.section = "acls" -> e.value \in cfg.acls
    [] e.verb = "add" /\ e.section = "devices" -> TRUE
    [] e.verb = "remove" /\ e.section = "devices" -> e.id \in DOMAIN cfg.devices

\* An edit of what is not there, an addition of what is, are refused.
Applies(cfg, e) ==
  CASE e.verb = "set" -> e.section = "hub" \/ e.id \in DOMAIN cfg[e.section]
    [] e.verb = "unset" /\ e.section = "hub" -> cfg.hub[e.field] # Blank
    [] e.verb = "unset" /\ e.section # "hub" ->
         e.id \in DOMAIN cfg[e.section] /\ cfg[e.section][e.id][e.field] # Blank
    [] e.verb = "append" -> e.id \in DOMAIN cfg.tunnels /\ e.value \notin cfg.tunnels[e.id][e.field]
    [] e.verb = "drop" -> e.id \in DOMAIN cfg.tunnels /\ e.value \in cfg.tunnels[e.id][e.field]
    [] e.verb = "add" /\ e.section = "acls" -> e.value \notin cfg.acls
    [] e.verb = "remove" /\ e.section = "acls" -> e.value \in cfg.acls
    [] e.verb = "add" /\ e.section = "devices" -> e.id \notin DOMAIN cfg.devices
    [] e.verb = "remove" /\ e.section = "devices" -> e.id \in DOMAIN cfg.devices

With(f, x, y) == [z \in DOMAIN f \cup {x} |-> IF z = x THEN y ELSE f[z]]

Apply(cfg, e) ==
  CASE e.verb \in {"set", "unset"} /\ e.section = "hub" -> [cfg EXCEPT !.hub[e.field] = e.value]
    [] e.verb \in {"set", "unset"} /\ e.section # "hub" -> [cfg EXCEPT ![e.section][e.id][e.field] = e.value]
    [] e.verb = "append" -> [cfg EXCEPT !.tunnels[e.id][e.field] = @ \cup {e.value}]
    [] e.verb = "drop" -> [cfg EXCEPT !.tunnels[e.id][e.field] = @ \ {e.value}]
    [] e.verb = "add" /\ e.section = "acls" -> [cfg EXCEPT !.acls = @ \cup {e.value}]
    [] e.verb = "remove" /\ e.section = "acls" -> [cfg EXCEPT !.acls = @ \ {e.value}]
    [] e.verb = "add" /\ e.section = "devices" ->
         [cfg EXCEPT !.devices = With(@, e.id, e.value)]
    [] e.verb = "remove" /\ e.section = "devices" ->
         [cfg EXCEPT !.devices = Only(@, DOMAIN @ \ {e.id})]

\* The edit a caller reverts with.  A toggle writes the opposite of what it
\* wrote, a field its caller read before writes what was read.
Undo(e, previous) ==
  CASE e.verb = "set" /\ e.field = "enabled" -> [e EXCEPT !.value = ~e.value]
    [] e.verb \in {"set", "unset"} /\ e.field # "enabled" ->
         Edit(IF previous = Blank THEN "unset" ELSE "set", e.section, e.id, e.field, previous)
    [] e.verb = "append" -> [e EXCEPT !.verb = "drop"]
    [] e.verb = "drop" -> [e EXCEPT !.verb = "append"]
    [] e.verb = "add" /\ e.section = "acls" -> [e EXCEPT !.verb = "remove"]
    [] e.verb = "remove" /\ e.section = "acls" -> [e EXCEPT !.verb = "add"]
    [] e.verb = "add" /\ e.section = "devices" -> RemoveDevice(e.id)
=============================================================================
