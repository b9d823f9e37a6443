---------------------------- MODULE AtomicConfig ----------------------------
(***************************************************************************)
(* What the editor and the revocation store promise whoever uses them: the *)
(* configuration changes by whole edits, each applied to what all the      *)
(* earlier ones left, and the revocation list by one device at a time.     *)
(* ConfigEditor, where files are read and written under locks by several   *)
(* processes, implements this.                                             *)
(***************************************************************************)
EXTENDS ConfigEdits

CONSTANTS
  Written,        \* the configurations on disk to begin with
  Edits           \* every edit somebody may make, the ones that undo others included

VARIABLES config, revoked

vars == <<config, revoked>>

Init == config \in Written /\ revoked = {}

Change(e) ==
  /\ Applies(config, e)
  /\ config' = Apply(config, e)
  /\ UNCHANGED revoked

Revoke(d) == revoked' = revoked \cup {d} /\ UNCHANGED config
Readmit(d) == revoked' = revoked \ {d} /\ UNCHANGED config

Next ==
  \/ \E e \in Edits : Change(e)
  \/ \E d \in Devices : Revoke(d) \/ Readmit(d)

Spec == Init /\ [][Next]_vars
=============================================================================
