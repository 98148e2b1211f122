---------------------------- MODULE ResourceRef ----------------------------
(***************************************************************************)
(* capability/resource.rs and capability/permissions.rs: what a capability *)
(* names, when one resource lies inside another, and the permission bits   *)
(* (a set of permission names stands for the bit field).                   *)
(***************************************************************************)
EXTENDS Integers, Sequences, SequencesExt

CONSTANT AddrMax   \* u64::MAX

ASSUME AddrMaxAssumption == AddrMax \in Nat

\* Permissions are sets of names; DELEGATE is the one the table looks at.
DELEGATE == "DELEGATE"

HasPerms(have, want) == want \subseteq have

CanDelegateTo(have, subset) == HasPerms(have, {DELEGATE}) /\ HasPerms(have, subset)

-----------------------------------------------------------------------------
(* The variants of ResourceRef.  The variants that hold one name (Channel, *)
(* Tool, Model, System), the id of an agent or nothing (AgentSpawn) are    *)
(* compared by equality alone and share the form Named.                    *)

Memory(b, l)  == [kind |-> "Memory", base |-> b, length |-> l]
Network(h, p) == [kind |-> "Network", host |-> h, port |-> p]
Storage(p)    == [kind |-> "Storage", path |-> p]
Named(k, n)   == [kind |-> k, name |-> n]

ResourceRefs ==
    [kind : {"Memory"}, base : 0 .. AddrMax, length : 0 .. AddrMax]
    \cup [kind : {"Network"}, host : STRING, port : Nat]
    \cup [kind : {"Storage"}, path : Seq(STRING)]
    \cup [kind : {"Agent", "Channel", "Tool", "Model", "AgentSpawn", "System"},
          name : STRING]

\* base.saturating_add(length)
End(m) == IF m.base + m.length > AddrMax THEN AddrMax ELSE m.base + m.length

\* is_subset_of.  A path is the sequence of its characters (starts_with).
IsSubsetOf(child, parent) ==
    \/ /\ child.kind = "Memory" /\ parent.kind = "Memory"
       /\ child.base >= parent.base
       /\ End(child) <= End(parent)
    \/ /\ child.kind # "Memory"
       /\ child = parent
    \/ /\ child.kind = "Network" /\ parent.kind = "Network"
       /\ (parent.host = "*" \/ child.host = parent.host)
       /\ (parent.port = 0 \/ child.port = parent.port)
    \/ /\ child.kind = "Storage" /\ parent.kind = "Storage"
       /\ IsPrefix(parent.path, child.path)

\* The resource test of net/firewall.rs check_outbound.
AllowsOutbound(resource, host, port) ==
    /\ resource.kind = "Network"
    /\ resource.host \in {"*", host}
    /\ resource.port \in {0, port}
=============================================================================
