------------------------------ MODULE CapTable ------------------------------
(***************************************************************************)
(* The capability table of capability/table.rs.                            *)
(*                                                                         *)
(* Every operation runs under the CAP_TABLE lock, so each is one step.     *)
(* Ids are handed out in order from 1 and a slot is never emptied, so the  *)
(* table is the sequence of the capabilities created so far and next_id is *)
(* its length plus one.  An operation that fails changes nothing.          *)
(***************************************************************************)
EXTENDS ResourceRef, FiniteSets

CONSTANTS Tasks,       \* task ids that own capabilities
          PermSets,    \* permission sets that capabilities are asked for with
          Resources,   \* resources capabilities are created for
          Hosts, Ports,\* targets of outbound connections
          MaxCaps,     \* bound on the number of capabilities ever created
          MaxRoots     \* bound on the number of root capabilities among them

ASSUME ResourcesAssumption == Resources \subseteq ResourceRefs
ASSUME MaxCapsAssumption == MaxCaps \in Nat /\ MaxRoots \in Nat

VARIABLE caps   \* capabilities[1..], parent 0 for None

Capability == [resource : Resources, permissions : PermSets,
               owner : Tasks, parent : Nat, revoked : BOOLEAN]

Init == caps = <<>>

-----------------------------------------------------------------------------
(* Lookups.                                                                *)

\* get(c) succeeds: c exists and is not revoked.
Get(c) == c \in DOMAIN caps /\ ~caps[c].revoked

\* validate(c, t, required) succeeds.
Validate(c, t, required) ==
    Get(c) /\ caps[c].owner = t /\ HasPerms(caps[c].permissions, required)

\* check_outbound(t, c, host, port) answers Allow.
CheckOutbound(t, c, host, port) ==
    Validate(c, t, {"CONNECT"}) /\ AllowsOutbound(caps[c].resource, host, port)

ActiveCount == Cardinality({c \in DOMAIN caps : ~caps[c].revoked})

-----------------------------------------------------------------------------
(* Creation and delegation.                                                *)

NewCap(r, ps, t, p) == [resource |-> r, permissions |-> ps, owner |-> t,
                        parent |-> p, revoked |-> FALSE]

CreateRoot(t, r, ps) ==
    /\ Len(caps) < MaxCaps
    /\ Cardinality({c \in DOMAIN caps : caps[c].parent = 0}) < MaxRoots
    /\ caps' = Append(caps, NewCap(r, ps, t, 0))

\* Mutant of Delegate: the resource override is not compared with the source.
DelegateAnyResource(c, from, to, ps, r) ==
    /\ Len(caps) < MaxCaps /\ Get(c) /\ caps[c].owner = from
    /\ CanDelegateTo(caps[c].permissions, ps)
    /\ caps' = Append(caps, NewCap(r, ps, to, c))

\* delegate(c, from, to, ps, r).  Without an override the child takes over the
\* source's resource, which is a subset of itself.
Delegate(c, from, to, ps, r) ==
    /\ Len(caps) < MaxCaps
    /\ Get(c)
    /\ caps[c].owner = from
    /\ CanDelegateTo(caps[c].permissions, ps)
    /\ IsSubsetOf(r, caps[c].resource)
    /\ caps' = Append(caps, NewCap(r, ps, to, c))

-----------------------------------------------------------------------------
(* Revocation.                                                             *)

\* The live children that revoke_recursive collects for d.
LiveChildren(d) == {e \in DOMAIN caps : caps[e].parent = d /\ ~caps[e].revoked}

\* Mutants of Cascade: only the capability and its children; a capability's
\* siblings as well.
CascadeOneLevel(c) == {c} \cup LiveChildren(c)
CascadeSiblings(c) == {c} \cup LiveChildren(c) \cup LiveChildren(caps[c].parent)

\* S holds the live children of its members.
ClosedDown(S) == \A d \in S : LiveChildren(d) \subseteq S

\* What revoke_recursive(c) visits: the least such set that holds c.
Cascade(c) ==
    {d \in DOMAIN caps :
        \A S \in SUBSET DOMAIN caps : c \in S /\ ClosedDown(S) => d \in S}

\* revoke's authorization: the owner of the capability or of its parent.
MayRevoke(c, t) ==
    \/ caps[c].owner = t
    \/ caps[c].parent \in DOMAIN caps /\ caps[caps[c].parent].owner = t

\* Mutant of Revoke: the revoked flags are recomputed instead of added to.
RevokeResets(c, t) ==
    /\ Get(c)
    /\ MayRevoke(c, t)
    /\ LET gone == Cascade(c)
       IN  caps' = [d \in DOMAIN caps |-> [caps[d] EXCEPT !.revoked = (d \in gone)]]

Revoke(c, t) ==
    /\ Get(c)
    /\ MayRevoke(c, t)
    /\ LET gone == Cascade(c)
       IN  caps' = [d \in DOMAIN caps |->
                      IF d \in gone THEN [caps[d] EXCEPT !.revoked = TRUE]
                                   ELSE caps[d]]

Next ==
    \/ \E t \in Tasks, r \in Resources, ps \in PermSets : CreateRoot(t, r, ps)
    \/ \E c \in DOMAIN caps, from, to \in Tasks, ps \in PermSets,
          r \in Resources : Delegate(c, from, to, ps, r)
    \/ \E c \in DOMAIN caps, t \in Tasks : Revoke(c, t)

Spec == Init /\ [][Next]_caps

-----------------------------------------------------------------------------
(* Properties.                                                             *)

TypeOK ==
    /\ caps \in Seq(Capability)
    /\ Len(caps) <= MaxCaps
    /\ \A c \in DOMAIN caps : caps[c].parent < c

\* S holds the parents of its members.
ClosedUp(S) == \A e \in S : caps[e].parent \in S \cup {0}

\* c and the capabilities it was delegated from, up to its root: the least set
\* that holds c and, with a capability, its parent.
Lineage(c) ==
    {a \in DOMAIN caps :
        \A S \in SUBSET DOMAIN caps : c \in S /\ ClosedUp(S) => a \in S}

\* A capability that validate accepts is backed by its whole lineage: every
\* capability it was delegated from is still live, has all its permissions,
\* covers its resource, and the ones above it could delegate.  Revoking or
\* narrowing any of them in time stops the ones below, however long the chain.
LineageAuthorizes ==
    \A c \in DOMAIN caps : Get(c) =>
        \A a \in Lineage(c) :
            /\ Get(a)
            /\ HasPerms(caps[a].permissions, caps[c].permissions)
            /\ IsSubsetOf(caps[c].resource, caps[a].resource)
            /\ a # c => DELEGATE \in caps[a].permissions

\* Whatever connection the firewall lets a task open with a capability, it lets
\* the owner of each capability in the lineage open as well: is_subset_of and
\* check_outbound agree on what a Network resource covers.
OutboundWithinLineage ==
    \A c \in DOMAIN caps, h \in Hosts, p \in Ports :
        CheckOutbound(caps[c].owner, c, h, p) =>
            \A a \in Lineage(c) : CheckOutbound(caps[a].owner, a, h, p)

\* A capability never changes after its creation except that it is revoked,
\* and a revoked one never comes back; none disappears.
RightsOnlyShrink ==
    [][\A c \in DOMAIN caps :
          /\ c \in DOMAIN caps'
          /\ caps'[c] = caps[c] \/ caps'[c] = [caps[c] EXCEPT !.revoked = TRUE]
      ]_caps

\* A revocation takes exactly a subtree: every live capability below the one
\* that was named, and nothing that does not descend from it.
RevokesWholeSubtree ==
    [][LET R == {d \in DOMAIN caps : caps'[d].revoked /\ ~caps[d].revoked}
       IN  R # {} => \E c \in R :
              R = {d \in DOMAIN caps : Get(d) /\ c \in Lineage(d)}]_caps
=============================================================================
