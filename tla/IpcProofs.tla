----------------------------- MODULE IpcProofs -----------------------------
(***************************************************************************)
(* Proofs about the capability table, for any tasks, resources and bounds, *)
(* and then about mailboxes and channels, for any tasks, capacity and      *)
(* channels: messages change the table only as the table itself would.     *)
(***************************************************************************)
EXTENDS Ipc, FiniteSetTheorems, TLAPS

-----------------------------------------------------------------------------
(* is_subset_of orders the resources.                                      *)

\* starts_with, position by position.
LEMMA PrefixPointwise ==
    ASSUME NEW s \in Seq(STRING), NEW t \in Seq(STRING)
    PROVE  IsPrefix(s, t) <=>
              Len(s) <= Len(t) /\ \A i \in 1 .. Len(s) : s[i] = t[i]
BY DEF IsPrefix

\* is_subset_of is reflexive: delegating without an override is a special case
\* of delegating with one.
LEMMA SubsetReflexive ==
    ASSUME NEW r \in ResourceRefs
    PROVE  IsSubsetOf(r, r)
BY AddrMaxAssumption DEF IsSubsetOf, ResourceRefs, End

\* is_subset_of is transitive, saturation, wildcards and prefixes included.
LEMMA SubsetTransitive ==
    ASSUME NEW a \in ResourceRefs, NEW b \in ResourceRefs, NEW c \in ResourceRefs,
           IsSubsetOf(a, b), IsSubsetOf(b, c)
    PROVE  IsSubsetOf(a, c)
<1>1. CASE a.kind = "Memory"
  BY <1>1, AddrMaxAssumption DEF IsSubsetOf, ResourceRefs, End
<1>2. CASE a.kind = "Network"
  BY <1>2 DEF IsSubsetOf, ResourceRefs
<1>3. CASE a.kind = "Storage"
  <2>1. /\ b.kind = "Storage" /\ c.kind = "Storage"
        /\ a.path \in Seq(STRING) /\ b.path \in Seq(STRING) /\ c.path \in Seq(STRING)
    BY <1>3 DEF IsSubsetOf, ResourceRefs
  <2>2. IsPrefix(b.path, a.path) /\ IsPrefix(c.path, b.path)
    <3>1. \A s \in Seq(STRING) : IsPrefix(s, s)
      BY PrefixPointwise
    <3> QED
      BY <1>3, <2>1, <3>1 DEF IsSubsetOf
  <2>3. IsPrefix(c.path, a.path)
    BY <2>1, <2>2, PrefixPointwise
  <2> QED
    BY <2>1, <2>3 DEF IsSubsetOf
<1>4. CASE a.kind \notin {"Memory", "Network", "Storage"}
  BY <1>4 DEF IsSubsetOf
<1> QED
  BY <1>1, <1>2, <1>3, <1>4

\* What the firewall lets through with a child it lets through with the parent.
LEMMA SubsetAllowsLess ==
    ASSUME NEW a \in ResourceRefs, NEW b \in ResourceRefs, IsSubsetOf(a, b),
           NEW h, NEW p, AllowsOutbound(a, h, p)
    PROVE  AllowsOutbound(b, h, p)
BY DEF IsSubsetOf, AllowsOutbound, ResourceRefs

-----------------------------------------------------------------------------
(* The inductive invariant.                                                *)

\* A child has no more rights than its parent, which could delegate.
Attenuated ==
    \A c \in DOMAIN caps : caps[c].parent # 0 =>
        LET p == caps[caps[c].parent]
        IN  /\ HasPerms(p.permissions, caps[c].permissions)
            /\ DELEGATE \in p.permissions
            /\ IsSubsetOf(caps[c].resource, p.resource)

\* The children of a revoked capability are revoked.
RevocationClosed ==
    \A c \in DOMAIN caps :
        caps[c].parent # 0 /\ caps[caps[c].parent].revoked => caps[c].revoked

IInv == TypeOK /\ Attenuated /\ RevocationClosed

\* The parent of a capability is a slot of the table.
LEMMA ParentInTable ==
    ASSUME TypeOK, NEW c \in DOMAIN caps, caps[c].parent # 0
    PROVE  caps[c].parent \in DOMAIN caps
<1>1. DOMAIN caps = 1 .. Len(caps) /\ Len(caps) \in Nat /\ caps[c] \in Capability
  BY DEF TypeOK
<1>2. caps[c].parent \in Nat /\ caps[c].parent < c
  BY <1>1 DEF Capability, TypeOK
<1> QED
  BY <1>1, <1>2

\* A cascade holds the capability it starts from and is closed downwards.
LEMMA CascadeClosed ==
    ASSUME NEW c \in DOMAIN caps
    PROVE  /\ Cascade(c) \subseteq DOMAIN caps
           /\ c \in Cascade(c)
           /\ ClosedDown(Cascade(c))
<1>1. Cascade(c) \subseteq DOMAIN caps /\ c \in Cascade(c)
  BY DEF Cascade
<1>2. ASSUME NEW e \in DOMAIN caps, caps[e].parent \in Cascade(c), ~caps[e].revoked
      PROVE  e \in Cascade(c)
  <2>1. ASSUME NEW S \in SUBSET DOMAIN caps, c \in S, ClosedDown(S)
        PROVE  e \in S
    <3>1. caps[e].parent \in S
      BY <1>2, <2>1 DEF Cascade
    <3> QED
      BY <1>2, <2>1, <3>1 DEF ClosedDown, LiveChildren
  <2> QED
    BY <2>1 DEF Cascade
<1> QED
  BY <1>1, <1>2 DEF ClosedDown, LiveChildren

\* The empty table satisfies the invariant.
LEMMA InitInv == Init => IInv
BY MaxCapsAssumption DEF Init, IInv, TypeOK, Attenuated, RevocationClosed

\* create_root and delegate append one capability.
LEMMA AppendPreserves ==
    ASSUME IInv, NEW r \in Resources, NEW ps \in PermSets, NEW t \in Tasks,
           NEW p \in DOMAIN caps \cup {0},
           Len(caps) < MaxCaps,
           caps' = Append(caps, NewCap(r, ps, t, p)),
           p # 0 => /\ Get(p)
                    /\ CanDelegateTo(caps[p].permissions, ps)
                    /\ IsSubsetOf(r, caps[p].resource)
    PROVE  IInv'
<1> DEFINE n == Len(caps) + 1
<1>1. /\ caps \in Seq(Capability) /\ Len(caps) \in Nat
      /\ DOMAIN caps = 1 .. Len(caps)
      /\ \A c \in DOMAIN caps : caps[c] \in Capability /\ caps[c].parent < c
  BY DEF IInv, TypeOK
<1>2. NewCap(r, ps, t, p) \in Capability /\ p < n
  BY <1>1 DEF NewCap, Capability
<1>3. /\ caps' \in Seq(Capability) /\ Len(caps') = n
      /\ DOMAIN caps' = 1 .. n
      /\ \A c \in DOMAIN caps : caps'[c] = caps[c]
      /\ caps'[n] = NewCap(r, ps, t, p)
  BY <1>1, <1>2
<1>4. TypeOK'
  BY <1>1, <1>2, <1>3, MaxCapsAssumption DEF TypeOK, NewCap
<1>5. ASSUME NEW c \in DOMAIN caps', caps'[c].parent # 0
      PROVE  caps'[c].parent \in DOMAIN caps
  <2>1. CASE c = n
    BY <1>3, <1>5, <2>1 DEF NewCap
  <2>2. CASE c # n
    BY <1>1, <1>3, <1>5, <2>2, ParentInTable DEF IInv
  <2> QED
    BY <2>1, <2>2
<1>6. Attenuated'
  <2> SUFFICES ASSUME NEW c \in DOMAIN caps', caps'[c].parent # 0
               PROVE  /\ HasPerms(caps'[caps'[c].parent].permissions, caps'[c].permissions)
                      /\ DELEGATE \in caps'[caps'[c].parent].permissions
                      /\ IsSubsetOf(caps'[c].resource, caps'[caps'[c].parent].resource)
    BY DEF Attenuated
  <2>1. CASE c = n
    BY <1>3, <1>5, <2>1 DEF NewCap, CanDelegateTo, HasPerms
  <2>2. CASE c # n
    BY <1>1, <1>3, <1>5, <2>2 DEF IInv, Attenuated
  <2> QED
    BY <2>1, <2>2
<1>7. RevocationClosed'
  <2> SUFFICES ASSUME NEW c \in DOMAIN caps', caps'[c].parent # 0,
                      caps'[caps'[c].parent].revoked
               PROVE  caps'[c].revoked
    BY DEF RevocationClosed
  <2>1. CASE c = n
    BY <1>3, <1>5, <2>1 DEF NewCap, Get
  <2>2. CASE c # n
    BY <1>1, <1>3, <1>5, <2>2 DEF IInv, RevocationClosed
  <2> QED
    BY <2>1, <2>2
<1> QED
  BY <1>4, <1>6, <1>7 DEF IInv

\* revoke marks a set of capabilities that is closed downwards.
LEMMA RevokePreserves ==
    ASSUME IInv, NEW c \in DOMAIN caps, NEW t \in Tasks, Revoke(c, t)
    PROVE  IInv'
<1>1. /\ caps \in Seq(Capability) /\ Len(caps) \in Nat
      /\ DOMAIN caps = 1 .. Len(caps)
      /\ \A d \in DOMAIN caps : caps[d] \in Capability /\ caps[d].parent < d
  BY DEF IInv, TypeOK
<1>2. /\ DOMAIN caps' = DOMAIN caps
      /\ \A d \in DOMAIN caps :
            caps'[d] = IF d \in Cascade(c) THEN [caps[d] EXCEPT !.revoked = TRUE]
                                           ELSE caps[d]
  BY DEF Revoke
<1>3. \A d \in DOMAIN caps :
         /\ caps'[d] \in Capability
         /\ caps'[d].parent = caps[d].parent
         /\ caps'[d].permissions = caps[d].permissions
         /\ caps'[d].resource = caps[d].resource
         /\ caps'[d].revoked = (caps[d].revoked \/ d \in Cascade(c))
  BY <1>1, <1>2 DEF Capability
<1>4. caps' \in Seq(Capability) /\ Len(caps') = Len(caps)
  <2>1. caps' = [d \in 1 .. Len(caps) |-> caps'[d]]
    BY <1>1, <1>2 DEF Revoke
  <2> QED
    BY <1>1, <1>3, <2>1
<1>5. TypeOK'
  BY <1>1, <1>2, <1>3, <1>4 DEF TypeOK, IInv
<1>6. Attenuated'
  BY <1>2, <1>3, ParentInTable DEF Attenuated, IInv
<1>7. RevocationClosed'
  <2> SUFFICES ASSUME NEW d \in DOMAIN caps, caps[d].parent # 0,
                      caps'[caps[d].parent].revoked
               PROVE  caps'[d].revoked
    BY <1>2, <1>3 DEF RevocationClosed
  <2>1. caps[d].parent \in DOMAIN caps
    BY ParentInTable DEF IInv
  <2>2. CASE caps[caps[d].parent].revoked
    BY <1>3, <2>2 DEF IInv, RevocationClosed
  <2>3. CASE caps[d].parent \in Cascade(c)
    BY <1>3, <2>3, CascadeClosed DEF ClosedDown, LiveChildren
  <2> QED
    BY <1>3, <2>1, <2>2, <2>3
<1> QED
  BY <1>5, <1>6, <1>7 DEF IInv

\* Every operation of the table preserves the invariant.
LEMMA NextPreserves == IInv /\ [Next]_caps => IInv'
<1> SUFFICES ASSUME IInv, [Next]_caps
             PROVE  IInv'
  OBVIOUS
<1>1. ASSUME NEW t \in Tasks, NEW r \in Resources, NEW ps \in PermSets,
             CreateRoot(t, r, ps)
      PROVE  IInv'
  BY <1>1, AppendPreserves DEF CreateRoot
<1>2. ASSUME NEW c \in DOMAIN caps, NEW from \in Tasks, NEW to \in Tasks,
             NEW ps \in PermSets, NEW r \in Resources, Delegate(c, from, to, ps, r)
      PROVE  IInv'
  BY <1>2, AppendPreserves DEF Delegate
<1>3. ASSUME NEW c \in DOMAIN caps, NEW t \in Tasks, Revoke(c, t)
      PROVE  IInv'
  BY <1>3, RevokePreserves
<1>4. CASE UNCHANGED caps
  BY <1>4 DEF IInv, TypeOK, Attenuated, RevocationClosed
<1> QED
  BY <1>1, <1>2, <1>3, <1>4 DEF Next

\* Every reachable table satisfies the inductive invariant.
THEOREM InductiveInvariant == Spec => []IInv
BY InitInv, NextPreserves, PTL DEF Spec

\* The table is well typed in every reachable state, and parents come first.
THEOREM TypeCorrect == Spec => []TypeOK
<1>1. IInv => TypeOK
  BY DEF IInv
<1> QED
  BY InductiveInvariant, <1>1, PTL

-----------------------------------------------------------------------------
(* What the invariant says about whole lineages.                           *)

\* A set that holds c and is closed upwards holds the lineage of c.
LEMMA LineageLeast ==
    ASSUME NEW c, NEW S \in SUBSET DOMAIN caps, c \in S, ClosedUp(S)
    PROVE  Lineage(c) \subseteq S
BY DEF Lineage

\* The table only holds well-formed resources.
LEMMA ResourcesTyped ==
    ASSUME TypeOK, NEW a \in DOMAIN caps
    PROVE  caps[a].resource \in ResourceRefs
<1>1. caps[a] \in Capability
  BY DEF TypeOK
<1> QED
  BY <1>1, ResourcesAssumption DEF Capability

\* The invariant relates a capability to its parent; along the lineage it adds
\* up to what validate relies on.
LEMMA InvLineage == IInv => LineageAuthorizes
<1> SUFFICES ASSUME IInv, NEW c \in DOMAIN caps, Get(c)
             PROVE  \A a \in Lineage(c) :
                       /\ Get(a)
                       /\ HasPerms(caps[a].permissions, caps[c].permissions)
                       /\ IsSubsetOf(caps[c].resource, caps[a].resource)
                       /\ a # c => DELEGATE \in caps[a].permissions
  BY DEF LineageAuthorizes
<1> DEFINE S == {a \in DOMAIN caps :
                    /\ Get(a)
                    /\ HasPerms(caps[a].permissions, caps[c].permissions)
                    /\ IsSubsetOf(caps[c].resource, caps[a].resource)
                    /\ a # c => DELEGATE \in caps[a].permissions}
<1>1. \A a \in DOMAIN caps : caps[a].resource \in ResourceRefs
  BY ResourcesTyped DEF IInv
<1>2. c \in S
  BY <1>1, SubsetReflexive DEF HasPerms
<1>3. ClosedUp(S)
  <2> SUFFICES ASSUME NEW e \in S, caps[e].parent # 0
               PROVE  caps[e].parent \in S
    BY DEF ClosedUp
  <2> DEFINE p == caps[e].parent
  <2>1. p \in DOMAIN caps
    BY ParentInTable DEF IInv
  <2>2. Get(p)
    BY <2>1 DEF IInv, RevocationClosed, Get
  <2>3. /\ HasPerms(caps[p].permissions, caps[e].permissions)
        /\ DELEGATE \in caps[p].permissions
        /\ IsSubsetOf(caps[e].resource, caps[p].resource)
    BY DEF IInv, Attenuated
  <2>4. IsSubsetOf(caps[c].resource, caps[p].resource)
    BY <1>1, <2>1, <2>3, SubsetTransitive
  <2> QED
    BY <2>1, <2>2, <2>3, <2>4 DEF HasPerms
<1>4. Lineage(c) \subseteq S
  BY <1>2, <1>3, LineageLeast
<1> QED
  BY <1>4

\* A live capability is backed by its whole lineage.
THEOREM LineageTheorem == Spec => []LineageAuthorizes
BY InductiveInvariant, InvLineage, PTL

\* The firewall lets nobody reach more through a delegated capability.
THEOREM OutboundTheorem == Spec => []OutboundWithinLineage
<1>1. IInv => OutboundWithinLineage
  <2> SUFFICES ASSUME IInv, NEW c \in DOMAIN caps, NEW h \in Hosts, NEW p \in Ports,
                      CheckOutbound(caps[c].owner, c, h, p), NEW a \in Lineage(c)
               PROVE  CheckOutbound(caps[a].owner, a, h, p)
    BY DEF OutboundWithinLineage
  <2>1. Get(c) /\ "CONNECT" \in caps[c].permissions
        /\ AllowsOutbound(caps[c].resource, h, p)
    BY DEF CheckOutbound, Validate, HasPerms
  <2>2. /\ Get(a)
        /\ HasPerms(caps[a].permissions, caps[c].permissions)
        /\ IsSubsetOf(caps[c].resource, caps[a].resource)
    BY <2>1, InvLineage DEF LineageAuthorizes
  <2>3. caps[c].resource \in ResourceRefs /\ caps[a].resource \in ResourceRefs
    BY <2>2, ResourcesTyped DEF IInv, Get
  <2>4. AllowsOutbound(caps[a].resource, h, p)
    BY <2>1, <2>2, <2>3, SubsetAllowsLess
  <2> QED
    BY <2>1, <2>2, <2>4 DEF CheckOutbound, Validate, HasPerms
<1> QED
  BY InductiveInvariant, <1>1, PTL

-----------------------------------------------------------------------------
(* What a step may do.                                                     *)

\* Capabilities are only ever added and revoked.
THEOREM RightsTheorem == Spec => RightsOnlyShrink
<1> DEFINE Shrinks ==
        \A c \in DOMAIN caps :
            /\ c \in DOMAIN caps'
            /\ caps'[c] = caps[c] \/ caps'[c] = [caps[c] EXCEPT !.revoked = TRUE]
<1>1. IInv /\ [Next]_caps => [Shrinks]_caps
  <2> SUFFICES ASSUME IInv, Next
               PROVE  Shrinks
    OBVIOUS
  <2>1. caps \in Seq(Capability) /\ DOMAIN caps = 1 .. Len(caps) /\ Len(caps) \in Nat
    BY DEF IInv, TypeOK
  <2>2. ASSUME NEW x, caps' = Append(caps, x)
        PROVE  Shrinks
    BY <2>1, <2>2
  <2>3. ASSUME NEW c \in DOMAIN caps, NEW t \in Tasks, Revoke(c, t)
        PROVE  Shrinks
    BY <2>3 DEF Revoke
  <2> QED
    BY <2>2, <2>3 DEF Next, CreateRoot, Delegate
<1> QED
  BY InductiveInvariant, <1>1, PTL DEF Spec, RightsOnlyShrink

\* A capability is in its own lineage, and so is the lineage of its parent.
LEMMA LineageOfParent ==
    ASSUME NEW d \in DOMAIN caps
    PROVE  /\ d \in Lineage(d)
           /\ caps[d].parent # 0 => Lineage(caps[d].parent) \subseteq Lineage(d)
<1>1. d \in Lineage(d)
  BY DEF Lineage
<1>2. ASSUME caps[d].parent # 0, NEW a \in Lineage(caps[d].parent)
      PROVE  a \in Lineage(d)
  <2>1. ASSUME NEW S \in SUBSET DOMAIN caps, d \in S, ClosedUp(S)
        PROVE  a \in S
    <3>1. caps[d].parent \in S
      BY <1>2, <2>1 DEF ClosedUp
    <3> QED
      BY <2>1, <3>1, LineageLeast
  <2>2. a \in DOMAIN caps
    BY DEF Lineage
  <2> QED
    BY <2>1, <2>2 DEF Lineage
<1> QED
  BY <1>1, <1>2

\* What a cascade visits, seen from below: the live capabilities that have its
\* start in their lineage.
LEMMA CascadeIsSubtree ==
    ASSUME IInv, NEW c \in DOMAIN caps, Get(c)
    PROVE  Cascade(c) = {d \in DOMAIN caps : Get(d) /\ c \in Lineage(d)}
<1> DEFINE T == {d \in DOMAIN caps : Get(d) /\ c \in Lineage(d)}
<1>1. Cascade(c) \subseteq T
  <2>1. c \in T
    BY LineageOfParent
  <2>2. ASSUME NEW e \in DOMAIN caps, caps[e].parent \in T, ~caps[e].revoked
        PROVE  e \in T
    <3>1. caps[e].parent # 0
      BY <2>2 DEF IInv, TypeOK
    <3>2. c \in Lineage(e)
      BY <2>2, <3>1, LineageOfParent
    <3> QED
      BY <2>2, <3>2 DEF Get
  <2>3. ClosedDown(T)
    BY <2>2 DEF ClosedDown, LiveChildren
  <2> QED
    BY <2>1, <2>3 DEF Cascade
<1>2. ASSUME NEW d \in T
      PROVE  d \in Cascade(c)
  <2> DEFINE U == {x \in DOMAIN caps : Get(x) /\ x \notin Cascade(c)}
  <2>1. ClosedUp(U)
    <3> SUFFICES ASSUME NEW x \in U, caps[x].parent # 0
                 PROVE  caps[x].parent \in U
      BY DEF ClosedUp
    <3>1. caps[x].parent \in DOMAIN caps /\ Get(caps[x].parent)
      BY ParentInTable DEF IInv, RevocationClosed, Get
    <3>2. caps[x].parent \notin Cascade(c)
      BY CascadeClosed DEF ClosedDown, LiveChildren, Get
    <3> QED
      BY <3>1, <3>2
  <2>2. c \notin U
    BY CascadeClosed
  <2>3. d \notin U
    BY <2>1, <2>2, LineageLeast
  <2> QED
    BY <2>3
<1> QED
  BY <1>1, <1>2

\* A revocation takes exactly the live subtree of the capability it names.
THEOREM RevokeTheorem == Spec => RevokesWholeSubtree
<1> DEFINE R == {d \in DOMAIN caps : caps'[d].revoked /\ ~caps[d].revoked}
           Subtree(c) == {d \in DOMAIN caps : Get(d) /\ c \in Lineage(d)}
           Whole == R # {} => \E c \in R : R = Subtree(c)
<1>1. IInv /\ [Next]_caps => [Whole]_caps
  <2> SUFFICES ASSUME IInv, Next
               PROVE  Whole
    OBVIOUS
  <2>1. caps \in Seq(Capability) /\ DOMAIN caps = 1 .. Len(caps) /\ Len(caps) \in Nat
    BY DEF IInv, TypeOK
  <2>2. ASSUME NEW x, caps' = Append(caps, x)
        PROVE  Whole
    <3>1. \A d \in DOMAIN caps : caps'[d] = caps[d]
      BY <2>1, <2>2
    <3> QED
      BY <3>1
  <2>3. ASSUME NEW c \in DOMAIN caps, NEW t \in Tasks, Revoke(c, t)
        PROVE  Whole
    <3>1. Get(c) /\ \A d \in DOMAIN caps :
             caps'[d] = IF d \in Cascade(c) THEN [caps[d] EXCEPT !.revoked = TRUE]
                                            ELSE caps[d]
      BY <2>3 DEF Revoke
    <3>2. Cascade(c) = Subtree(c)
      BY <3>1, CascadeIsSubtree
    <3>3. \A d \in DOMAIN caps : caps[d] \in Capability
      BY <2>1
    <3>4. R = Subtree(c)
      BY <3>1, <3>2, <3>3 DEF Get, Capability
    <3>5. c \in R
      BY <3>1, <3>2, <3>4, CascadeClosed
    <3> QED
      BY <3>4, <3>5
  <2> QED
    BY <2>2, <2>3 DEF Next, CreateRoot, Delegate
<1> QED
  BY InductiveInvariant, <1>1, PTL DEF Spec, RevokesWholeSubtree

-----------------------------------------------------------------------------
(* The capability table under messages.                                    *)

\* What never changes of a capability, whatever happens to the table.
Keeps(c) ==
    /\ c \in DOMAIN caps'
    /\ caps'[c].parent = caps[c].parent /\ caps'[c].owner = caps[c].owner
    /\ caps'[c].permissions = caps[c].permissions
    /\ caps'[c].resource = caps[c].resource

\* A step of the table keeps all that is there.
LEMMA TableKeeps ==
    IInv /\ [Next]_caps => \A c \in DOMAIN caps : Keeps(c)
<1> SUFFICES ASSUME IInv, Next
             PROVE  \A c \in DOMAIN caps : Keeps(c)
  BY DEF Keeps
<1>1. caps \in Seq(Capability) /\ DOMAIN caps = 1 .. Len(caps) /\ Len(caps) \in Nat
  BY DEF IInv, TypeOK
<1>2. ASSUME NEW x, caps' = Append(caps, x)
      PROVE  \A c \in DOMAIN caps : Keeps(c)
  <2>1. \A c \in DOMAIN caps : c \in DOMAIN caps' /\ caps'[c] = caps[c]
    BY <1>1, <1>2
  <2> QED
    BY <2>1 DEF Keeps
<1>3. ASSUME NEW c \in DOMAIN caps, NEW t \in Tasks, Revoke(c, t)
      PROVE  \A d \in DOMAIN caps : Keeps(d)
  BY <1>1, <1>3 DEF Revoke, Keeps, Capability
<1> QED
  BY <1>2, <1>3 DEF Next, CreateRoot, Delegate

\* The delegation of an attached capability is one the table itself could make.
LEMMA TransferIsTableStep ==
    ASSUME IInv, NEW c, NEW s \in Tasks, NEW r \in Tasks, Transfer(c, s, r)
    PROVE  [Next]_caps
<1>1. CASE c = 0 /\ UNCHANGED caps
  BY <1>1
<1>2. CASE Get(c) /\ Delegate(c, s, r, caps[c].permissions, caps[c].resource)
  <2>1. c \in DOMAIN caps /\ caps[c] \in Capability
    BY <1>2 DEF Get, IInv, TypeOK
  <2> QED
    BY <1>2, <2>1 DEF Next, Capability
<1> QED
  BY <1>1, <1>2 DEF Transfer

\* A step of the system is a step of the table or leaves it alone.
LEMMA TableStep ==
    ASSUME IInv, [IpcNext]_allVars
    PROVE  [Next]_caps
<1>1. ASSUME NEW s \in Tasks, NEW r \in Tasks, NEW cap, NEW c, Send(s, r, cap, c)
      PROVE  [Next]_caps
  BY <1>1, TransferIsTableStep DEF Send
<1> QED
  BY <1>1 DEF IpcNext, allVars, RegisterMailbox, UnregisterMailbox, Block, Wake,
     Receive, CreateChannel, Subscribe, Unsubscribe, Publish

\* Messages leave the table's invariant alone.
LEMMA TableInvariant == IpcSpec => []IInv
<1>1. IpcInit => IInv
  BY InitInv DEF IpcInit
<1>2. IInv /\ [IpcNext]_allVars => IInv'
  BY TableStep, NextPreserves
<1> QED
  BY <1>1, <1>2, PTL DEF IpcSpec

\* With messages the table still implements its own specification.
THEOREM TableTheorem == IpcSpec => TableImplemented
<1>1. IpcInit => Init
  BY DEF IpcInit
<1>2. IInv /\ [IpcNext]_allVars => [caps' # caps => Next]_caps
  BY TableStep
<1> QED
  BY TableInvariant, <1>1, <1>2, PTL DEF IpcSpec, TableImplemented

-----------------------------------------------------------------------------
(* What the operations do to a queue of messages.                          *)

Message == [id : Nat, sender : Tasks, cap : Nat]

\* What a queue of messages is made of.
LEMMA QueueTyped ==
    ASSUME NEW q \in Seq(Message)
    PROVE  /\ DOMAIN q = 1 .. Len(q) /\ Len(q) \in Nat
           /\ \A i \in 1 .. Len(q) : q[i].id \in Nat /\ q[i].cap \in Nat
<1>1. DOMAIN q = 1 .. Len(q) /\ Len(q) \in Nat
  OBVIOUS
<1>2. \A i \in 1 .. Len(q) : q[i] \in Message
  OBVIOUS
<1>3. \A m \in Message : m.id \in Nat /\ m.cap \in Nat
  BY DEF Message
<1> QED
  BY <1>1, <1>2, <1>3

\* A queue stays in order when an unnumbered message, or one with the next
\* number, is appended.
LEMMA PushAscends ==
    ASSUME NEW q \in Seq(Message), NEW m \in Message, NEW lo \in Nat, NEW hi \in Nat,
           Ascends(q, lo, hi)
    PROVE  /\ m.id = 0 => Ascends(Append(q, m), lo, hi)
           /\ m.id = hi /\ lo < hi => Ascends(Append(q, m), lo, hi + 1)
<1>1. /\ \A i \in DOMAIN q : q[i].id \in Nat
      /\ DOMAIN q = 1 .. Len(q) /\ Len(q) \in Nat /\ m.id \in Nat
  BY QueueTyped DEF Message
<1>2. /\ DOMAIN Append(q, m) = 1 .. Len(q) + 1
      /\ \A i \in 1 .. Len(q) : Append(q, m)[i] = q[i]
      /\ Append(q, m)[Len(q) + 1] = m
  BY <1>1
<1>3. m.id = 0 => Ascends(Append(q, m), lo, hi)
  BY <1>1, <1>2 DEF Ascends
<1>4. m.id = hi /\ lo < hi => Ascends(Append(q, m), lo, hi + 1)
  BY <1>1, <1>2 DEF Ascends
<1> QED
  BY <1>3, <1>4

\* Handing out a number disturbs no queue.
LEMMA AscendsLater ==
    ASSUME NEW q \in Seq(Message), NEW lo \in Nat, NEW hi \in Nat, Ascends(q, lo, hi)
    PROVE  Ascends(q, lo, hi + 1)
<1>1. \A i \in DOMAIN q : q[i].id \in Nat
  BY QueueTyped
<1> QED
  BY <1>1 DEF Ascends

\* What is left of a queue is younger than the message that was taken.
LEMMA TailAscends ==
    ASSUME NEW q \in Seq(Message), NEW lo \in Nat, NEW hi \in Nat,
           Ascends(q, lo, hi), q # <<>>
    PROVE  Ascends(Tail(q), IF Head(q).id = 0 THEN lo ELSE Head(q).id, hi)
<1>1. /\ \A i \in DOMAIN q : q[i].id \in Nat
      /\ DOMAIN q = 1 .. Len(q) /\ Len(q) \in Nat \ {0} /\ Head(q) = q[1]
  BY QueueTyped
<1>2. /\ DOMAIN Tail(q) = 1 .. Len(q) - 1
      /\ \A i \in 1 .. Len(q) - 1 : Tail(q)[i] = q[i + 1]
  BY <1>1
<1> QED
  BY <1>1, <1>2 DEF Ascends

\* The queue is finite, so the messages that name a capability are.
LEMMA QueueNaming ==
    ASSUME NEW q \in Seq(Message), NEW c
    PROVE  IsFiniteSet(Naming(q, c)) /\ Cardinality(Naming(q, c)) \in Nat
<1>1. IsFiniteSet(1 .. Len(q))
  BY QueueTyped, FS_Interval
<1>2. Naming(q, c) \in SUBSET (1 .. Len(q))
  BY QueueTyped DEF Naming
<1> QED
  BY <1>1, <1>2, FS_Subset, FS_CardinalityType

\* Appending a message adds that one message if it names the capability.
LEMMA PushNaming ==
    ASSUME NEW q \in Seq(Message), NEW m \in Message, NEW c
    PROVE  /\ m.cap # c => Naming(Append(q, m), c) = Naming(q, c)
           /\ m.cap = c => Cardinality(Naming(Append(q, m), c))
                              = Cardinality(Naming(q, c)) + 1
<1>1. DOMAIN q = 1 .. Len(q) /\ Len(q) \in Nat
  OBVIOUS
<1>2. IsFiniteSet(Naming(q, c))
  BY QueueNaming
<1>4. /\ DOMAIN Append(q, m) = 1 .. Len(q) + 1
      /\ \A i \in 1 .. Len(q) : Append(q, m)[i] = q[i]
      /\ Append(q, m)[Len(q) + 1] = m
  BY <1>1
<1>5. m.cap # c => Naming(Append(q, m), c) = Naming(q, c)
  BY <1>1, <1>4 DEF Naming
<1>6. m.cap = c => Naming(Append(q, m), c) = Naming(q, c) \cup {Len(q) + 1}
  BY <1>1, <1>4 DEF Naming
<1>7. Len(q) + 1 \notin Naming(q, c)
  BY <1>1 DEF Naming
<1>8. Cardinality(Naming(q, c) \cup {Len(q) + 1}) = Cardinality(Naming(q, c)) + 1
  BY <1>2, <1>7, FS_AddElement
<1> QED
  BY <1>5, <1>6, <1>8

\* Taking the oldest message adds none.
LEMMA TailNaming ==
    ASSUME NEW q \in Seq(Message), q # <<>>, NEW c
    PROVE  Cardinality(Naming(Tail(q), c)) <= Cardinality(Naming(q, c))
<1> DEFINE A == Naming(Tail(q), c)
           B == Naming(q, c)
           next == [i \in A |-> i + 1]
<1>1. DOMAIN q = 1 .. Len(q) /\ Len(q) \in Nat \ {0}
  OBVIOUS
<1>2. /\ DOMAIN Tail(q) = 1 .. Len(q) - 1
      /\ \A i \in 1 .. Len(q) - 1 : Tail(q)[i] = q[i + 1]
  BY <1>1
<1>3. IsFiniteSet(B)
  BY QueueNaming
<1>4. A \subseteq Nat /\ \A i \in A : i + 1 \in B
  BY <1>1, <1>2 DEF Naming
<1>5. next \in [A -> B] /\ \A i, j \in A : next[i] = next[j] => i = j
  BY <1>4
<1>6. next \in Injection(A, B)
  BY <1>5 DEF Injection, IsInjective
<1> QED
  BY <1>3, <1>6, FS_Injection

-----------------------------------------------------------------------------
(* The inductive invariant, mailbox by mailbox.                            *)

\* The mailbox of t is a queue of messages that name capabilities of the table,
\* in order, and t was granted what they announce.
BoxOK(t) ==
    /\ boxes[t] \in Seq(Message)
    /\ \A i \in DOMAIN boxes[t] : boxes[t][i].cap \in DOMAIN caps \cup {0}
    /\ Ascends(boxes[t], lastRead[t], nextId)
    /\ \A c \in DOMAIN caps :
          Cardinality(Naming(boxes[t], c)) <= Cardinality(Grants(c, t))

\* No task has read a number that send has not handed out.
CountersOK ==
    /\ nextId \in Nat \ {0}
    /\ lastRead \in [Tasks -> Nat]
    /\ \A t \in Tasks : lastRead[t] < nextId

MailInv ==
    /\ CountersOK
    /\ DOMAIN boxes \subseteq Tasks
    /\ \A t \in DOMAIN boxes : BoxOK(t)

\* What a task was granted is finite and only grows.
LEMMA GrantsGrow ==
    ASSUME IInv, [Next]_caps, NEW t, NEW c
    PROVE  /\ IsFiniteSet(Grants(c, t)) /\ Cardinality(Grants(c, t)) \in Nat
           /\ IsFiniteSet(Grants(c, t)') /\ Cardinality(Grants(c, t)') \in Nat
           /\ c \in DOMAIN caps => /\ Grants(c, t) \subseteq Grants(c, t)'
                                   /\ Cardinality(Grants(c, t)) <= Cardinality(Grants(c, t)')
<1>1. IsFiniteSet(Grants(c, t))
  <2>1. Grants(c, t) \in SUBSET (1 .. Len(caps)) /\ Len(caps) \in Nat
    BY DEF Grants, TypeOK, IInv
  <2>2. IsFiniteSet(1 .. Len(caps))
    BY <2>1, FS_Interval
  <2> QED
    BY <2>1, <2>2, FS_Subset
<1>2. IsFiniteSet(Grants(c, t)')
  <2>1. TypeOK'
    BY NextPreserves DEF IInv
  <2>2. Grants(c, t)' \in SUBSET (1 .. Len(caps')) /\ Len(caps') \in Nat
    BY <2>1 DEF Grants, TypeOK
  <2>3. IsFiniteSet(1 .. Len(caps'))
    BY <2>2, FS_Interval
  <2> QED
    BY <2>2, <2>3, FS_Subset
<1>3. c \in DOMAIN caps => Grants(c, t) \subseteq Grants(c, t)'
  BY TableKeeps DEF Grants, Keeps
<1> QED
  BY <1>1, <1>2, <1>3, FS_Subset, FS_CardinalityType

\* Messages that stay in a queue stay covered by grants, whatever happens to the
\* table: no message names a capability before it exists.
LEMMA CoverKept ==
    ASSUME IInv, [Next]_caps, NEW t, NEW q \in Seq(Message),
           \A i \in DOMAIN q : q[i].cap \in DOMAIN caps \cup {0},
           \A c \in DOMAIN caps : Cardinality(Naming(q, c)) <= Cardinality(Grants(c, t))
    PROVE  \A c \in DOMAIN caps' : Cardinality(Naming(q, c)) <= Cardinality(Grants(c, t)')
<1> SUFFICES ASSUME NEW c \in DOMAIN caps'
             PROVE  Cardinality(Naming(q, c)) <= Cardinality(Grants(c, t)')
  OBVIOUS
<1>1. Cardinality(Grants(c, t)) \in Nat /\ Cardinality(Grants(c, t)') \in Nat
  BY GrantsGrow
<1>2. CASE c \in DOMAIN caps
  <2>1. Cardinality(Naming(q, c)) \in Nat
    BY QueueNaming
  <2>2. Cardinality(Grants(c, t)) <= Cardinality(Grants(c, t)')
    BY <1>2, GrantsGrow
  <2> QED
    BY <1>1, <1>2, <2>1, <2>2
<1>3. CASE c \notin DOMAIN caps
  <2>1. c # 0
    BY NextPreserves DEF IInv, TypeOK
  <2>2. Naming(q, c) = {}
    BY <1>3, <2>1 DEF Naming
  <2> QED
    BY <1>1, <2>2, FS_EmptySet
<1> QED
  BY <1>2, <1>3

\* A mailbox a step leaves alone, whatever happens to the table.
LEMMA QuietBox ==
    ASSUME IInv, [Next]_caps, CountersOK, NEW t \in Tasks, BoxOK(t),
           boxes'[t] = boxes[t], lastRead'[t] = lastRead[t],
           nextId' \in {nextId, nextId + 1}
    PROVE  BoxOK(t)'
<1>1. boxes[t] \in Seq(Message) /\ lastRead[t] \in Nat /\ nextId \in Nat
  BY DEF BoxOK, CountersOK
<1>2. \A i \in DOMAIN boxes[t] : boxes[t][i].cap \in DOMAIN caps' \cup {0}
  BY TableKeeps DEF BoxOK, Keeps
<1>3. Ascends(boxes[t], lastRead[t], nextId')
  BY <1>1, AscendsLater DEF BoxOK
<1>4. \A c \in DOMAIN caps' : Cardinality(Naming(boxes[t], c)) <= Cardinality(Grants(c, t)')
  BY CoverKept DEF BoxOK
<1> QED
  BY <1>1, <1>2, <1>3, <1>4 DEF BoxOK

\* A new mailbox.
LEMMA NewBox ==
    ASSUME IInv, [Next]_caps, NEW t \in Tasks, boxes'[t] = <<>>
    PROVE  BoxOK(t)'
<1>1. boxes'[t] \in Seq(Message) /\ DOMAIN boxes'[t] = {}
  OBVIOUS
<1>2. ASSUME NEW c
      PROVE  Cardinality(Naming(boxes'[t], c)) <= Cardinality(Grants(c, t)')
  <2>1. Cardinality(Naming(boxes'[t], c)) = 0
    BY <1>1, FS_EmptySet DEF Naming
  <2>2. Cardinality(Grants(c, t)') \in Nat
    BY GrantsGrow
  <2> QED
    BY <2>1, <2>2
<1>3. Ascends(boxes'[t], lastRead'[t], nextId')
  BY <1>1 DEF Ascends
<1> QED
  BY <1>1, <1>2, <1>3 DEF BoxOK

\* A mailbox that receive takes the oldest message from.
LEMMA TakeBox ==
    ASSUME IInv, [Next]_caps, CountersOK, NEW t \in Tasks, BoxOK(t), boxes[t] # <<>>,
           boxes'[t] = Tail(boxes[t]), nextId' = nextId,
           lastRead'[t] = IF Head(boxes[t]).id = 0 THEN lastRead[t] ELSE Head(boxes[t]).id
    PROVE  BoxOK(t)'
<1> DEFINE q == boxes[t]
<1>1. q \in Seq(Message) /\ lastRead[t] \in Nat /\ nextId \in Nat
  BY DEF BoxOK, CountersOK
<1>2. /\ Tail(q) \in Seq(Message) /\ DOMAIN q = 1 .. Len(q) /\ Len(q) \in Nat
      /\ DOMAIN Tail(q) = 1 .. Len(q) - 1
      /\ \A i \in 1 .. Len(q) - 1 : Tail(q)[i] = q[i + 1]
  BY <1>1
<1>3. \A i \in DOMAIN Tail(q) : Tail(q)[i].cap \in DOMAIN caps \cup {0}
  BY <1>2 DEF BoxOK
<1>4. Ascends(Tail(q), lastRead'[t], nextId')
  BY <1>1, TailAscends DEF BoxOK
<1>5. ASSUME NEW c \in DOMAIN caps
      PROVE  Cardinality(Naming(Tail(q), c)) <= Cardinality(Grants(c, t))
  <2>1. Cardinality(Naming(Tail(q), c)) \in Nat /\ Cardinality(Naming(q, c)) \in Nat
    BY <1>1, <1>2, QueueNaming
  <2>2. Cardinality(Grants(c, t)) \in Nat
    BY GrantsGrow
  <2> QED
    BY <1>1, <2>1, <2>2, TailNaming DEF BoxOK
<1>6. \A c \in DOMAIN caps' : Cardinality(Naming(Tail(q), c)) <= Cardinality(Grants(c, t)')
  BY <1>2, <1>3, <1>5, CoverKept
<1>7. \A i \in DOMAIN Tail(q) : Tail(q)[i].cap \in DOMAIN caps' \cup {0}
  BY <1>3, TableKeeps DEF Keeps
<1> QED
  BY <1>2, <1>4, <1>6, <1>7 DEF BoxOK

\* Transfer of a capability adds a grant for the recipient.
LEMMA TransferGrants ==
    ASSUME IInv, NEW c, NEW s \in Tasks, NEW r \in Tasks, Transfer(c, s, r), c # 0
    PROVE  /\ c \in DOMAIN caps
           /\ Cardinality(Grants(c, r)) + 1 <= Cardinality(Grants(c, r)')
<1> DEFINE n == Len(caps) + 1
<1>1. /\ caps \in Seq(Capability) /\ Len(caps) \in Nat
      /\ DOMAIN caps = 1 .. Len(caps)
      /\ \A d \in DOMAIN caps : caps[d] \in Capability
  BY DEF IInv, TypeOK
<1>2. /\ c \in DOMAIN caps
      /\ caps' = Append(caps, NewCap(caps[c].resource, caps[c].permissions, r, c))
  BY DEF Transfer, Delegate, Get
<1>3. NewCap(caps[c].resource, caps[c].permissions, r, c) \in Capability
  BY <1>1, <1>2 DEF NewCap, Capability
<1>4. /\ DOMAIN caps' = 1 .. n
      /\ caps'[c] = caps[c]
      /\ caps'[n] = NewCap(caps[c].resource, caps[c].permissions, r, c)
  BY <1>1, <1>2, <1>3
<1>5. n \in Grants(c, r)' /\ n \notin Grants(c, r)
  BY <1>1, <1>4 DEF Grants, NewCap
<1>6. [Next]_caps
  BY TransferIsTableStep
<1>7. /\ IsFiniteSet(Grants(c, r)) /\ Cardinality(Grants(c, r)) \in Nat
      /\ IsFiniteSet(Grants(c, r)')
      /\ Grants(c, r) \cup {n} \in SUBSET Grants(c, r)'
  BY <1>2, <1>5, <1>6, GrantsGrow
<1>8. Cardinality(Grants(c, r) \cup {n}) = Cardinality(Grants(c, r)) + 1
  BY <1>5, <1>7, FS_AddElement
<1>9. Cardinality(Grants(c, r) \cup {n}) <= Cardinality(Grants(c, r)')
  BY <1>7, FS_Subset
<1> QED
  BY <1>2, <1>8, <1>9

\* A mailbox that gets a message: an unnumbered one without a capability, or the
\* next numbered one, whose capability, if any, was granted in the same step.
LEMMA PushBox ==
    ASSUME IInv, [Next]_caps, CountersOK, NEW t \in Tasks, BoxOK(t),
           NEW m \in Message, boxes'[t] = Append(boxes[t], m),
           lastRead'[t] = lastRead[t],
           \/ m.id = 0 /\ nextId' = nextId
           \/ m.id = nextId /\ nextId' = nextId + 1,
           m.cap # 0 => /\ m.cap \in DOMAIN caps
                        /\ Cardinality(Grants(m.cap, t)) + 1 <= Cardinality(Grants(m.cap, t)')
    PROVE  BoxOK(t)'
<1> DEFINE q == boxes[t]
           p == Append(boxes[t], m)
<1>1. q \in Seq(Message) /\ lastRead[t] \in Nat /\ nextId \in Nat /\ lastRead[t] < nextId
  BY DEF BoxOK, CountersOK
<1>2. /\ p \in Seq(Message) /\ DOMAIN q = 1 .. Len(q) /\ Len(q) \in Nat
      /\ DOMAIN p = 1 .. Len(q) + 1
      /\ \A i \in 1 .. Len(q) : p[i] = q[i]
      /\ p[Len(q) + 1] = m
  BY <1>1
<1>3. \A i \in DOMAIN p : p[i].cap \in DOMAIN caps \cup {0}
  BY <1>2 DEF BoxOK
<1>4. \A i \in DOMAIN p : p[i].cap \in DOMAIN caps' \cup {0}
  BY <1>3, TableKeeps DEF Keeps
<1>5. Ascends(p, lastRead[t], nextId')
  BY <1>1, PushAscends DEF BoxOK
<1>6. \A c \in DOMAIN caps' : Cardinality(Naming(q, c)) <= Cardinality(Grants(c, t)')
  BY <1>1, CoverKept DEF BoxOK
<1>7. ASSUME NEW c \in DOMAIN caps'
      PROVE  Cardinality(Naming(p, c)) <= Cardinality(Grants(c, t)')
  <2>1. CASE m.cap # c
    BY <1>1, <1>6, <2>1, PushNaming
  <2>2. CASE m.cap = c
    <3>1. c # 0
      BY NextPreserves DEF IInv, TypeOK
    <3>2. /\ c \in DOMAIN caps
          /\ Cardinality(Grants(c, t)) + 1 <= Cardinality(Grants(c, t)')
      BY <2>2, <3>1
    <3>3. Cardinality(Naming(p, c)) = Cardinality(Naming(q, c)) + 1
      BY <1>1, <2>2, PushNaming
    <3>4. /\ Cardinality(Naming(q, c)) \in Nat /\ Cardinality(Grants(c, t)) \in Nat
          /\ Cardinality(Grants(c, t)') \in Nat
      BY <1>1, QueueNaming, GrantsGrow
    <3>5. Cardinality(Naming(q, c)) <= Cardinality(Grants(c, t))
      BY <3>2 DEF BoxOK
    <3> QED
      BY <3>2, <3>3, <3>4, <3>5
  <2> QED
    BY <2>1, <2>2
<1> QED
  BY <1>2, <1>4, <1>5, <1>7 DEF BoxOK

\* An empty system satisfies the invariant.
LEMMA MailInit == IpcInit => MailInv
BY DEF IpcInit, MailInv, CountersOK

\* Every step keeps every mailbox as it should be.
LEMMA MailPreserved == IInv /\ MailInv /\ [IpcNext]_allVars => MailInv'
<1> SUFFICES ASSUME IInv, MailInv, [IpcNext]_allVars
             PROVE  MailInv'
  OBVIOUS
<1>1. [Next]_caps
  BY TableStep
<1>2. CountersOK /\ DOMAIN boxes \subseteq Tasks /\ \A t \in DOMAIN boxes : BoxOK(t)
  BY DEF MailInv
<1>3. CASE UNCHANGED <<boxes, nextId, lastRead>>
  <2>1. ASSUME NEW t \in DOMAIN boxes
        PROVE  BoxOK(t)'
    BY <1>1, <1>2, <1>3, <2>1, QuietBox
  <2> QED
    BY <1>2, <1>3, <2>1 DEF MailInv, CountersOK
<1>4. ASSUME NEW t \in Tasks, RegisterMailbox(t)
      PROVE  MailInv'
  <2>1. /\ DOMAIN boxes' = DOMAIN boxes \cup {t} /\ boxes'[t] = <<>>
        /\ \A u \in DOMAIN boxes \ {t} : boxes'[u] = boxes[u]
        /\ nextId' = nextId /\ lastRead' = lastRead
    BY <1>4 DEF RegisterMailbox
  <2>2. BoxOK(t)'
    BY <1>1, <2>1, NewBox
  <2>3. \A u \in DOMAIN boxes \ {t} : BoxOK(u)'
    BY <1>1, <1>2, <2>1, QuietBox
  <2> QED
    BY <1>2, <2>1, <2>2, <2>3 DEF MailInv, CountersOK
<1>5. ASSUME NEW t \in Tasks, UnregisterMailbox(t)
      PROVE  MailInv'
  <2>1. /\ DOMAIN boxes' = DOMAIN boxes \ {t}
        /\ \A u \in DOMAIN boxes' : boxes'[u] = boxes[u]
        /\ nextId' = nextId /\ lastRead' = lastRead
    BY <1>5 DEF UnregisterMailbox, Restrict
  <2>2. \A u \in DOMAIN boxes' : BoxOK(u)'
    BY <1>1, <1>2, <2>1, QuietBox
  <2> QED
    BY <1>2, <2>1, <2>2 DEF MailInv, CountersOK
<1>6. ASSUME NEW t \in Tasks, Receive(t)
      PROVE  MailInv'
  <2>1. /\ t \in DOMAIN boxes /\ boxes[t] # <<>>
        /\ DOMAIN boxes' = DOMAIN boxes /\ boxes'[t] = Tail(boxes[t])
        /\ \A u \in DOMAIN boxes : u # t => boxes'[u] = boxes[u]
        /\ nextId' = nextId
        /\ lastRead' = [lastRead EXCEPT ![t] = IF Head(boxes[t]).id = 0 THEN @
                                               ELSE Head(boxes[t]).id]
    BY <1>6 DEF Receive, Able
  <2>2. BoxOK(t)'
    BY <1>1, <1>2, <2>1, TakeBox DEF CountersOK
  <2>3. \A u \in DOMAIN boxes : u # t => BoxOK(u)'
    BY <1>1, <1>2, <2>1, QuietBox DEF CountersOK
  <2>4. Head(boxes[t]).id \in Nat /\ Head(boxes[t]).id < nextId
    <3>1. boxes[t] \in Seq(Message) /\ Ascends(boxes[t], lastRead[t], nextId)
      BY <1>2, <2>1 DEF BoxOK
    <3>2. Head(boxes[t]) = boxes[t][1] /\ 1 \in DOMAIN boxes[t]
      BY <2>1, <3>1
    <3> QED
      BY <1>2, <3>1, <3>2, QueueTyped DEF Ascends, CountersOK
  <2>5. CountersOK'
    BY <1>2, <2>1, <2>4 DEF CountersOK
  <2> QED
    BY <1>2, <2>1, <2>2, <2>3, <2>5 DEF MailInv
<1>7. ASSUME NEW s \in Tasks, NEW r \in Tasks, NEW cap, NEW c \in CapIds \cup {0},
             Send(s, r, cap, c)
      PROVE  MailInv'
  <2> DEFINE m == [id |-> nextId, sender |-> s, cap |-> c]
  <2>1. Transfer(c, s, r) /\ nextId' = nextId + 1 /\ lastRead' = lastRead
    BY <1>7 DEF Send
  <2>2. CountersOK'
    BY <1>2, <2>1 DEF CountersOK
  <2>3. CASE Accepts(r)
    <3>1. /\ r \in DOMAIN boxes /\ DOMAIN boxes' = DOMAIN boxes
          /\ boxes'[r] = Append(boxes[r], m)
          /\ \A u \in DOMAIN boxes : u # r => boxes'[u] = boxes[u]
      BY <1>7, <2>3 DEF Send, Push, Accepts
    <3>2. m \in Message
      BY <1>2, MaxCapsAssumption DEF Message, CapIds, CountersOK
    <3>3. c # 0 => /\ c \in DOMAIN caps
                   /\ Cardinality(Grants(c, r)) + 1 <= Cardinality(Grants(c, r)')
      BY <2>1, TransferGrants
    <3>4. BoxOK(r)'
      BY <1>1, <1>2, <2>1, <3>1, <3>2, <3>3, PushBox
    <3>5. \A u \in DOMAIN boxes : u # r => BoxOK(u)'
      BY <1>1, <1>2, <2>1, <3>1, QuietBox
    <3> QED
      BY <1>2, <2>2, <3>1, <3>4, <3>5 DEF MailInv
  <2>4. CASE ~Accepts(r)
    <3>1. boxes' = boxes
      BY <1>7, <2>4 DEF Send
    <3>2. \A u \in DOMAIN boxes : BoxOK(u)'
      BY <1>1, <1>2, <2>1, <3>1, QuietBox
    <3> QED
      BY <1>2, <2>2, <3>1, <3>2 DEF MailInv
  <2> QED
    BY <2>3, <2>4
<1>8. ASSUME NEW n, NEW s \in Tasks, NEW cap, Publish(n, s, cap)
      PROVE  MailInv'
  <2> DEFINE m == [id |-> 0, sender |-> s, cap |-> 0]
  <2>1. /\ DOMAIN boxes' = DOMAIN boxes
        /\ \A t \in DOMAIN boxes : boxes'[t] \in {Append(boxes[t], m), boxes[t]}
        /\ nextId' = nextId /\ lastRead' = lastRead
    BY <1>8 DEF Publish
  <2>2. m \in Message
    BY DEF Message
  <2>3. ASSUME NEW t \in DOMAIN boxes
        PROVE  BoxOK(t)'
    BY <1>1, <1>2, <2>1, <2>2, <2>3, PushBox, QuietBox
  <2> QED
    BY <1>2, <2>1, <2>3 DEF MailInv, CountersOK
<1> QED
  BY <1>3, <1>4, <1>5, <1>6, <1>7, <1>8 DEF IpcNext, allVars, ipcVars, Block, Wake,
     CreateChannel, Subscribe, Unsubscribe

\* Every reachable state satisfies the inductive invariant.
LEMMA MailInvariant == IpcSpec => []MailInv
BY TableInvariant, MailInit, MailPreserved, PTL DEF IpcSpec

\* Messages are delivered in the order send numbered them.
THEOREM OrderTheorem == IpcSpec => []DeliveryOrder
<1>1. MailInv => DeliveryOrder
  BY DEF MailInv, BoxOK, DeliveryOrder
<1> QED
  BY MailInvariant, <1>1, PTL

\* No message announces a capability its recipient was not granted.
THEOREM TransferTheorem == IpcSpec => []TransferArrivesWithRights
<1>1. MailInv => TransferArrivesWithRights
  BY DEF MailInv, BoxOK, TransferArrivesWithRights
<1> QED
  BY MailInvariant, <1>1, PTL

-----------------------------------------------------------------------------
(* Channels.                                                               *)

\* A subscription is made with a capability that allows it, once per task; the
\* table keeps that capability's owner and permissions for good.
LEMMA SubscriptionsPreserved ==
    IInv /\ SubscriptionsGranted /\ [IpcNext]_allVars => SubscriptionsGranted'
<1> SUFFICES ASSUME IInv, SubscriptionsGranted, [IpcNext]_allVars
             PROVE  SubscriptionsGranted'
  OBVIOUS
<1> DEFINE Granted(s) == /\ s.cap \in DOMAIN caps
                         /\ caps[s.cap].owner = s.task
                         /\ HasPerms(caps[s.cap].permissions, {"SUBSCRIBE"})
           Once(S) == \A s, u \in S : u.task = s.task => u = s
<1>1. [Next]_caps
  BY TableStep
<1>2. ASSUME NEW s, Granted(s)
      PROVE  Granted(s)'
  <2>1. Keeps(s.cap)
    BY <1>1, <1>2, TableKeeps
  <2> QED
    BY <1>2, <2>1 DEF Keeps
<1>3. /\ \A n \in DOMAIN subs : Once(subs[n])
      /\ \A n \in DOMAIN subs : \A s \in subs[n] : Granted(s)
  BY DEF SubscriptionsGranted
<1>4. SUFFICES \A n \in DOMAIN subs' : Once(subs'[n]) /\ \A s \in subs'[n] : Granted(s)'
  BY DEF SubscriptionsGranted
<1>5. CASE UNCHANGED subs
  BY <1>2, <1>3, <1>5
<1>6. ASSUME NEW n, CreateChannel(n)
      PROVE  \A m \in DOMAIN subs' : Once(subs'[m]) /\ \A s \in subs'[m] : Granted(s)'
  BY <1>2, <1>3, <1>6 DEF CreateChannel
<1>7. ASSUME NEW n, NEW t, Unsubscribe(n, t)
      PROVE  \A m \in DOMAIN subs' : Once(subs'[m]) /\ \A s \in subs'[m] : Granted(s)'
  BY <1>2, <1>3, <1>7 DEF Unsubscribe
<1>8. ASSUME NEW n, NEW t, NEW cap, Subscribe(n, t, cap)
      PROVE  \A m \in DOMAIN subs' : Once(subs'[m]) /\ \A s \in subs'[m] : Granted(s)'
  <2> DEFINE new == [task |-> t, cap |-> cap]
  <2>1. Granted(new)
    BY <1>8 DEF Subscribe, Validate, Get
  <2>2. \A s \in subs[n] : s.task # new.task
    BY <1>8 DEF Subscribe
  <2>3. /\ n \in DOMAIN subs /\ DOMAIN subs' = DOMAIN subs
        /\ subs'[n] = subs[n] \cup {new}
        /\ \A m \in DOMAIN subs : m # n => subs'[m] = subs[m]
    BY <1>8 DEF Subscribe
  <2>4. Once(subs'[n])
    BY <1>3, <2>2, <2>3
  <2>5. \A s \in subs'[n] : Granted(s)'
    BY <1>2, <1>3, <2>1, <2>3
  <2> QED
    BY <1>2, <1>3, <2>3, <2>4, <2>5
<1> QED
  BY <1>5, <1>6, <1>7, <1>8 DEF IpcNext, allVars, ipcVars, RegisterMailbox,
     UnregisterMailbox, Block, Wake, Receive, Send, Publish

\* A subscriber had the right to subscribe, and gets a published message once.
THEOREM SubscriptionTheorem == IpcSpec => []SubscriptionsGranted
<1>1. IpcInit => SubscriptionsGranted
  BY DEF IpcInit, SubscriptionsGranted
<1> QED
  BY TableInvariant, SubscriptionsPreserved, <1>1, PTL DEF IpcSpec
=============================================================================
