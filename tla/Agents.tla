------------------------------- MODULE Agents -------------------------------
(***************************************************************************)
(* The agent registry and its supervision tree: agent/registry.rs,         *)
(* agent/lifecycle.rs and agent/supervisor.rs.                             *)
(*                                                                         *)
(* The functions call each other (kill its children's kill, kill notify,   *)
(* notify escalate, escalate kill) and take the REGISTRY lock for single   *)
(* accesses only; no thread is switched in between, so a call is one step, *)
(* but its parts see what the parts before them left.  They are operators  *)
(* from registry to registry here.  A task's own life is in Scheduler:     *)
(* killing an agent leaves its task alone.  No id comes back: a spawn with *)
(* a recycled one halts the kernel (Scheduler, SpawnPanics).               *)
(*                                                                         *)
(* spawn does not check the parent's id.  Here it is that of an agent that *)
(* was spawned before, registered or gone, or none, as at every caller in  *)
(* main.rs; an agent that named itself, or an id yet to come, could be its *)
(* own ancestor, and kill would not return.                                *)
(***************************************************************************)
EXTENDS Integers, Sequences, SequencesExt, FiniteSets, TLC

CONSTANTS Names,         \* agent names
          Policies,      \* restart policies in use
          MAX_CHILDREN,  \* resource_limits.max_children
          MAX_RESTARTS,
          MaxAgents      \* bound on the agents ever spawned

ASSUME AgentsAssumption ==
    /\ Policies \subseteq {"RestartOne", "RestartAll", "Escalate", "Permanent"}
    /\ MAX_CHILDREN \in Nat /\ MAX_RESTARTS \in Nat /\ MaxAgents \in Nat

VARIABLES reg,      \* REGISTRY: agents by id, name_index
          spawned,  \* history: the name of every agent ever spawned, by id
          named     \* history: the agent that the last kill named, 0 for none

vars == <<reg, spawned, named>>

Agent == [name : Names, policy : Policies, state : {"Running", "Suspended", "Dead"},
          parent : 0 .. MaxAgents, children : Seq(1 .. MaxAgents), restarts : Nat]

NameSymmetry == Permutations(Names)

Init == /\ reg = [agents |-> <<>>, names |-> <<>>]
        /\ spawned = <<>> /\ named = 0

Has(r, a) == a \in DOMAIN r.agents

\* find_by_name, 0 for None.
FindByName(n) == IF n \in DOMAIN reg.names THEN reg.names[n] ELSE 0

-----------------------------------------------------------------------------
(* Spawning.                                                               *)

Register(r, a, agent) ==
    [agents |-> r.agents @@ (a :> agent), names |-> (agent.name :> a) @@ r.names]

AddChild(r, p, a) ==
    IF Has(r, p) THEN [r EXCEPT !.agents[p].children = Append(@, a)] ELSE r

\* spawn: a parent that is registered limits its children; one that is not is
\* recorded all the same.
Spawn(p, n, policy) ==
    /\ Len(spawned) < MaxAgents
    /\ Has(reg, p) => Len(reg.agents[p].children) < MAX_CHILDREN
    /\ LET a     == Len(spawned) + 1
           agent == [name |-> n, policy |-> policy, state |-> "Running",
                     parent |-> p, children |-> <<>>, restarts |-> 0]
       IN  reg' = AddChild(Register(reg, a, agent), p, a)
    /\ spawned' = Append(spawned, n)
    /\ named' = 0

-----------------------------------------------------------------------------
(* Killing and supervision.                                                *)

\* Mutant of Unregister: the name index keeps its entry.
UnregisterKeepsName(r, a) ==
    [r EXCEPT !.agents = Restrict(@, DOMAIN @ \ {a})]

Unregister(r, a) ==
    IF ~Has(r, a) THEN r
    ELSE [agents |-> Restrict(r.agents, DOMAIN r.agents \ {a}),
          names  |-> Restrict(r.names, DOMAIN r.names \ {r.agents[a].name})]

\* Mutant of RemoveChild: the dead child stays in its parent's list.
RemoveChildNot(r, p, a) == r

RemoveChild(r, p, a) ==
    IF Has(r, p)
    THEN [r EXCEPT !.agents[p].children = SelectSeq(@, LAMBDA c : c # a)]
    ELSE r

\* Mutant of Response: a Permanent parent escalates.
ResponsePermanent(agent) ==
    IF agent.restarts >= MAX_RESTARTS \/ agent.policy \in {"Escalate", "Permanent"}
    THEN "escalate" ELSE "count"

\* What a parent does about a dead child.  Both restart policies only count.
Response(agent) ==
    CASE agent.restarts >= MAX_RESTARTS -> "escalate"
      [] agent.policy = "Escalate"      -> "escalate"
      [] agent.policy = "Permanent"     -> "ignore"
      [] OTHER                          -> "count"

RECURSIVE Kill(_, _), NotifyChildDeath(_, _), Escalate(_, _)

\* kill: mark, kill the children that were there at the start, leave the
\* parent's list and the registry, notify the parent.
Kill(r, a) ==
    IF ~Has(r, a) THEN r
    ELSE LET p       == r.agents[a].parent
             marked  == [r EXCEPT !.agents[a].state = "Dead"]
             without == FoldLeft(Kill, marked, r.agents[a].children)
         IN  NotifyChildDeath(Unregister(RemoveChild(without, p, a), a), p)

\* notify_child_death for parent p.
NotifyChildDeath(r, p) ==
    IF ~Has(r, p) THEN r
    ELSE CASE Response(r.agents[p]) = "escalate" -> Escalate(r, p)
           [] Response(r.agents[p]) = "count"    -> [r EXCEPT !.agents[p].restarts = @ + 1]
           [] OTHER                              -> r

\* escalate: kill the agent, which notifies its parent, and notify it again.
Escalate(r, a) == NotifyChildDeath(Kill(r, a), r.agents[a].parent)

KillAgent(a) ==
    /\ Has(reg, a)
    /\ reg' = Kill(reg, a)
    /\ named' = a
    /\ UNCHANGED spawned

SetState(a, s) ==
    /\ Has(reg, a)
    /\ reg' = [reg EXCEPT !.agents[a].state = s]
    /\ named' = 0
    /\ UNCHANGED spawned

Suspend(a) == SetState(a, "Suspended")

Resume(a) == SetState(a, "Running")

Next ==
    \/ \E p \in 0 .. Len(spawned), n \in Names, policy \in Policies : Spawn(p, n, policy)
    \/ \E a \in DOMAIN spawned : KillAgent(a) \/ Suspend(a) \/ Resume(a)

Spec == Init /\ [][Next]_vars

-----------------------------------------------------------------------------
(* Properties.                                                             *)

\* Between two calls the registry is a forest with its links in step in both
\* directions, although kill edits it while it walks it and may be re-entered
\* for an agent it is busy killing: each child is listed once, by the parent it
\* names; nothing half-killed is left behind; no parent has more children than
\* it may have nor counted more restarts than the limit.
TreeConsistent ==
    \A a \in DOMAIN reg.agents :
        LET A == reg.agents[a]
        IN  /\ A \in Agent /\ A.state # "Dead"
            /\ A.parent < a
            /\ Has(reg, A.parent) => Contains(reg.agents[A.parent].children, a)
            /\ IsInjective(A.children)
            /\ \A c \in Range(A.children) : Has(reg, c) /\ reg.agents[c].parent = a
            /\ Len(A.children) <= MAX_CHILDREN
            /\ A.restarts <= MAX_RESTARTS

RECURSIVE PathUp(_, _)
\* a and its ancestors as far as they are registered in r.
PathUp(r, a) == IF Has(r, a) THEN {a} \cup PathUp(r, r.agents[a].parent) ELSE {}

Subtree(r, a) == {d \in DOMAIN r.agents : a \in PathUp(r, d)}

\* A kill takes exactly one subtree: that of the agent it named or, when the
\* failure escalates, that of one of its ancestors, and then every agent on the
\* way up passed the failure on, which a Permanent one never does.  No agent
\* survives its supervisor's death and none beside the subtree is touched.
KillTakesOneSubtree ==
    [][LET gone == DOMAIN reg.agents \ DOMAIN reg'.agents
       IN  gone # {} =>
           \E top \in PathUp(reg, named') :
               /\ gone = Subtree(reg, top)
               /\ \A x \in (PathUp(reg, named') \ PathUp(reg, top)) \cup {top} :
                     x # named' => reg.agents[x].policy # "Permanent"
               /\ \A x \in DOMAIN reg'.agents :
                     \/ reg'.agents[x] = reg.agents[x]
                     \/ x \in PathUp(reg, top)]_vars

\* The name index is right and, for names that were given only once, complete:
\* an entry leads to a registered agent of that name, and an agent whose name
\* no other agent ever had is found.  (With two agents of one name the death of
\* either hides the other.)
NameIndexSound ==
    /\ \A n \in DOMAIN reg.names :
          Has(reg, reg.names[n]) /\ reg.agents[reg.names[n]].name = n
    /\ \A a \in DOMAIN reg.agents :
          (\A b \in DOMAIN spawned : spawned[b] = spawned[a] => b = a)
             => FindByName(reg.agents[a].name) = a
=============================================================================
