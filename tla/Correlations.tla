---------------------------- MODULE Correlations ----------------------------
(***************************************************************************)
(* Outages tagged with the outage that caused them                            *)
(* (outage_correlation_tag.rs).  A tag names a parent, which need not be       *)
(* tagged itself, and may be replaced; a second map lists the children of a     *)
(* parent, and a child that moves stays in the list of its former parent.      *)
(***************************************************************************)
EXTENDS Integers, FiniteSets, FiniteSetsExt

CONSTANTS
    Tagged,           \* outages
    Downtimes,        \* downtimes tried
    NoParent,         \* parent_outage_id is None
    MAX_CORRELATION_DEPTH   \* 64 in the code

ASSUME CorrelationAssumption ==
    /\ IsFiniteSet(Tagged) /\ NoParent \notin Tagged /\ Downtimes \subseteq Nat
    /\ MAX_CORRELATION_DEPTH \in Nat

VARIABLES
    tags,             \* CORRELATION_INDEX
    children          \* CHILD_INDEX: the children listed for each parent

correlationVars == <<tags, children>>

Untagged == [parent |-> NoParent, downtime_seconds |-> -1]
OutageTag == [parent : Tagged \cup {NoParent}, downtime_seconds : Downtimes]

IsTagged(outage) == tags[outage] # Untagged
ParentOf(outage) == tags[outage].parent

-----------------------------------------------------------------------------
(* Walks along the parents.                                                *)

\* The outage reached from `outage' by at most `depth' steps to a parent.
Climb(outage, depth) ==
    LET climbed[d \in 0..depth] ==
          IF d = 0 THEN outage
            ELSE LET below == climbed[d - 1]
                 IN  IF ParentOf(below) = NoParent THEN below ELSE ParentOf(below)
    IN  climbed[depth]

resolve_root(outage) == Climb(outage, MAX_CORRELATION_DEPTH)

\* Whether the walk from `start' meets `target'.  The walk has no depth limit;
\* it ends because the tags have no cycle, after as many steps as outages.
ancestry_contains(start, target) ==
    \E depth \in 0..Cardinality(Tagged) : Climb(start, depth) = target

\* The outages above one, itself left out.
Ancestors(outage) == {a \in Tagged \ {outage} : ancestry_contains(outage, a)}

would_create_cycle(outage, parent) == ancestry_contains(parent, outage)

children_of(parent) == children[parent]

group_by_root == [root \in {resolve_root(o) : o \in {t \in Tagged : IsTagged(t)}} |->
                    {o \in Tagged : IsTagged(o) /\ resolve_root(o) = root}]

aggregate_root_downtime(root) ==
    IF root \in DOMAIN group_by_root
      THEN MapThenSumSet(LAMBDA o : tags[o].downtime_seconds, group_by_root[root]) ELSE 0

-----------------------------------------------------------------------------
TagOutage(outage, parent, downtime) ==
    /\ parent # outage
    /\ parent # NoParent => ~would_create_cycle(outage, parent)
    /\ tags' = [tags EXCEPT ![outage] = [parent |-> parent, downtime_seconds |-> downtime]]
    /\ children' = IF parent = NoParent THEN children
                     ELSE [children EXCEPT ![parent] = @ \cup {outage}]

CorrelationInit ==
    /\ tags = [outage \in Tagged |-> Untagged]
    /\ children = [outage \in Tagged |-> {}]

CorrelationNext ==
    \E outage \in Tagged, parent \in Tagged \cup {NoParent}, downtime \in Downtimes :
        TagOutage(outage, parent, downtime)

CorrelationSpec == CorrelationInit /\ [][CorrelationNext]_correlationVars

-----------------------------------------------------------------------------
(* Properties.                                                             *)

CorrelationTypeOK ==
    /\ tags \in [Tagged -> OutageTag \cup {Untagged}]
    /\ children \in [Tagged -> SUBSET Tagged]

\* However outages are tagged and moved, the parents form a forest: no walk
\* comes back to where it began, so the unbounded walk of the cycle check ends
\* (ancestry_contains).  The bounded walk ends at an ancestor, which is a root for
\* exactly the outages with no more ancestors than it has steps: those further
\* down are resolved to an outage in mid-chain (resolve_root).
TagsFormForest ==
    \A outage \in Tagged :
        /\ ParentOf(outage) # NoParent => ~ancestry_contains(ParentOf(outage), outage)
        /\ ancestry_contains(outage, resolve_root(outage))
        /\ ParentOf(resolve_root(outage)) = NoParent <=>
             Cardinality(Ancestors(outage)) <= MAX_CORRELATION_DEPTH

\* Every tagged outage's downtime counts for exactly one root, even where the
\* root is one in mid-chain: the groups' totals add up to the downtime of all
\* tagged outages.
DowntimeCountedOnce ==
    MapThenSumSet(aggregate_root_downtime, Tagged) =
      MapThenSumSet(LAMBDA o : IF IsTagged(o) THEN tags[o].downtime_seconds ELSE 0, Tagged)

\* A parent's list misses no child, in whatever order outages are tagged and
\* moved; it may list outages that have moved away, but never the parent itself
\* nor an outage without a tag.
ChildListsComplete ==
    \A outage \in Tagged :
        /\ ParentOf(outage) # NoParent => outage \in children_of(ParentOf(outage))
        /\ outage \notin children_of(outage)
        /\ \A child \in children_of(outage) : IsTagged(child)

\* Correlated outages form a forest in which every downtime counts once and
\* every child is listed: the properties above together.
CorrelationsHold ==
    CorrelationTypeOK /\ TagsFormForest /\ DowntimeCountedOnce /\ ChildListsComplete
=============================================================================
