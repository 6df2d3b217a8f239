---------------------------- MODULE Dependencies ----------------------------
(***************************************************************************)
(* Sites that depend on each other (dependency_propagation.rs).  A site has    *)
(* at most one parent, kept with the child, and parents list their children;      *)
(* a site registered under another parent stays on the list of the first.  An     *)
(* outage of a parent flags its listed children as degraded, and its end clears    *)
(* their flags, whoever set them.                                            *)
(***************************************************************************)
EXTENDS FiniteSets, Integers

CONSTANTS
    Site,      \* sites
    NoSite,    \* a site without parent
    Statuses   \* the statuses reported, any u32 in the code

ASSUME SiteAssumption ==
    IsFiniteSet(Site) /\ NoSite \notin Site /\ Statuses \subseteq Nat /\ 0 \in Statuses

VARIABLES
    siteParent,     \* PARENT_INDEX
    siteChildren,   \* CHILD_INDEX
    manualStatus,   \* MANUAL_STATUS
    autoDegraded    \* AUTO_DEGRADED

dependencyVars == <<siteParent, siteChildren, manualStatus, autoDegraded>>

STATUS_OPERATIONAL == 0
STATUS_DEGRADED == 1
STATUS_DOWN == 2

-----------------------------------------------------------------------------
\* The site itself, and the parents it is led to.  The walk ends because the
\* parents have no cycle, after as many steps as sites.
Ancestry(start) ==
    LET walked[n \in 0..Cardinality(Site)] ==
          IF n = 0 THEN {start}
            ELSE {start} \cup {siteParent[site] : site \in walked[n - 1] \ {NoSite}}
    IN  walked[Cardinality(Site)] \ {NoSite}

would_close_cycle(parent, child) == child \in Ancestry(parent)

RegisterDependency(parent, child) ==
    /\ parent # child
    /\ ~would_close_cycle(parent, child)
    /\ siteParent' = [siteParent EXCEPT ![child] = parent]
    /\ siteChildren' = [siteChildren EXCEPT ![parent] = @ \cup {child}]
    /\ UNCHANGED <<manualStatus, autoDegraded>>

\* Any number is stored, also one that is none of the three.
ReportStatus(site, status) ==
    /\ manualStatus' = [manualStatus EXCEPT ![site] = status]
    /\ UNCHANGED <<siteParent, siteChildren, autoDegraded>>

\* A child that is reported down is not flagged.
PropagateOutage(parent) ==
    /\ autoDegraded' = [site \in Site |->
         \/ autoDegraded[site]
         \/ site \in siteChildren[parent] /\ manualStatus[site] # STATUS_DOWN]
    /\ UNCHANGED <<siteParent, siteChildren, manualStatus>>

ClearOutage(parent) ==
    /\ autoDegraded' = [site \in Site |-> autoDegraded[site] /\ site \notin siteChildren[parent]]
    /\ UNCHANGED <<siteParent, siteChildren, manualStatus>>

site_status(site) ==
    IF manualStatus[site] = STATUS_DOWN THEN STATUS_DOWN
      ELSE IF autoDegraded[site] THEN STATUS_DEGRADED ELSE manualStatus[site]

-----------------------------------------------------------------------------
DependencyInit ==
    /\ siteParent = [site \in Site |-> NoSite]
    /\ siteChildren = [site \in Site |-> {}]
    /\ manualStatus = [site \in Site |-> STATUS_OPERATIONAL]
    /\ autoDegraded = [site \in Site |-> FALSE]

DependencyNext ==
    \/ \E parent, child \in Site : RegisterDependency(parent, child)
    \/ \E site \in Site, status \in Statuses : ReportStatus(site, status)
    \/ \E parent \in Site : PropagateOutage(parent) \/ ClearOutage(parent)

-----------------------------------------------------------------------------
(* Properties.                                                             *)

DependencyTypeOK ==
    /\ siteParent \in [Site -> Site \cup {NoSite}]
    /\ siteChildren \in [Site -> SUBSET Site]
    /\ manualStatus \in [Site -> Statuses]
    /\ autoDegraded \in [Site -> BOOLEAN]

\* However sites are moved, following the parents comes to an end: as many
\* steps as there are sites lead out of the forest (register_dependency).
DependenciesEnd ==
    LET up == [site \in Site |-> siteParent[site]]
        climb[n \in 0..Cardinality(Site)] ==
            IF n = 0 THEN Site ELSE {up[site] : site \in climb[n - 1] \ {NoSite}}
    IN  climb[Cardinality(Site)] \subseteq {NoSite}

\* A parent lists all sites that name it, so its outage reaches them; and no
\* flag is stuck: whoever is flagged is on the list of a parent whose outage
\* can be cleared, even after it was moved away.
FlagsCanBeCleared ==
    \A site \in Site :
        /\ siteParent[site] # NoSite => site \in siteChildren[siteParent[site]]
        /\ autoDegraded[site] => \E parent \in Site : site \in siteChildren[parent]

\* What the dependencies do to a status they do in one direction: a site
\* reported down stays down until it is reported otherwise; and whatever a site is
\* told to be after a parent's outage flagged it, its own report shows through
\* again only when the parent's children are all cleared (site_status).
StatusFollowsReports ==
    \A site \in Site :
        /\ site_status(site) = STATUS_DOWN /\ manualStatus'[site] = manualStatus[site] =>
             site_status(site)' = STATUS_DOWN
        /\ site_status(site)' # site_status(site) /\ site_status(site)' # STATUS_DEGRADED
             /\ manualStatus' = manualStatus =>
             \E parent \in Site : /\ site \in siteChildren[parent]
                                  /\ \A child \in siteChildren[parent] : ~autoDegraded'[child]
=============================================================================
