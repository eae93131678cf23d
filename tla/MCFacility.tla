----------------------------- MODULE MCFacility -----------------------------
(***************************************************************************)
(* One laboratory, one employee with a clearance to gain and to lose, two  *)
(* calls at once, and the configuration and lockdown of the zone changing  *)
(* under the taps.                                                         *)
(***************************************************************************)
EXTENDS Facility, TLC

CONSTANTS h1, h2

MCHandler == {h1, h2}

\* The administrator has no badge, and identities come and go with one SBU.
NoAdminBadge ==
    /\ ~identities[Admin].isActive
    /\ Admin \notin revoked
    /\ \A h \in Handler : pc[h] \in TapSteps => call[h].employee # Admin

MCSpec == FacilityInit /\ [][FacilityNext /\ OneEditorPerZone' /\ NoAdminBadge']_facilityVars

Symmetry == Permutations(MCHandler)
=============================================================================
