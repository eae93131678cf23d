------------------------------- MODULE Passes -------------------------------
(***************************************************************************)
(* Cross-SBU passes (pass.service.js) and the scope they open              *)
(* (scope.service.js), issued by requests that Sessions has admitted.      *)
(***************************************************************************)
EXTENDS Sessions

CONSTANTS
    SBU, SbuOf,         \* the business units, and everyone's own
    AdminRole, ManagerRole,
    MaxPasses           \* bound on the passes in force at once

ASSUME PassesAssumption ==
    /\ SbuOf \in [Person -> SBU]
    /\ {AdminRole, ManagerRole} \subseteq Role /\ AdminRole # ManagerRole
    /\ MaxPasses \in Nat

VARIABLES
    passes,     \* the CrossSbuPass rows still valid
    authority   \* history: who has ever been in charge of which unit

passVars == <<sessionVars, passes, authority>>

Pass == [userId : Person, targetSbu : SBU, issuedById : Person]

InCharge(rows) ==
    {x \in Person \X SBU :
        \/ rows[x[1]].role = AdminRole
        \/ rows[x[1]].role = ManagerRole /\ SbuOf[x[1]] = x[2]}

PassesTypeOK ==
    /\ SessionsTypeOK
    /\ passes \subseteq Pass /\ Cardinality(passes) <= MaxPasses
    /\ authority \subseteq Person \X SBU

InitPasses == passes = {} /\ authority = InCharge(users)

\* getSbuScope: the own unit and those a valid pass opens; all, for two roles.
Scope(p) == {SbuOf[p]} \cup {x.targetSbu : x \in {y \in passes : y.userId = p}}

\* Mutant: whoever may read a unit may open it to others.
CanManageReader(p, role, b) == role = AdminRole \/ (role = ManagerRole /\ b \in Scope(p))

CanManageSbu(p, role, b) == role = AdminRole \/ (role = ManagerRole /\ SbuOf[p] = b)

\* POST /passes/cross-sbu, behind requireRole; the claims are those of the session.
GrantCrossSbuPass(c, p, b) ==
    LET s == sessions[call[c].token] IN
    /\ call[c].step = "served" /\ call[c].kind = "work"
    /\ s.role \in {AdminRole, ManagerRole}
    /\ CanManageSbu(s.person, s.role, b)
    /\ users[p].wallet # NoWallet
    /\ Cardinality(passes) < MaxPasses
    /\ passes' = passes \cup {[userId |-> p, targetSbu |-> b, issuedById |-> s.person]}
    /\ UNCHANGED <<sessionVars, authority>>

PassExpires(x) ==
    /\ passes' = passes \ {x}
    /\ UNCHANGED <<sessionVars, authority>>

PassesNext ==
    \/ SessionsNext /\ UNCHANGED passes /\ authority' = authority \cup InCharge(users')
    \/ \E c \in Call, p \in Person, b \in SBU : GrantCrossSbuPass(c, p, b)
    \/ \E x \in passes : PassExpires(x)

PassesSpec == InitSessions /\ InitPasses /\ [][PassesNext]_passVars

-----------------------------------------------------------------------------
(* A pass gives visibility and no authority: what a person sees beyond his *)
(* own unit was opened by somebody who had been in charge of it, however   *)
(* many passes the issuer holds and whatever his session still claims.     *)
NoDelegation ==
    \A p \in Person : \A b \in Scope(p) \ {SbuOf[p]} :
        \E x \in passes : /\ x.userId = p /\ x.targetSbu = b
                          /\ <<x.issuedById, b>> \in authority
=============================================================================
