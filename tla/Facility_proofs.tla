-------------------------- MODULE Facility_proofs --------------------------
(***************************************************************************)
(* Proofs about the gates: what an edit, a toggle and a tap do to a locked *)
(* zone, for any zones, employees, handlers and faults.                    *)
(***************************************************************************)
EXTENDS Facility, TLAPS

USE RegistryAssumption, AccessAssumption, FacilityAssumption

EditSteps == {"configure", "relock", "saveZone", "saveUnlocked"}
ToggleSteps == {"toggle", "saveLock"}

EditCall == [zone : Zone, requiredClearance : Clearance, sbu : SBU \cup {AnySBU},
             existing : ZoneRow \cup {NoRow}]
ToggleCall == [zone : Zone, locked : BOOLEAN]
Tap == [employee : Address, zone : Zone, revoked : BOOLEAN, locked : BOOLEAN, granted : BOOLEAN]

\* The types the proofs need.
StateTyped ==
    /\ zones \in [Zone -> ZoneConfig]
    /\ zoneRows \in [Zone -> ZoneRow \cup {NoRow}]
    /\ pc \in [Handler -> {"idle"} \cup EditSteps \cup ToggleSteps \cup TapSteps]
    /\ call = [h \in Handler |-> call[h]]
    /\ barred = [h \in Handler |-> barred[h]]
    /\ faults \in Nat

\* What a handler carries across its awaits.
CallTyped(h) ==
    /\ pc[h] \in EditSteps => call[h] \in EditCall
    /\ pc[h] \in ToggleSteps => call[h] \in ToggleCall
    /\ pc[h] \in TapSteps => call[h] \in Tap

\* The row an edit has read is still the row; the one a toggle has found is there.
RowAsRead(h) ==
    /\ pc[h] \in EditSteps => call[h].existing = zoneRows[call[h].zone]
    /\ pc[h] \in ToggleSteps => zoneRows[call[h].zone] # NoRow

\* What has barred a tap all along is among what the tap has read.
TapKnows(h) ==
    /\ pc[h] \in TapSteps => barred[h] \subseteq {"LOCKDOWN", "REVOKED"}
    /\ pc[h] \in {"readZone", "ask"} /\ "REVOKED" \in barred[h] => call[h].revoked
    /\ pc[h] = "ask" /\ "LOCKDOWN" \in barred[h] => call[h].locked
    /\ pc[h] = "record" /\ call[h].granted => barred[h] = {}

\* The contract says of a zone what its row says.
Mirrors(z) ==
    LET row == zoneRows[z]
    IN  /\ zones[z].exists <=> row # NoRow
        /\ row # NoRow => /\ zones[z].requiredClearance = row.requiredClearance
                          /\ zones[z].allowedSBU = row.sbu
                          /\ zones[z].isLockedDown = row.isEmergencyLocked

\* What the contract says of a zone while a handler configures it.
Configuring(h) ==
    LET c == call[h]
        z == zones[c.zone]
        row == zoneRows[c.zone]
    IN  /\ pc[h] \in {"configure", "toggle"} => Mirrors(c.zone)
        /\ pc[h] \in {"relock", "saveZone"} =>
              /\ z.exists
              /\ z.requiredClearance = c.requiredClearance
              /\ z.allowedSBU = c.sbu
        /\ pc[h] = "relock" => WasLocked(c)
        /\ pc[h] = "saveZone" => z.isLockedDown = WasLocked(c)
        /\ pc[h] # "saveUnlocked"
        /\ pc[h] = "saveLock" =>
              /\ z.exists
              /\ z.requiredClearance = row.requiredClearance
              /\ z.allowedSBU = row.sbu
              /\ z.isLockedDown = c.locked

\* Every handler knows what it needs to know.
HandlersInOrder ==
    \A h \in Handler : CallTyped(h) /\ RowAsRead(h) /\ TapKnows(h)

\* Nothing has failed, and the process has had the contract all along.
Faultless == faults = 0 /\ hasContract

\* Without faults the contract and the rows differ only where a call is at work.
FaultlessInOrder ==
    Faultless => /\ \A z \in Zone : (\A h \in Handler : Configures(h) => call[h].zone # z)
                                         => Mirrors(z)
                 /\ \A h \in Handler : Configuring(h)

FacilityInv == StateTyped /\ OneEditorPerZone /\ HandlersInOrder /\ FaultlessInOrder

-----------------------------------------------------------------------------

\* A handler that configures a zone works on one of the zones.
LEMMA ConfiguredZone ==
  ASSUME StateTyped, NEW h \in Handler, CallTyped(h), Configures(h)
  PROVE  call[h].zone \in Zone
BY DEF StateTyped, CallTyped, Configures, EditCall, ToggleCall, EditSteps, ToggleSteps, TapSteps

\* What bars a tap becomes less while it lasts.
LEMMA BarredShrinks ==
  ASSUME Remember, NEW h \in Handler, pc[h] # "idle", pc'[h] \in TapSteps
  PROVE  barred'[h] \subseteq barred[h]
BY DEF Remember

\* A step of one handler, or of none when zones and rows stay, leaves the others in
\* order: nobody else is configuring the zone that it changes.
LEMMA OthersInOrder ==
  ASSUME FacilityInv, Remember, NEW h \in Handler, NEW g \in Handler, g # h,
         pc'[g] = pc[g], call'[g] = call[g],
         \A z \in Zone : (Configures(h) => z # call[h].zone) =>
             zones'[z] = zones[z] /\ zoneRows'[z] = zoneRows[z]
  PROVE  CallTyped(g)' /\ RowAsRead(g)' /\ TapKnows(g)' /\ (Configuring(g) => Configuring(g)')
<1> USE DEF FacilityInv, HandlersInOrder
<1>1. CallTyped(g)'
  BY DEF CallTyped
<1>2. TapKnows(g)'
  <2>1. CASE pc[g] \in TapSteps
    BY <2>1, BarredShrinks DEF TapKnows, TapSteps
  <2> QED
    BY <2>1 DEF TapKnows, TapSteps
<1>3. CASE Configures(g)
  <2>1. call[g].zone \in Zone
    BY <1>3, ConfiguredZone
  <2>2. Configures(h) => call[g].zone # call[h].zone
    BY <1>3 DEF OneEditorPerZone
  <2>3. zones'[call[g].zone] = zones[call[g].zone] /\ zoneRows'[call[g].zone] = zoneRows[call[g].zone]
    BY <2>1, <2>2
  <2> QED
    BY <1>1, <1>2, <2>3 DEF RowAsRead, Configuring, Mirrors, WasLocked
<1>4. CASE ~Configures(g)
  <2>1. pc[g] \notin EditSteps \cup ToggleSteps
    BY <1>4 DEF Configures, EditSteps, ToggleSteps, TapSteps
  <2> QED
    BY <1>1, <1>2, <2>1 DEF RowAsRead, Configuring, EditSteps, ToggleSteps
<1> QED
  BY <1>3, <1>4

\* What a step of one handler has to establish for the invariant.
LEMMA StepInOrder ==
  ASSUME FacilityInv, Remember, OneEditorPerZone', StateTyped', UNCHANGED hasContract,
         NEW h \in Handler,
         \A g \in Handler : g # h => pc'[g] = pc[g] /\ call'[g] = call[g],
         \A z \in Zone : (Configures(h) => z # call[h].zone) =>
             zones'[z] = zones[z] /\ zoneRows'[z] = zoneRows[z],
         CallTyped(h)', RowAsRead(h)', TapKnows(h)',
         Faultless' => /\ Faultless
                       /\ Configuring(h)'
                       /\ Configures(h) => \/ Configures(h)' /\ call'[h].zone = call[h].zone
                                           \/ \A z \in Zone : z = call[h].zone => Mirrors(z)'
  PROVE  FacilityInv'
<1>1. HandlersInOrder'
  BY OthersInOrder DEF HandlersInOrder
<1>2. FaultlessInOrder'
  <2> SUFFICES ASSUME Faultless' PROVE FaultlessInOrder'
    BY DEF FaultlessInOrder
  <2>1. \A g \in Handler : Configuring(g)'
    BY OthersInOrder DEF FacilityInv, FaultlessInOrder
  <2>2. ASSUME NEW z \in Zone, \A g \in Handler : Configures(g)' => call'[g].zone # z
        PROVE  Mirrors(z)'
    <3>1. CASE Configures(h) /\ z = call[h].zone
      <4>1. ~(Configures(h)' /\ call'[h].zone = z)
        BY <2>2
      <4> QED
        BY <3>1, <4>1
    <3>2. CASE ~(Configures(h) /\ z = call[h].zone)
      <4>1. zones'[z] = zones[z] /\ zoneRows'[z] = zoneRows[z]
        BY <3>2
      <4>2. \A g \in Handler : Configures(g) => call[g].zone # z
        BY <2>2, <3>2 DEF Configures
      <4>3. Mirrors(z)
        BY <4>2 DEF FacilityInv, FaultlessInOrder
      <4> QED
        BY <4>1, <4>3 DEF Mirrors
    <3> QED
      BY <3>1, <3>2
  <2> QED
    BY <2>1, <2>2 DEF FaultlessInOrder
<1> QED
  BY <1>1, <1>2 DEF FacilityInv

-----------------------------------------------------------------------------
(* The steps of a handler that leave zones and rows alone *)

\* A call begins in order: what it reads it reads at once.
LEMMA CallsBegin ==
  ASSUME FacilityInv, Remember, OneEditorPerZone', UNCHANGED hasContract, NEW h \in Handler, Calls(h)
  PROVE  FacilityInv'
<1> USE DEF FacilityInv, HandlersInOrder
<1>1. /\ pc[h] = "idle" /\ ~Configures(h)
      /\ UNCHANGED <<zones, zoneRows, faults>>
      /\ \A g \in Handler : g # h => pc'[g] = pc[g] /\ call'[g] = call[g]
  BY DEF Calls, UpsertZone, SetZoneLockdown, BadgeTap, Begin, StateTyped, chain, accessVars,
         Configures
<1>2. ASSUME NEW z \in Zone, NEW c \in Clearance, NEW s \in SBU \cup {AnySBU}, UpsertZone(h, z, c, s)
      PROVE  FacilityInv'
  <2>1. /\ pc'[h] = "configure"
        /\ call'[h] = [zone |-> z, requiredClearance |-> c, sbu |-> s, existing |-> zoneRows[z]]
    BY <1>2 DEF UpsertZone, Begin, StateTyped
  <2>2. StateTyped'
    BY <1>1, <1>2 DEF UpsertZone, Begin, StateTyped, Remember, EditSteps
  <2>3. CallTyped(h)' /\ RowAsRead(h)' /\ TapKnows(h)'
    BY <1>1, <2>1 DEF CallTyped, RowAsRead, TapKnows, StateTyped, EditCall, EditSteps,
                      ToggleSteps, TapSteps
  <2>4. ASSUME Faultless PROVE Configuring(h)'
    <3>1. \A g \in Handler : Configures(g) => call[g].zone # z
      <4> SUFFICES ASSUME NEW g \in Handler, Configures(g) PROVE call[g].zone # z
        OBVIOUS
      <4>1. g # h /\ Configures(g)' /\ call'[g] = call[g]
        BY <1>1 DEF Configures
      <4>2. Configures(h)'
        BY <2>1 DEF Configures, TapSteps
      <4> QED
        BY <2>1, <4>1, <4>2 DEF OneEditorPerZone
    <3>2. Mirrors(z)
      BY <2>4, <3>1 DEF FaultlessInOrder
    <3> QED
      BY <1>1, <2>1, <3>2 DEF Configuring, Mirrors
  <2> QED
    BY <1>1, <2>2, <2>3, <2>4, StepInOrder DEF Faultless
<1>3. ASSUME NEW z \in Zone, NEW locked \in BOOLEAN, SetZoneLockdown(h, z, locked)
      PROVE  FacilityInv'
  <2>1. /\ pc'[h] = "toggle" /\ call'[h] = [zone |-> z, locked |-> locked]
        /\ zoneRows[z] # NoRow
    BY <1>3 DEF SetZoneLockdown, Begin, StateTyped
  <2>2. StateTyped'
    BY <1>1, <1>3 DEF SetZoneLockdown, Begin, StateTyped, Remember, ToggleSteps
  <2>3. CallTyped(h)' /\ RowAsRead(h)' /\ TapKnows(h)'
    BY <1>1, <2>1 DEF CallTyped, RowAsRead, TapKnows, ToggleCall, EditSteps, ToggleSteps, TapSteps
  <2>4. ASSUME Faultless PROVE Configuring(h)'
    <3>1. \A g \in Handler : Configures(g) => call[g].zone # z
      <4> SUFFICES ASSUME NEW g \in Handler, Configures(g) PROVE call[g].zone # z
        OBVIOUS
      <4>1. g # h /\ Configures(g)' /\ call'[g] = call[g]
        BY <1>1 DEF Configures
      <4>2. Configures(h)'
        BY <2>1 DEF Configures, TapSteps
      <4> QED
        BY <2>1, <4>1, <4>2 DEF OneEditorPerZone
    <3>2. Mirrors(z)
      BY <2>4, <3>1 DEF FaultlessInOrder
    <3> QED
      BY <1>1, <2>1, <3>2 DEF Configuring, Mirrors
  <2> QED
    BY <1>1, <2>2, <2>3, <2>4, StepInOrder DEF Faultless
<1>4. ASSUME NEW e \in Address, NEW z \in Zone, BadgeTap(h, e, z)
      PROVE  FacilityInv'
  <2>1. /\ pc'[h] = "readZone"
        /\ call'[h] = [employee |-> e, zone |-> z, revoked |-> e \in revoked,
                       locked |-> FALSE, granted |-> FALSE]
        /\ UNCHANGED revoked
    BY <1>4 DEF BadgeTap, Begin, StateTyped
  <2>2. StateTyped'
    BY <1>1, <1>4 DEF BadgeTap, Begin, StateTyped, Remember, TapSteps
  <2>3. /\ barred'[h] \subseteq {"LOCKDOWN", "REVOKED"}
        /\ "REVOKED" \in barred'[h] => e \in revoked
    BY <1>1, <2>1 DEF Remember, TapSteps
  <2> DEFINE r == e \in revoked
  <2> r \in BOOLEAN
    OBVIOUS
  <2> HIDE DEF r
  <2>6. call'[h] \in Tap /\ call'[h].revoked = r
    BY <2>1 DEF Tap, r
  <2>4. CallTyped(h)' /\ RowAsRead(h)' /\ TapKnows(h)'
    BY <2>1, <2>3, <2>6 DEF CallTyped, RowAsRead, TapKnows, EditSteps, ToggleSteps, TapSteps
  <2>5. Configuring(h)'
    BY <2>1 DEF Configuring
  <2> QED
    BY <1>1, <2>2, <2>4, <2>5, StepInOrder DEF Faultless
<1> QED
  BY <1>2, <1>3, <1>4 DEF Calls

\* A handler that goes idle after a fault, or that taps, is in order.
LEMMA EndsInOrder ==
  ASSUME FacilityInv, Remember, OneEditorPerZone', UNCHANGED hasContract, NEW h \in Handler, Return(h),
         UNCHANGED <<zones, zoneRows>>,
         \/ faults' = faults + 1
         \/ UNCHANGED faults /\ pc[h] \in TapSteps
  PROVE  FacilityInv'
<1> USE DEF FacilityInv, HandlersInOrder
<1>1. /\ pc'[h] = "idle"
      /\ \A g \in Handler : g # h => pc'[g] = pc[g] /\ call'[g] = call[g]
  BY DEF Return, StateTyped
<1>2. StateTyped'
  <2>1. faults' \in Nat
    BY DEF StateTyped
  <2>2. barred' = [g \in Handler |-> barred'[g]]
    BY DEF Remember
  <2> QED
    BY <2>1, <2>2 DEF Return, StateTyped
<1>3. CallTyped(h)' /\ RowAsRead(h)' /\ TapKnows(h)' /\ Configuring(h)'
  BY <1>1 DEF CallTyped, RowAsRead, TapKnows, Configuring, EditSteps, ToggleSteps, TapSteps
<1>4. faults' = 0 => faults = 0 /\ ~Configures(h)
  BY DEF StateTyped, Configures
<1> QED
  BY <1>1, <1>2, <1>3, <1>4, StepInOrder DEF Faultless

\* The steps of a badge tap keep what it knows.
LEMMA TapsGoOn ==
  ASSUME FacilityInv, Remember, OneEditorPerZone', UNCHANGED hasContract, NEW h \in Handler,
         ReadZone(h) \/ AskChain(h) \/ RecordTap(h)
  PROVE  FacilityInv'
<1> USE DEF FacilityInv, HandlersInOrder
<1>1. UNCHANGED <<zones, zoneRows>> /\ pc[h] \in TapSteps /\ ~Configures(h)
  BY DEF ReadZone, AskChain, RecordTap, chain, accessVars, TapSteps, Configures
<1>2. CASE ReadZone(h) /\ zoneRows[call[h].zone] = NoRow
  BY <1>1, <1>2, EndsInOrder DEF ReadZone
<1>3. CASE ReadZone(h) /\ zoneRows[call[h].zone] # NoRow
  <2> DEFINE c == call[h]
             row == zoneRows[c.zone]
  <2>1. /\ pc[h] = "readZone" /\ pc'[h] = "ask" /\ c \in Tap /\ row \in ZoneRow
        /\ call' = [call EXCEPT ![h].locked = row.isEmergencyLocked]
        /\ UNCHANGED faults
        /\ \A g \in Handler : g # h => pc'[g] = pc[g] /\ call'[g] = call[g]
    BY <1>3 DEF ReadZone, StateTyped, CallTyped, Tap, TapSteps
  <2>2. call'[h] = [employee |-> c.employee, zone |-> c.zone, revoked |-> c.revoked,
                    locked |-> row.isEmergencyLocked, granted |-> c.granted]
    BY <2>1 DEF Tap, StateTyped
  <2>3. StateTyped'
    BY <1>1, <1>3 DEF ReadZone, StateTyped, Remember, TapSteps
  <2>4. /\ barred'[h] \subseteq barred[h]
        /\ "LOCKDOWN" \in barred'[h] => row.isEmergencyLocked
    BY <1>1, <2>1, <2>2 DEF Remember, TapSteps
  <2>5. CallTyped(h)' /\ RowAsRead(h)' /\ TapKnows(h)'
    BY <2>1, <2>2, <2>4
    DEF CallTyped, RowAsRead, TapKnows, Tap, ZoneRow, EditSteps, ToggleSteps,
        TapSteps
  <2>6. Configuring(h)'
    BY <2>1 DEF Configuring
  <2> QED
    BY <1>1, <2>1, <2>3, <2>5, <2>6, StepInOrder DEF Faultless
<1>4. CASE AskChain(h)
  <2> DEFINE c == call[h]
  <2>1. PICK granted \in BOOLEAN :
          /\ call' = [call EXCEPT ![h].granted = granted]
          /\ granted => ~c.revoked /\ ~c.locked
          /\ faults' = faults \/ faults' = faults + 1
    <3>1. Allowed(c) \in BOOLEAN /\ (Allowed(c) => ~c.revoked /\ ~c.locked)
      BY DEF Allowed
    <3>2. \/ call' = [call EXCEPT ![h].granted = Allowed(c)] /\ faults' = faults
          \/ call' = [call EXCEPT ![h].granted = FALSE] /\ faults' \in {faults, faults + 1}
      BY <1>4 DEF AskChain, Fault
    <3> QED
      BY <3>1, <3>2
  <2>2. /\ pc[h] = "ask" /\ pc'[h] = "record" /\ c \in Tap
        /\ \A g \in Handler : g # h => pc'[g] = pc[g] /\ call'[g] = call[g]
    BY <1>4 DEF AskChain, StateTyped, CallTyped, TapSteps
  <2>3. call'[h] = [employee |-> c.employee, zone |-> c.zone, revoked |-> c.revoked,
                    locked |-> c.locked, granted |-> granted]
    BY <2>1, <2>2 DEF Tap, StateTyped
  <2>4. StateTyped'
    <3>1. faults' \in Nat
      BY <2>1 DEF StateTyped
    <3>2. pc' = [pc EXCEPT ![h] = "record"]
      BY <1>4 DEF AskChain
    <3>3. barred' = [g \in Handler |-> barred'[g]]
      BY DEF Remember
    <3> QED
      BY <1>1, <2>1, <3>1, <3>2, <3>3 DEF StateTyped, TapSteps
  <2>5. barred'[h] \subseteq barred[h]
    BY <2>2, BarredShrinks DEF TapSteps
  <2>6. granted => barred'[h] = {}
    BY <2>1, <2>2, <2>5 DEF TapKnows, TapSteps
  <2>7. CallTyped(h)' /\ RowAsRead(h)' /\ TapKnows(h)'
    BY <2>2, <2>3, <2>5, <2>6
    DEF CallTyped, RowAsRead, TapKnows, Tap, EditSteps, ToggleSteps, TapSteps
  <2>8. Configuring(h)'
    BY <2>2 DEF Configuring
  <2>9. faults' = 0 => faults = 0
    BY <2>1 DEF StateTyped
  <2> QED
    BY <1>1, <2>2, <2>4, <2>7, <2>8, <2>9, StepInOrder DEF Faultless
<1>5. CASE RecordTap(h)
  BY <1>1, <1>5, EndsInOrder DEF RecordTap
<1> QED
  BY <1>2, <1>3, <1>4, <1>5

-----------------------------------------------------------------------------
(* The steps of an administrator's call *)

\* What a transaction of the administrator's key leaves behind, for a call that goes
\* on to "ok" or to "failed".
LEMMA SendOutcome ==
  ASSUME FacilityInv, NEW h \in Handler, NEW accepted, NEW Tx \in BOOLEAN,
         NEW ok, NEW failed, Send(h, accepted, Tx, ok, failed)
  PROVE  /\ hasContract
         /\ \/ /\ UNCHANGED faults
               /\ \/ Tx /\ Goto(h, ok)
                  \/ ~accepted /\ UNCHANGED zones /\ Goto(h, failed)
            \/ faults' = faults + 1 /\ Goto(h, failed) /\ (Tx \/ UNCHANGED zones)
BY DEF Send, Fault, chain, accessVars

\* Where a call goes on that has no contract to ask.
AfterSkip(step) == IF step = "configure" THEN "saveZone" ELSE "saveLock"

\* Without a contract an edit and a toggle only write their rows.
LEMMA SkipGoesOn ==
  ASSUME FacilityInv, Remember, OneEditorPerZone', UNCHANGED hasContract, NEW h \in Handler,
         pc[h] \in {"configure", "toggle"}, UNCHANGED zoneRows, Skip(h, AfterSkip(pc[h]))
  PROVE  FacilityInv'
<1> StateTyped /\ CallTyped(h) /\ RowAsRead(h)
  BY DEF FacilityInv, HandlersInOrder
<1>1. /\ pc' = [pc EXCEPT ![h] = AfterSkip(pc[h])]
      /\ pc[h] = "configure" => pc'[h] = "saveZone"
      /\ pc[h] = "toggle" => pc'[h] = "saveLock"
      /\ UNCHANGED <<call, zones, faults>>
  BY DEF Skip, AfterSkip, Goto, StateTyped, chain, accessVars
<1>2. StateTyped'
  BY <1>1 DEF AfterSkip, StateTyped, Remember, EditSteps, ToggleSteps
<1>3. CallTyped(h)' /\ RowAsRead(h)' /\ TapKnows(h)'
  BY <1>1 DEF CallTyped, RowAsRead, TapKnows, EditSteps, ToggleSteps, TapSteps
<1>4. ~Faultless' /\ \A g \in Handler : g # h => pc'[g] = pc[g] /\ call'[g] = call[g]
  BY <1>1 DEF Skip, Faultless, StateTyped
<1> QED
  BY <1>1, <1>2, <1>3, <1>4, StepInOrder

\* An edit on the contract: it clears the lockdown it has to apply again.
LEMMA ConfigureGoesOn ==
  ASSUME FacilityInv, Remember, OneEditorPerZone', UNCHANGED hasContract, NEW h \in Handler, ConfigureZone(h)
  PROVE  FacilityInv'
<1> StateTyped /\ CallTyped(h) /\ RowAsRead(h)
  BY DEF FacilityInv, HandlersInOrder
<1> DEFINE c == call[h]
           Tx == CreateZone(Admin, c.zone, c.requiredClearance, c.sbu)
<1>1. /\ pc[h] = "configure" /\ c \in EditCall /\ Configures(h)
      /\ UNCHANGED zoneRows
      /\ Send(h, TRUE, Tx, AfterConfiguring(c), "idle") \/ Skip(h, "saveZone")
  BY DEF ConfigureZone, CallTyped, EditSteps, Configures, TapSteps
<1>2. Tx => zones' = [zones EXCEPT ![c.zone] =
                        [exists |-> TRUE, requiredClearance |-> c.requiredClearance,
                         allowedSBU |-> c.sbu, isLockedDown |-> FALSE]]
  BY DEF CreateZone, Configured
<1>0. CASE Skip(h, "saveZone")
  BY <1>0, <1>1, SkipGoesOn DEF AfterSkip
<1> SUFFICES ASSUME Send(h, TRUE, Tx, AfterConfiguring(c), "idle") PROVE FacilityInv'
  BY <1>0, <1>1
<1>3. \/ UNCHANGED faults /\ Tx /\ Goto(h, AfterConfiguring(c))
      \/ faults' = faults + 1 /\ Goto(h, "idle") /\ (Tx \/ UNCHANGED zones)
  <2>1. Tx \in BOOLEAN
    BY DEF CreateZone
  <2> HIDE DEF Tx
  <2> QED
    BY <1>1, <2>1, SendOutcome
<1> HIDE DEF Tx
<1>4. /\ zones' \in [Zone -> ZoneConfig]
      /\ \A z \in Zone : z # c.zone => zones'[z] = zones[z]
  <2>1. CASE UNCHANGED zones
    BY <2>1 DEF StateTyped
  <2>2. CASE Tx
    <3>1. [exists |-> TRUE, requiredClearance |-> c.requiredClearance,
           allowedSBU |-> c.sbu, isLockedDown |-> FALSE] \in ZoneConfig
      BY <1>1 DEF EditCall, ZoneConfig, Clearance
    <3> QED
      BY <1>1, <1>2, <2>2, <3>1 DEF StateTyped, EditCall
  <2> QED
    BY <1>3, <2>1, <2>2
<1>5. CASE UNCHANGED faults
  <2>1. faults' # faults + 1
    BY <1>5 DEF StateTyped
  <2>2. /\ zones'[c.zone] = [exists |-> TRUE, requiredClearance |-> c.requiredClearance,
                             allowedSBU |-> c.sbu, isLockedDown |-> FALSE]
        /\ pc' = [pc EXCEPT ![h] = AfterConfiguring(c)] /\ UNCHANGED call
    BY <1>1, <1>2, <1>3, <2>1 DEF StateTyped, EditCall, Goto, AfterConfiguring
  <2>3. StateTyped'
    BY <1>1, <1>4, <1>5, <2>2 DEF StateTyped, AfterConfiguring, Remember, EditSteps
  <2>4. pc'[h] = IF WasLocked(c) THEN "relock" ELSE "saveZone"
    BY <2>2 DEF StateTyped, AfterConfiguring
  <2>5. CallTyped(h)' /\ RowAsRead(h)' /\ TapKnows(h)' /\ Configures(h)'
    BY <1>1, <2>2, <2>4
    DEF CallTyped, RowAsRead, TapKnows, Configures, EditSteps, ToggleSteps, TapSteps
  <2>6. Configuring(h)'
    <3>1. WasLocked(c) \in BOOLEAN /\ WasLocked(call[h])' = WasLocked(c)
      BY <2>2 DEF WasLocked
    <3>2. /\ call'[h] = c /\ zones'[c.zone].exists /\ zones'[c.zone].isLockedDown = FALSE
          /\ zones'[c.zone].requiredClearance = c.requiredClearance
          /\ zones'[c.zone].allowedSBU = c.sbu
      BY <2>2
    <3>3. CASE WasLocked(c)
      BY <2>4, <3>1, <3>2, <3>3 DEF Configuring
    <3>4. CASE ~WasLocked(c)
      BY <2>4, <3>1, <3>2, <3>4 DEF Configuring
    <3> QED
      BY <3>3, <3>4
  <2> QED
    BY <1>1, <1>4, <1>5, <2>2, <2>3, <2>5, <2>6, StepInOrder DEF StateTyped, Faultless
<1>6. CASE faults' = faults + 1
  <2>1. faults' # faults /\ faults' # 0 /\ faults' \in Nat
    BY <1>6 DEF StateTyped
  <2>2. /\ pc' = [pc EXCEPT ![h] = "idle"]
        /\ \A g \in Handler : g # h => pc'[g] = pc[g] /\ call'[g] = call[g]
        /\ call' = [g \in Handler |-> call'[g]]
    BY <1>3, <2>1 DEF Goto, Return, StateTyped
  <2>3. StateTyped'
    BY <1>1, <1>4, <2>1, <2>2 DEF StateTyped, Remember
  <2>4. CallTyped(h)' /\ RowAsRead(h)' /\ TapKnows(h)'
    BY <2>2 DEF CallTyped, RowAsRead, TapKnows, StateTyped, EditSteps, ToggleSteps, TapSteps
  <2> QED
    BY <1>1, <1>4, <2>1, <2>2, <2>3, <2>4, StepInOrder DEF Faultless
<1> QED
  BY <1>3, <1>5, <1>6

\* The lockdown applied again.
LEMMA RelockGoesOn ==
  ASSUME FacilityInv, Remember, OneEditorPerZone', UNCHANGED hasContract, NEW h \in Handler, Relock(h)
  PROVE  FacilityInv'
<1> StateTyped /\ CallTyped(h) /\ RowAsRead(h)
  BY DEF FacilityInv, HandlersInOrder
<1> DEFINE c == call[h]
           Tx == ToggleEmergencyLockdown(Admin, c.zone, TRUE)
<1>1. /\ pc[h] = "relock" /\ c \in EditCall /\ Configures(h)
      /\ UNCHANGED zoneRows
      /\ Send(h, zones[c.zone].exists, Tx, "saveZone", "saveUnlocked")
  BY DEF Relock, CallTyped, EditSteps, Configures, TapSteps
<1>2. Tx => zones' = [zones EXCEPT ![c.zone].isLockedDown = TRUE]
  BY DEF ToggleEmergencyLockdown
<1>3. \/ UNCHANGED faults /\ Tx /\ Goto(h, "saveZone")
      \/ UNCHANGED faults /\ ~zones[c.zone].exists /\ UNCHANGED zones /\ Goto(h, "saveUnlocked")
      \/ faults' = faults + 1 /\ Goto(h, "saveUnlocked") /\ (Tx \/ UNCHANGED zones)
  <2>1. Tx \in BOOLEAN
    BY DEF ToggleEmergencyLockdown
  <2> HIDE DEF Tx
  <2> QED
    BY <1>1, <2>1, SendOutcome
<1> HIDE DEF Tx
<1>4. /\ zones' \in [Zone -> ZoneConfig]
      /\ \A z \in Zone : z # c.zone => zones'[z] = zones[z]
  <2>1. CASE UNCHANGED zones
    BY <2>1 DEF StateTyped
  <2>2. CASE Tx
    <3>1. c.zone \in Zone /\ zones[c.zone] \in ZoneConfig
      BY <1>1 DEF EditCall, StateTyped
    <3>2. [zones[c.zone] EXCEPT !.isLockedDown = TRUE] \in ZoneConfig
      BY <3>1 DEF ZoneConfig
    <3>3. zones' = [zones EXCEPT ![c.zone] = [zones[c.zone] EXCEPT !.isLockedDown = TRUE]]
      BY <1>2, <2>2
    <3> QED
      BY <3>1, <3>2, <3>3 DEF StateTyped
  <2> QED
    BY <1>3, <2>1, <2>2
<1>5. /\ \/ pc' = [pc EXCEPT ![h] = "saveZone"] \/ pc' = [pc EXCEPT ![h] = "saveUnlocked"]
      /\ UNCHANGED call /\ faults' \in Nat
  BY <1>3 DEF Goto, StateTyped
<1>6. StateTyped'
  BY <1>1, <1>4, <1>5 DEF StateTyped, Remember, EditSteps
<1>7. CallTyped(h)' /\ RowAsRead(h)' /\ TapKnows(h)' /\ Configures(h)'
  BY <1>1, <1>5
  DEF CallTyped, RowAsRead, TapKnows, Configures, StateTyped, EditSteps, ToggleSteps, TapSteps
<1>8. ASSUME Faultless' PROVE Faultless /\ Configuring(h)'
  <2>1. Faultless /\ faults' # faults + 1
    BY <1>3, <1>8 DEF StateTyped, Faultless
  <2>2. zones[c.zone].exists /\ WasLocked(c) /\ Configuring(h)
    BY <1>1, <2>1 DEF FacilityInv, FaultlessInOrder, Configuring
  <2>3. /\ zones'[c.zone] = [zones[c.zone] EXCEPT !.isLockedDown = TRUE]
        /\ pc'[h] = "saveZone"
    <3>1. Tx /\ Goto(h, "saveZone")
      BY <1>3, <2>1, <2>2
    <3>2. zones' = [zones EXCEPT ![c.zone] = [zones[c.zone] EXCEPT !.isLockedDown = TRUE]]
      BY <1>2, <3>1
    <3> QED
      BY <1>1, <3>1, <3>2 DEF Goto, StateTyped, EditCall
  <2>4. zones[c.zone] \in ZoneConfig
    BY <1>1 DEF StateTyped, EditCall
  <2> QED
    BY <1>1, <1>5, <2>1, <2>2, <2>3, <2>4 DEF Configuring, ZoneConfig
<1> QED
  BY <1>1, <1>4, <1>5, <1>6, <1>7, <1>8, StepInOrder DEF StateTyped

\* The row of the edit, with the lockdown it has had on the contract.
LEMMA SaveZoneGoesOn ==
  ASSUME FacilityInv, Remember, OneEditorPerZone', UNCHANGED hasContract, NEW h \in Handler, SaveZone(h)
  PROVE  FacilityInv'
<1> StateTyped /\ CallTyped(h) /\ RowAsRead(h)
  BY DEF FacilityInv, HandlersInOrder
<1> DEFINE c == call[h]
           row == [requiredClearance |-> c.requiredClearance, sbu |-> c.sbu,
                   isEmergencyLocked |-> zoneRows[c.zone] # NoRow /\ LockAfterEdit(h)]
<1>1. /\ pc[h] \in {"saveZone", "saveUnlocked"} /\ c \in EditCall /\ Configures(h)
      /\ c.existing = zoneRows[c.zone]
      /\ UNCHANGED <<zones, faults>> /\ Return(h)
  BY DEF SaveZone, CallTyped, RowAsRead, EditSteps, Configures, TapSteps, chain, accessVars
<1>2. zoneRows' = [zoneRows EXCEPT ![c.zone] = row]
  BY DEF SaveZone
<1>3. row \in ZoneRow
  BY <1>1 DEF EditCall, ZoneRow, LockAfterEdit, WasLocked
<1>4. /\ zoneRows' \in [Zone -> ZoneRow \cup {NoRow}] /\ zoneRows'[c.zone] = row
      /\ \A z \in Zone : z # c.zone => zoneRows'[z] = zoneRows[z]
  <2> HIDE DEF row
  <2> QED
    BY <1>1, <1>2, <1>3 DEF StateTyped, EditCall
<1>5. /\ pc' = [pc EXCEPT ![h] = "idle"]
      /\ \A g \in Handler : g # h => pc'[g] = pc[g] /\ call'[g] = call[g]
      /\ call' = [g \in Handler |-> call'[g]]
  BY <1>1 DEF Return, StateTyped
<1>6. StateTyped'
  BY <1>1, <1>4, <1>5 DEF StateTyped, Remember
<1>7. CallTyped(h)' /\ RowAsRead(h)' /\ TapKnows(h)' /\ Configuring(h)'
  BY <1>5 DEF CallTyped, RowAsRead, TapKnows, Configuring, StateTyped, EditSteps, ToggleSteps,
              TapSteps
<1>8. ASSUME Faultless, NEW z \in Zone, z = c.zone PROVE Mirrors(z)'
  <2>1. Configuring(h)
    BY <1>8 DEF FacilityInv, FaultlessInOrder
  <2>2. /\ pc[h] = "saveZone" /\ zones[z].exists
        /\ zones[z].requiredClearance = row.requiredClearance
        /\ zones[z].allowedSBU = row.sbu
        /\ zones[z].isLockedDown = WasLocked(c)
    BY <1>1, <1>8, <2>1 DEF Configuring
  <2>3. row.isEmergencyLocked = WasLocked(c)
    BY <1>1, <2>2 DEF LockAfterEdit, WasLocked
  <2>4. row # NoRow
    BY <1>3
  <2> HIDE DEF row
  <2> QED
    BY <1>1, <1>4, <1>8, <2>2, <2>3, <2>4 DEF Mirrors
<1> QED
  BY <1>1, <1>4, <1>5, <1>6, <1>7, <1>8, StepInOrder DEF Faultless

\* A toggle on the contract: mined, refused or lost.
LEMMA ToggleGoesOn ==
  ASSUME FacilityInv, Remember, OneEditorPerZone', UNCHANGED hasContract, NEW h \in Handler, Toggle(h)
  PROVE  FacilityInv'
<1> StateTyped /\ CallTyped(h) /\ RowAsRead(h)
  BY DEF FacilityInv, HandlersInOrder
<1> DEFINE c == call[h]
           Tx == ToggleEmergencyLockdown(Admin, c.zone, c.locked)
<1>1. /\ pc[h] = "toggle" /\ c \in ToggleCall /\ Configures(h) /\ zoneRows[c.zone] # NoRow
      /\ UNCHANGED zoneRows
      /\ Send(h, zones[c.zone].exists, Tx, "saveLock", "saveLock") \/ Skip(h, "saveLock")
  BY DEF Toggle, CallTyped, RowAsRead, ToggleSteps, Configures, TapSteps
<1>2. Tx => zones' = [zones EXCEPT ![c.zone] = [zones[c.zone] EXCEPT !.isLockedDown = c.locked]]
  BY DEF ToggleEmergencyLockdown
<1>0. CASE Skip(h, "saveLock")
  BY <1>0, <1>1, SkipGoesOn DEF AfterSkip
<1> SUFFICES ASSUME Send(h, zones[c.zone].exists, Tx, "saveLock", "saveLock") PROVE FacilityInv'
  BY <1>0, <1>1
<1>3. /\ Goto(h, "saveLock")
      /\ \/ UNCHANGED faults /\ Tx
         \/ UNCHANGED faults /\ ~zones[c.zone].exists /\ UNCHANGED zones
         \/ faults' = faults + 1 /\ (Tx \/ UNCHANGED zones)
  <2>1. Tx \in BOOLEAN
    BY DEF ToggleEmergencyLockdown
  <2> HIDE DEF Tx
  <2> QED
    BY <1>1, <2>1, SendOutcome
<1> HIDE DEF Tx
<1>4. c.zone \in Zone /\ c.locked \in BOOLEAN /\ zones[c.zone] \in ZoneConfig
  BY <1>1 DEF ToggleCall, StateTyped
<1>5. /\ zones' \in [Zone -> ZoneConfig]
      /\ \A z \in Zone : z # c.zone => zones'[z] = zones[z]
  <2>1. CASE UNCHANGED zones
    BY <2>1 DEF StateTyped
  <2>2. CASE Tx
    <3>1. [zones[c.zone] EXCEPT !.isLockedDown = c.locked] \in ZoneConfig
      BY <1>4 DEF ZoneConfig
    <3> QED
      BY <1>2, <1>4, <2>2, <3>1 DEF StateTyped
  <2> QED
    BY <1>3, <2>1, <2>2
<1>6. pc' = [pc EXCEPT ![h] = "saveLock"] /\ UNCHANGED call /\ faults' \in Nat
  <2>1. faults' \in Nat
    BY <1>3 DEF StateTyped
  <2> QED
    BY <1>3, <2>1 DEF Goto
<1>7. StateTyped'
  BY <1>1, <1>5, <1>6 DEF StateTyped, Remember, ToggleSteps
<1>8. CallTyped(h)' /\ RowAsRead(h)' /\ TapKnows(h)' /\ Configures(h)'
  BY <1>1, <1>6
  DEF CallTyped, RowAsRead, TapKnows, Configures, StateTyped, EditSteps, ToggleSteps, TapSteps
<1>9. ASSUME Faultless' PROVE Faultless /\ Configuring(h)'
  <2>1. Faultless /\ faults' # faults + 1
    BY <1>3, <1>9 DEF StateTyped, Faultless
  <2>2. Mirrors(c.zone)
    BY <1>1, <2>1 DEF FacilityInv, FaultlessInOrder, Configuring
  <2>3. zones[c.zone].exists
    BY <1>1, <2>2 DEF Mirrors
  <2>4. zones' = [zones EXCEPT ![c.zone] = [zones[c.zone] EXCEPT !.isLockedDown = c.locked]]
    BY <1>2, <1>3, <2>1, <2>3
  <2>5. /\ zones'[c.zone] = [zones[c.zone] EXCEPT !.isLockedDown = c.locked]
        /\ pc'[h] = "saveLock" /\ call'[h] = c /\ zoneRows'[c.zone] = zoneRows[c.zone]
    BY <1>1, <1>4, <1>6, <2>4 DEF StateTyped
  <2> QED
    BY <1>1, <1>4, <2>1, <2>2, <2>3, <2>5 DEF Configuring, Mirrors, ZoneConfig
<1> QED
  BY <1>1, <1>5, <1>6, <1>7, <1>8, <1>9, StepInOrder DEF StateTyped

\* The row of a toggle, whatever became of the transaction.
LEMMA SaveLockGoesOn ==
  ASSUME FacilityInv, Remember, OneEditorPerZone', UNCHANGED hasContract, NEW h \in Handler, SaveLock(h)
  PROVE  FacilityInv'
<1> StateTyped /\ CallTyped(h) /\ RowAsRead(h)
  BY DEF FacilityInv, HandlersInOrder
<1> DEFINE c == call[h]
           row == [zoneRows[c.zone] EXCEPT !.isEmergencyLocked = c.locked]
<1>1. /\ pc[h] = "saveLock" /\ c \in ToggleCall /\ Configures(h) /\ zoneRows[c.zone] # NoRow
      /\ UNCHANGED <<zones, faults>> /\ Return(h)
      /\ zoneRows' = [zoneRows EXCEPT ![c.zone] = row]
  BY DEF SaveLock, CallTyped, RowAsRead, ToggleSteps, Configures, TapSteps, chain, accessVars
<1>2. c.zone \in Zone /\ c.locked \in BOOLEAN /\ zoneRows[c.zone] \in ZoneRow
  BY <1>1 DEF ToggleCall, StateTyped
<1>3. /\ row \in ZoneRow /\ row.isEmergencyLocked = c.locked
      /\ row.requiredClearance = zoneRows[c.zone].requiredClearance
      /\ row.sbu = zoneRows[c.zone].sbu
  BY <1>2 DEF ZoneRow
<1> HIDE DEF row
<1>4. /\ zoneRows' \in [Zone -> ZoneRow \cup {NoRow}] /\ zoneRows'[c.zone] = row
      /\ \A z \in Zone : z # c.zone => zoneRows'[z] = zoneRows[z]
  BY <1>1, <1>2, <1>3 DEF StateTyped
<1>5. /\ pc' = [pc EXCEPT ![h] = "idle"]
      /\ \A g \in Handler : g # h => pc'[g] = pc[g] /\ call'[g] = call[g]
      /\ call' = [g \in Handler |-> call'[g]]
  BY <1>1 DEF Return, StateTyped
<1>6. StateTyped'
  BY <1>1, <1>4, <1>5 DEF StateTyped, Remember
<1>7. CallTyped(h)' /\ RowAsRead(h)' /\ TapKnows(h)' /\ Configuring(h)'
  BY <1>5 DEF CallTyped, RowAsRead, TapKnows, Configuring, StateTyped, EditSteps, ToggleSteps,
              TapSteps
<1>8. ASSUME Faultless, NEW z \in Zone, z = c.zone PROVE Mirrors(z)'
  <2>1. Configuring(h)
    BY <1>8 DEF FacilityInv, FaultlessInOrder
  <2>2. row # NoRow
    BY <1>3
  <2> QED
    BY <1>1, <1>3, <1>4, <1>8, <2>1, <2>2 DEF Mirrors, Configuring
<1> QED
  BY <1>1, <1>4, <1>5, <1>6, <1>7, <1>8, StepInOrder DEF Faultless

-----------------------------------------------------------------------------
(* The steps of nobody's call *)

\* A step that only forgets calls, or none, keeps the invariant.
LEMMA NobodysStep ==
  ASSUME FacilityInv, Remember, OneEditorPerZone', UNCHANGED <<zones, zoneRows>>,
         \/ UNCHANGED <<hasContract, pc, call>> /\ (UNCHANGED faults \/ faults' = faults + 1)
         \/ /\ faults' = faults + 1
            /\ pc' = [h \in Handler |-> "idle"] /\ call' = [h \in Handler |-> NoCall]
  PROVE  FacilityInv'
<1> StateTyped /\ HandlersInOrder
  BY DEF FacilityInv
<1>1. faults' \in Nat /\ (Faultless' => Faultless /\ UNCHANGED <<pc, call>>)
  BY DEF StateTyped, Faultless
<1>2. StateTyped'
  BY <1>1 DEF StateTyped, Remember
<1>3. ASSUME NEW h \in Handler PROVE CallTyped(h)' /\ RowAsRead(h)' /\ TapKnows(h)'
  <2>1. CASE pc'[h] = "idle"
    BY <2>1 DEF CallTyped, RowAsRead, TapKnows, EditSteps, ToggleSteps, TapSteps
  <2>2. CASE pc'[h] = pc[h] /\ call'[h] = call[h] /\ pc[h] # "idle"
    <3>1. pc'[h] \in TapSteps => barred'[h] \subseteq barred[h]
      BY <2>2, BarredShrinks
    <3> QED
      BY <2>2, <3>1 DEF HandlersInOrder, CallTyped, RowAsRead, TapKnows, TapSteps
  <2> QED
    BY <2>1, <2>2
<1>4. FaultlessInOrder'
  <2> SUFFICES ASSUME Faultless' PROVE FaultlessInOrder'
    BY DEF FaultlessInOrder
  <2> UNCHANGED <<pc, call>> /\ Faultless
    BY <1>1
  <2> QED
    BY DEF FacilityInv, FaultlessInOrder, Configuring, Mirrors, WasLocked, Configures
<1> QED
  BY <1>2, <1>3, <1>4 DEF FacilityInv, HandlersInOrder

-----------------------------------------------------------------------------
(* The invariant and the properties *)

\* At the start no zone is known and nobody is at work.
LEMMA InitInOrder == FacilityInit => FacilityInv
<1> SUFFICES ASSUME FacilityInit PROVE FacilityInv
  OBVIOUS
<1>1. StateTyped
  BY DEF FacilityInit, InitAccess, StateTyped, NoZone, ZoneConfig
<1>2. OneEditorPerZone
  BY DEF FacilityInit, OneEditorPerZone, Configures
<1>3. HandlersInOrder
  BY DEF FacilityInit, HandlersInOrder, CallTyped, RowAsRead, TapKnows, EditSteps, ToggleSteps,
         TapSteps
<1>4. FaultlessInOrder
  <2>1. \A h \in Handler : Configuring(h)
    BY DEF FacilityInit, Configuring
  <2>2. \A z \in Zone : Mirrors(z)
    BY DEF FacilityInit, InitAccess, Mirrors, NoZone
  <2> QED
    BY <2>1, <2>2 DEF FaultlessInOrder
<1> QED
  BY <1>1, <1>2, <1>3, <1>4 DEF FacilityInv

\* Every step keeps the invariant.
LEMMA StepKeepsOrder ==
  ASSUME FacilityInv, FacilityNext, OneEditorPerZone'
  PROVE  FacilityInv'
<1> Remember /\ FacilityStep /\ (Restart \/ UNCHANGED hasContract)
  BY DEF FacilityNext, FacilityStep
<1>1. ASSUME UNCHANGED hasContract, NEW h \in Handler, Calls(h) PROVE FacilityInv'
  BY <1>1, CallsBegin
<1>2. ASSUME UNCHANGED hasContract, NEW h \in Handler, Proceed(h) PROVE FacilityInv'
  BY <1>2, ConfigureGoesOn, RelockGoesOn, SaveZoneGoesOn, ToggleGoesOn, SaveLockGoesOn, TapsGoOn
  DEF Proceed
<1>3. ASSUME UNCHANGED hasContract, NEW h \in Handler, Fails(h) PROVE FacilityInv'
  BY <1>3, EndsInOrder DEF Fails, Fault, chain, accessVars
<1>4. ASSUME UNCHANGED hasContract, NEW i \in DOMAIN taps, AuditAnswered(i) PROVE FacilityInv'
  BY <1>4, NobodysStep DEF AuditAnswered, Fault, chain, accessVars
<1>5. CASE UNCHANGED hasContract /\ OfficeActs
  BY <1>5, NobodysStep DEF OfficeActs, accessVars
<1>6. ASSUME UNCHANGED hasContract, NEW e \in Address, StampRow(e) PROVE FacilityInv'
  BY <1>6, NobodysStep DEF StampRow, chain, accessVars
<1>7. CASE Restart
  BY <1>7, NobodysStep DEF Restart, Fault, chain, accessVars
<1> QED
  BY <1>1, <1>2, <1>3, <1>4, <1>5, <1>6, <1>7 DEF FacilityStep

\* A stuttering step changes nothing that the invariant is about.
LEMMA StutterKeepsOrder ==
  ASSUME FacilityInv, UNCHANGED facilityVars
  PROVE  FacilityInv'
BY DEF FacilityInv, StateTyped, OneEditorPerZone, HandlersInOrder, FaultlessInOrder, CallTyped,
       RowAsRead, TapKnows, Configuring, Mirrors, WasLocked, Configures, Faultless,
       facilityVars, chain,
       accessVars

\* What an edit has read is still the row when it is written, what bars a tap is
\* among what the tap has read, and the contract differs from the rows only where
\* a call is configuring.
THEOREM FacilityInvHolds == FacilitySpec => []FacilityInv
<1>1. FacilityInit => FacilityInv
  BY InitInOrder
<1>2. FacilityInv /\ [FacilityNext /\ OneEditorPerZone']_facilityVars => FacilityInv'
  BY StepKeepsOrder, StutterKeepsOrder
<1> QED
  BY <1>1, <1>2, PTL DEF FacilitySpec

\* As long as nothing failed, the contract decides by the rows the console shows.
THEOREM CacheMirrorsZonesHolds == FacilitySpec => []CacheMirrorsZones
<1>1. FacilityInv => CacheMirrorsZones
  BY DEF FacilityInv, FaultlessInOrder, Faultless, Mirrors, CacheMirrorsZones
<1> QED
  BY <1>1, FacilityInvHolds, PTL

\* The contract says something else of a zone only after a transaction of a call that
\* configures it.
LEMMA ZonesChange ==
  ASSUME FacilityInv, FacilityNext, NEW z \in Zone, zones'[z] # zones[z]
  PROVE  \E h \in Handler : /\ pc[h] \in {"configure", "relock", "toggle"}
                            /\ call[h].zone = z
<1> StateTyped
  BY DEF FacilityInv
<1>1. zones' # zones
  OBVIOUS
<1>2. PICK h \in Handler : ConfigureZone(h) \/ Relock(h) \/ Toggle(h)
  BY <1>1
  DEF FacilityNext, FacilityStep, Calls, UpsertZone, SetZoneLockdown, BadgeTap, Proceed,
      SaveZone, SaveLock, ReadZone, AskChain, RecordTap, Fails, AuditAnswered,
      OfficeActs, StampRow, Restart, chain, accessVars
<1>3. pc[h] \in {"configure", "relock", "toggle"}
  BY <1>2 DEF ConfigureZone, Relock, Toggle
<1>4. \E x : zones' = [zones EXCEPT ![call[h].zone] = x]
  BY <1>1, <1>2
  DEF ConfigureZone, Relock, Toggle, Send, Skip, CreateZone, ToggleEmergencyLockdown, chain,
      accessVars
<1> QED
  BY <1>3, <1>4 DEF StateTyped

\* As long as nothing failed, a gate that only the contract shuts is shut by a call
\* that is about to write the same to its row.
LEMMA LockedOnChainOnly ==
  ASSUME FacilityInv, Faultless, NEW z \in Zone, zoneRows[z] # NoRow,
         ~zoneRows[z].isEmergencyLocked, zones[z].isLockedDown
  PROVE  \E h \in Handler : pc[h] = "saveLock" /\ call[h].zone = z
<1> StateTyped /\ HandlersInOrder
  BY DEF FacilityInv
<1>1. zoneRows[z] \in ZoneRow /\ zones[z].isLockedDown # zoneRows[z].isEmergencyLocked
  BY DEF StateTyped
<1>2. ~Mirrors(z)
  BY <1>1 DEF Mirrors
<1>3. PICK h \in Handler : Configures(h) /\ call[h].zone = z
  BY <1>2 DEF FacilityInv, FaultlessInOrder
<1>4. Configuring(h) /\ CallTyped(h) /\ RowAsRead(h)
  BY DEF FacilityInv, FaultlessInOrder, HandlersInOrder
<1>5. pc[h] \in EditSteps => WasLocked(call[h]) = FALSE
  BY <1>1, <1>3, <1>4 DEF RowAsRead, WasLocked
<1>6. pc[h] \notin EditSteps
  BY <1>2, <1>3, <1>4, <1>5 DEF Configuring, EditSteps
<1> QED
  BY <1>2, <1>3, <1>4, <1>6 DEF Configures, Configuring, StateTyped, ToggleSteps

\* A gate that is shut is opened by a call that was asked to, or by an edit that reports
\* it: under faults if its row is locked, and always as long as nothing failed.
THEOREM NeverSilentlyReopenedHolds == FacilitySpec => NeverSilentlyReopened
<1> DEFINE Reported(z) == \E h \in Handler : /\ pc[h] \in {"saveLock", "saveUnlocked"}
                                             /\ call[h].zone = z
                                             /\ pc[h] = "saveLock" => ~call[h].locked
<1>1. ASSUME FacilityInv, FacilityNext, OneEditorPerZone', NEW z \in Zone,
             zoneRows[z] # NoRow, ~OpensOnTap(z), OpensOnTap(z)',
             zoneRows[z].isEmergencyLocked \/ Faultless
      PROVE  Reported(z)
  <2>0. CASE ~zoneRows[z].isEmergencyLocked
    <3>1. zones[z].isLockedDown /\ ~zones'[z].isLockedDown
      BY <1>1, <2>0 DEF OpensOnTap
    <3>2. PICK h \in Handler : pc[h] = "saveLock" /\ call[h].zone = z
      BY <1>1, <2>0, <3>1, LockedOnChainOnly
    <3>3. zones'[z] # zones[z]
      BY <3>1
    <3>4. PICK g \in Handler : pc[g] \in {"configure", "relock", "toggle"} /\ call[g].zone = z
      BY <1>1, <3>3, ZonesChange
    <3>5. Configures(h) /\ Configures(g) /\ g # h
      BY <3>2, <3>4 DEF Configures, TapSteps
    <3> QED
      BY <1>1, <3>2, <3>4, <3>5 DEF FacilityInv, OneEditorPerZone
  <2> SUFFICES ASSUME zoneRows[z].isEmergencyLocked PROVE Reported(z)
    BY <1>1, <2>0
  <2> USE <1>1
  <2>1. zoneRows' # zoneRows
    BY DEF OpensOnTap
  <2>2. PICK h \in Handler : SaveZone(h) \/ SaveLock(h)
    BY <2>1
    DEF FacilityNext, FacilityStep, Calls, UpsertZone, SetZoneLockdown, BadgeTap, Proceed,
        ConfigureZone, Relock, Toggle, ReadZone, AskChain, RecordTap, Fails, AuditAnswered,
        OfficeActs, StampRow, Restart
  <2>3. CallTyped(h) /\ RowAsRead(h) /\ StateTyped
    BY DEF FacilityInv, HandlersInOrder
  <2>4. CASE SaveZone(h)
    <3>1. zoneRows' = [zoneRows EXCEPT ![call[h].zone] =
             [requiredClearance |-> call[h].requiredClearance, sbu |-> call[h].sbu,
              isEmergencyLocked |-> zoneRows[call[h].zone] # NoRow /\ LockAfterEdit(h)]]
      BY <2>4 DEF SaveZone
    <3>2. call[h].zone = z /\ ~zoneRows'[z].isEmergencyLocked
      BY <2>3, <3>1 DEF OpensOnTap, StateTyped
    <3>3. ~LockAfterEdit(h)
      BY <2>3, <3>1, <3>2 DEF StateTyped
    <3>4. call[h].existing = zoneRows[z]
      BY <2>3, <2>4, <3>2 DEF RowAsRead, SaveZone, EditSteps
    <3> QED
      BY <2>4, <3>2, <3>3, <3>4 DEF SaveZone, LockAfterEdit, WasLocked
  <2>5. CASE SaveLock(h)
    <3>1. zoneRows' = [zoneRows EXCEPT ![call[h].zone] =
                          [zoneRows[call[h].zone] EXCEPT !.isEmergencyLocked = call[h].locked]]
      BY <2>5 DEF SaveLock
    <3>2. call[h].zone = z /\ ~zoneRows'[z].isEmergencyLocked
      BY <2>3, <3>1 DEF OpensOnTap, StateTyped
    <3>3. zoneRows[z] \in ZoneRow
      BY <2>3 DEF StateTyped
    <3>4. zoneRows'[z].isEmergencyLocked = call[h].locked
      BY <2>3, <3>1, <3>2, <3>3 DEF StateTyped, ZoneRow
    <3> QED
      BY <2>5, <3>2, <3>4 DEF SaveLock
  <2> QED
    BY <2>2, <2>4, <2>5
<1>2. FacilityInv /\ [FacilityNext /\ OneEditorPerZone']_facilityVars
        => [\A z \in Zone :
              /\ zoneRows[z] # NoRow /\ ~OpensOnTap(z) /\ OpensOnTap(z)'
              /\ zoneRows[z].isEmergencyLocked \/ (faults = 0 /\ hasContract)
              => Reported(z)]_facilityVars
  BY <1>1 DEF Faultless
<1> QED
  BY <1>2, FacilityInvHolds, PTL DEF FacilitySpec, NeverSilentlyReopened

\* A tap that something has barred from its arrival to its end lets nobody in.
THEOREM NoEntryWhileBarredHolds == FacilitySpec => NoEntryWhileBarred
<1>1. FacilityInv => \A h \in Handler : pc[h] = "record" /\ call[h].granted => barred[h] = {}
  BY DEF FacilityInv, HandlersInOrder, TapKnows
<1>2. FacilityInv /\ [FacilityNext /\ OneEditorPerZone']_facilityVars
        => [\A h \in Handler :
              pc[h] = "record" /\ taps' # taps /\ pc'[h] = "idle" /\ call[h].granted
                  => barred[h] = {}]_facilityVars
  BY <1>1
<1> QED
  BY <1>2, FacilityInvHolds, PTL DEF FacilitySpec, NoEntryWhileBarred
=============================================================================
