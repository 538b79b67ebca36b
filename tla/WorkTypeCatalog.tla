--------------------------- MODULE WorkTypeCatalog ---------------------------
(***************************************************************************)
(* The global work catalogue the application ships: the 99 work types, the *)
(* parameters an item of each of them has, and the formula that prices it. *)
(* The three tables live in three files that know each other only by code, *)
(* and a guard at import compares them.  Kept is what acceptance and       *)
(* pricing read: codes, sections, requiredness, bounds and options of the  *)
(* parameters; rates, surcharges and their conditions.  Labels, help texts,*)
(* identifiers and the options nothing prices are left out.                *)
(*                                                                         *)
(* Money in the tables is in whole crowns, hours in thousandths, bounds in *)
(* hundredths: every number of the source is exact in its unit.            *)
(***************************************************************************)
EXTENDS Integers, Sequences, FiniteSets, SequencesExt

-----------------------------------------------------------------------------
(* Parameters: a row of a schema, and the options a surcharge can ask for. *)

SEVERITY_OPTIONS == {"minor", "moderate", "major"}
SUBSTRATE_CONDITION_OPTIONS == {"sound", "minor-prep", "major-prep", "moisture-affected"}
EXISTING_CONDITION_OPTIONS == {"sound", "weathered", "locally-damaged", "failed"}
OPENING_CONDITION_OPTIONS ==
    {"ready-opening", "minor-adjustment", "structural-rework", "moisture-damaged"}
GROUND_CONDITION_OPTIONS == {"standard-soil", "wet-soil", "rocky-ground", "restricted-dig"}
ACCESS_EXTERIOR_OPTIONS ==
    {"ground-level", "ladder-access", "scaffold-access", "mobile-lift", "rope-access"}
ACCESS_INTERIOR_OPTIONS ==
    {"clear-interior", "occupied-interior", "confined-space", "off-hours", "protected-finish-zone"}
ACCESS_ROOF_OPTIONS ==
    {"roof-ladder", "scaffold-access", "mobile-lift", "rope-access", "crane-assisted"}
ACCESS_SERVICE_OPTIONS ==
    {"clear-access", "occupied-space", "confined-space", "live-utility-zone", "out-of-hours"}

\* The options of a material, a defect or an asset: no price depends on them.
UnpricedOptions == {"any"}

ParameterRow(section, code, kind, required, domain) ==
    [section |-> section, code |-> code, kind |-> kind, required |-> required, domain |-> domain]

RequiredNumber(section, code, low, high) ==
    ParameterRow(section, code, "number", TRUE, low..high)
OptionalNumber(section, code, low, high) ==
    ParameterRow(section, code, "number", FALSE, low..high)
RequiredOption(section, code, options) == ParameterRow(section, code, "option", TRUE, options)
RequiredText(section, code) == ParameterRow(section, code, "text", TRUE, UnpricedOptions)
OptionalFlag(section, code) == ParameterRow(section, code, "boolean", FALSE, BOOLEAN)

Notes == ParameterRow("optional_notes", "operator-notes", "text", FALSE, UnpricedOptions)
Severity == RequiredOption("condition_or_damage", "severity-band", SEVERITY_OPTIONS)
Access(options) == RequiredOption("access_and_complexity", "access-method", options)
Material(code) == RequiredOption("materials", code, UnpricedOptions)
Defect(code) == RequiredOption("condition_or_damage", code, UnpricedOptions)
Condition(code, options) == RequiredOption("condition_or_damage", code, options)

AreaRepairSchema(material, issue, dimension, low, high, access) == {
    RequiredNumber("quantity_scope", "work-area-sqm", 10, 2500000),
    OptionalNumber("dimensions", dimension, low, high),
    Material(material), Defect(issue), Severity, Access(access),
    OptionalNumber("quantity_scope", "repair-zones-count", 100, 50000), Notes}

AreaInstallationSchema(material, condition, conditions, dimension, high, access) == {
    RequiredNumber("quantity_scope", "work-area-sqm", 10, 4000000),
    OptionalNumber("dimensions", dimension, 100, high),
    Material(material), Condition(condition, conditions), Access(access),
    OptionalNumber("quantity_scope", "zone-count", 100, 50000), Notes}

CountInstallationSchema(material, condition, conditions, access) == {
    RequiredNumber("quantity_scope", "quantity", 100, 50000),
    OptionalNumber("dimensions", "opening-width-mm", 30000, 400000),
    OptionalNumber("dimensions", "opening-height-mm", 30000, 400000),
    Material(material), Condition(condition, conditions), Access(access),
    OptionalFlag("quantity_scope", "existing-unit-removal-required"), Notes}

CountRepairSchema(material, issue, access) == {
    RequiredNumber("quantity_scope", "quantity", 100, 50000),
    OptionalNumber("dimensions", "affected-size-mm", 100, 500000),
    Material(material), Defect(issue), Severity, Access(access),
    OptionalFlag("quantity_scope", "temporary-fix-required"), Notes}

LengthInstallationSchema(material, condition, conditions, access) == {
    RequiredNumber("quantity_scope", "length-m", 50, 500000),
    OptionalNumber("dimensions", "section-size-mm", 5000, 100000),
    Material(material), Condition(condition, conditions), Access(access),
    OptionalNumber("quantity_scope", "run-count", 100, 50000), Notes}

LengthRepairSchema(material, issue, access) == {
    RequiredNumber("quantity_scope", "length-m", 50, 500000),
    OptionalNumber("dimensions", "section-size-mm", 5000, 100000),
    Material(material), Defect(issue), Severity, Access(access),
    OptionalNumber("quantity_scope", "joint-count", 100, 50000), Notes}

VolumeConstructionSchema == {
    RequiredNumber("quantity_scope", "volume-m3", 10, 1000000),
    OptionalNumber("dimensions", "foundation-depth-mm", 20000, 500000),
    Material("foundation-system-type"), Condition("ground-condition", GROUND_CONDITION_OPTIONS),
    RequiredOption("access_and_complexity", "site-access-method", ACCESS_EXTERIOR_OPTIONS),
    OptionalNumber("quantity_scope", "pour-zone-count", 100, 10000), Notes}

ScopeInstallationSchema(material, conditions, dimension, low, high, quantity) == {
    RequiredText("quantity_scope", "scope-description"),
    OptionalNumber("dimensions", dimension, low, high),
    Material(material), Condition("site-condition", conditions), Access(ACCESS_SERVICE_OPTIONS),
    OptionalNumber("quantity_scope", quantity, 100, 50000), Notes}

InspectionSchema == {
    RequiredNumber("quantity_scope", "quantity", 100, 2000),
    RequiredOption("quantity_scope", "inspection-type", UnpricedOptions),
    OptionalNumber("dimensions", "inspection-area-sqm", 100, 5000000),
    Material("asset-type"), Condition("condition-band", UnpricedOptions),
    Access(ACCESS_EXTERIOR_OPTIONS),
    OptionalFlag("quantity_scope", "formal-report-required"), Notes}

MaintenanceSchema == {
    RequiredNumber("quantity_scope", "quantity", 100, 5000),
    OptionalNumber("dimensions", "service-duration-hours", 50, 2400),
    Material("service-asset-type"), Condition("service-visit-type", UnpricedOptions),
    Access(ACCESS_SERVICE_OPTIONS),
    OptionalFlag("quantity_scope", "consumables-included"), Notes}

CleaningSchema == {
    RequiredNumber("quantity_scope", "work-area-sqm", 100, 5000000),
    OptionalNumber("dimensions", "ceiling-height-mm", 220000, 800000),
    Material("surface-type"), Condition("contamination-level", UnpricedOptions),
    Access(ACCESS_INTERIOR_OPTIONS),
    OptionalNumber("quantity_scope", "waste-bag-count", 0, 500000), Notes}

EmergencySchema == {
    RequiredNumber("quantity_scope", "quantity", 100, 5000),
    OptionalNumber("dimensions", "response-time-hours", 25, 2400),
    Material("affected-system"), Defect("incident-type"), Severity,
    Access(ACCESS_SERVICE_OPTIONS),
    OptionalFlag("quantity_scope", "temporary-stabilization-required"), Notes}

MasonrySchemas ==
    "chimney-renovation"      :> AreaRepairSchema("chimney-material-type", "masonry-damage-type", "stack-height-mm", 50000, 1500000, ACCESS_ROOF_OPTIONS) @@
    "chimney-new-build"       :> CountInstallationSchema("chimney-system-type", "opening-condition", SUBSTRATE_CONDITION_OPTIONS, ACCESS_ROOF_OPTIONS) @@
    "wall-construction"       :> AreaInstallationSchema("wall-material-type", "substrate-condition", SUBSTRATE_CONDITION_OPTIONS, "wall-thickness-mm", 50000, ACCESS_INTERIOR_OPTIONS) @@
    "wall-demolition"         :> AreaRepairSchema("demolition-scope-type", "demolition-condition", "wall-thickness-mm", 5000, 60000, ACCESS_INTERIOR_OPTIONS) @@
    "plastering"              :> AreaInstallationSchema("plaster-system-type", "substrate-condition", SUBSTRATE_CONDITION_OPTIONS, "plaster-thickness-mm", 5000, ACCESS_INTERIOR_OPTIONS) @@
    "facade-installation"     :> AreaInstallationSchema("facade-system-type", "substrate-condition", SUBSTRATE_CONDITION_OPTIONS, "system-build-up-mm", 40000, ACCESS_EXTERIOR_OPTIONS) @@
    "insulation-installation" :> AreaInstallationSchema("insulation-material-type", "substrate-condition", SUBSTRATE_CONDITION_OPTIONS, "insulation-thickness-mm", 30000, ACCESS_EXTERIOR_OPTIONS)

FloorSchemas ==
    "foundation-work"          :> VolumeConstructionSchema @@
    "pedestal-paving"          :> AreaInstallationSchema("paving-system-type", "substrate-condition", SUBSTRATE_CONDITION_OPTIONS, "pedestal-height-mm", 50000, ACCESS_EXTERIOR_OPTIONS) @@
    "tile-installation"        :> AreaInstallationSchema("tile-system-type", "substrate-condition", SUBSTRATE_CONDITION_OPTIONS, "tile-size-mm", 180000, ACCESS_INTERIOR_OPTIONS) @@
    "floor-renovation"         :> AreaRepairSchema("floor-finish-type", "floor-damage-type", "repair-depth-mm", 100, 15000, ACCESS_INTERIOR_OPTIONS) @@
    "vinyl-floor-installation" :> AreaInstallationSchema("vinyl-system-type", "substrate-condition", SUBSTRATE_CONDITION_OPTIONS, "wear-layer-microns", 100000, ACCESS_INTERIOR_OPTIONS) @@
    "wood-floor-installation"  :> AreaInstallationSchema("wood-floor-system-type", "substrate-condition", SUBSTRATE_CONDITION_OPTIONS, "board-width-mm", 30000, ACCESS_INTERIOR_OPTIONS) @@
    "concrete-floor"           :> AreaInstallationSchema("concrete-finish-type", "substrate-condition", SUBSTRATE_CONDITION_OPTIONS, "slab-thickness-mm", 25000, ACCESS_INTERIOR_OPTIONS) @@
    "roof-repair"              :> AreaRepairSchema("roof-covering-type", "damage-type", "roof-pitch-deg", 0, 7500, ACCESS_ROOF_OPTIONS)

RoofAndOpeningSchemas ==
    "roof-installation"       :> AreaInstallationSchema("roof-covering-type", "deck-condition", SUBSTRATE_CONDITION_OPTIONS, "roof-pitch-deg", 7500, ACCESS_ROOF_OPTIONS) @@
    "roof-inspection"         :> InspectionSchema @@
    "gutter-installation"     :> LengthInstallationSchema("gutter-material-type", "fascia-condition", SUBSTRATE_CONDITION_OPTIONS, ACCESS_EXTERIOR_OPTIONS) @@
    "gutter-repair"           :> LengthRepairSchema("gutter-material-type", "gutter-failure-type", ACCESS_EXTERIOR_OPTIONS) @@
    "roof-insulation"         :> AreaInstallationSchema("insulation-material-type", "roof-deck-condition", SUBSTRATE_CONDITION_OPTIONS, "insulation-thickness-mm", 30000, ACCESS_ROOF_OPTIONS) @@
    "window-installation"     :> CountInstallationSchema("window-frame-material", "opening-condition", OPENING_CONDITION_OPTIONS, ACCESS_INTERIOR_OPTIONS) @@
    "window-replacement"      :> CountRepairSchema("window-frame-material", "window-defect-type", ACCESS_INTERIOR_OPTIONS) @@
    "door-installation"       :> CountInstallationSchema("door-system-type", "opening-condition", OPENING_CONDITION_OPTIONS, ACCESS_INTERIOR_OPTIONS) @@
    "door-repair"             :> CountRepairSchema("door-system-type", "door-defect-type", ACCESS_INTERIOR_OPTIONS) @@
    "electrical-installation" :> ScopeInstallationSchema("electrical-system-type", SUBSTRATE_CONDITION_OPTIONS, "route-length-m", 100, 500000, "circuit-count")

InstallationSchemas ==
    "electrical-repair"     :> CountRepairSchema("electrical-system-type", "electrical-fault-type", ACCESS_SERVICE_OPTIONS) @@
    "plumbing-installation" :> ScopeInstallationSchema("plumbing-system-type", SUBSTRATE_CONDITION_OPTIONS, "route-length-m", 100, 500000, "fixture-count") @@
    "plumbing-repair"       :> CountRepairSchema("plumbing-system-type", "plumbing-fault-type", ACCESS_SERVICE_OPTIONS) @@
    "heating-installation"  :> ScopeInstallationSchema("heating-system-type", SUBSTRATE_CONDITION_OPTIONS, "heated-area-sqm", 1000, 1000000, "heating-zone-count") @@
    "boiler-installation"   :> CountInstallationSchema("boiler-type", "plantroom-condition", SUBSTRATE_CONDITION_OPTIONS, ACCESS_SERVICE_OPTIONS) @@
    "radiator-installation" :> CountInstallationSchema("radiator-type", "wall-condition", SUBSTRATE_CONDITION_OPTIONS, ACCESS_INTERIOR_OPTIONS) @@
    "painting"              :> AreaInstallationSchema("paint-system-type", "surface-condition", SUBSTRATE_CONDITION_OPTIONS, "coat-count", 500, ACCESS_INTERIOR_OPTIONS) @@
    "interior-finishing"    :> AreaInstallationSchema("finishing-scope-type", "substrate-condition", SUBSTRATE_CONDITION_OPTIONS, "finish-thickness-mm", 4000, ACCESS_INTERIOR_OPTIONS)

FinishingAndServiceSchemas ==
    "drywall-installation"        :> AreaInstallationSchema("drywall-system-type", "frame-condition", SUBSTRATE_CONDITION_OPTIONS, "board-thickness-mm", 2500, ACCESS_INTERIOR_OPTIONS) @@
    "ceiling-installation"        :> AreaInstallationSchema("ceiling-system-type", "plenum-condition", SUBSTRATE_CONDITION_OPTIONS, "drop-height-mm", 200000, ACCESS_INTERIOR_OPTIONS) @@
    "terrace-construction"        :> AreaInstallationSchema("terrace-system-type", "base-condition", SUBSTRATE_CONDITION_OPTIONS, "build-up-height-mm", 50000, ACCESS_EXTERIOR_OPTIONS) @@
    "fence-installation"          :> LengthInstallationSchema("fence-system-type", "ground-condition", GROUND_CONDITION_OPTIONS, ACCESS_EXTERIOR_OPTIONS) @@
    "driveway-paving"             :> AreaInstallationSchema("driveway-surface-type", "sub-base-condition", SUBSTRATE_CONDITION_OPTIONS, "paving-thickness-mm", 30000, ACCESS_EXTERIOR_OPTIONS) @@
    "garden-landscaping"          :> AreaInstallationSchema("landscaping-scope-type", "site-condition", GROUND_CONDITION_OPTIONS, "topsoil-depth-mm", 50000, ACCESS_EXTERIOR_OPTIONS) @@
    "inspection"                  :> InspectionSchema @@
    "maintenance"                 :> MaintenanceSchema @@
    "cleaning-after-construction" :> CleaningSchema @@
    "emergency-repair"            :> EmergencySchema @@
    "roof-cover-installation"     :> AreaInstallationSchema("roof-covering-type", "deck-condition", SUBSTRATE_CONDITION_OPTIONS, "roof-pitch-deg", 7500, ACCESS_ROOF_OPTIONS)

RoofCoverSchemas ==
    "roof-cover-replacement"    :> AreaRepairSchema("roof-covering-type", "damage-type", "roof-pitch-deg", 0, 7500, ACCESS_ROOF_OPTIONS) @@
    "roof-cover-cleaning"       :> AreaInstallationSchema("roof-covering-type", "contamination-condition", EXISTING_CONDITION_OPTIONS, "roof-pitch-deg", 7500, ACCESS_ROOF_OPTIONS) @@
    "roof-truss-new"            :> AreaInstallationSchema("truss-material-type", "wall-plate-condition", SUBSTRATE_CONDITION_OPTIONS, "roof-span-mm", 2000000, ACCESS_ROOF_OPTIONS) @@
    "roof-truss-repair"         :> AreaRepairSchema("truss-material-type", "structural-damage-type", "repair-length-mm", 10000, 1000000, ACCESS_ROOF_OPTIONS) @@
    "roof-truss-reconstruction" :> AreaInstallationSchema("truss-material-type", "existing-truss-condition", EXISTING_CONDITION_OPTIONS, "roof-span-mm", 2000000, ACCESS_ROOF_OPTIONS) @@
    "roof-truss-reinforcement"  :> AreaRepairSchema("truss-material-type", "structural-weakness-type", "member-length-mm", 10000, 1000000, ACCESS_ROOF_OPTIONS) @@
    "roof-insulation-repair"    :> AreaRepairSchema("insulation-material-type", "insulation-damage-type", "insulation-thickness-mm", 2000, 50000, ACCESS_ROOF_OPTIONS)

RoofFittingSchemas ==
    "roof-insulation-replacement"   :> AreaInstallationSchema("insulation-material-type", "deck-condition", SUBSTRATE_CONDITION_OPTIONS, "insulation-thickness-mm", 40000, ACCESS_ROOF_OPTIONS) @@
    "gutter-replacement"            :> LengthInstallationSchema("gutter-material-type", "fascia-condition", SUBSTRATE_CONDITION_OPTIONS, ACCESS_EXTERIOR_OPTIONS) @@
    "gutter-cleaning"               :> LengthRepairSchema("gutter-material-type", "blockage-type", ACCESS_EXTERIOR_OPTIONS) @@
    "skylight-installation"         :> CountInstallationSchema("skylight-type", "deck-condition", SUBSTRATE_CONDITION_OPTIONS, ACCESS_ROOF_OPTIONS) @@
    "skylight-repair"               :> CountRepairSchema("skylight-type", "skylight-defect-type", ACCESS_ROOF_OPTIONS) @@
    "skylight-replacement"          :> CountInstallationSchema("skylight-type", "existing-condition", EXISTING_CONDITION_OPTIONS, ACCESS_ROOF_OPTIONS) @@
    "facade-plaster-repair"         :> AreaRepairSchema("plaster-system-type", "plaster-damage-type", "plaster-thickness-mm", 500, 5000, ACCESS_EXTERIOR_OPTIONS) @@
    "facade-plaster-reconstruction" :> AreaInstallationSchema("plaster-system-type", "substrate-condition", SUBSTRATE_CONDITION_OPTIONS, "plaster-thickness-mm", 5000, ACCESS_EXTERIOR_OPTIONS)

FacadeSchemas ==
    "facade-insulation-repair"         :> AreaRepairSchema("facade-system-type", "insulation-damage-type", "system-build-up-mm", 5000, 40000, ACCESS_EXTERIOR_OPTIONS) @@
    "facade-insulation-reconstruction" :> AreaInstallationSchema("facade-system-type", "substrate-condition", SUBSTRATE_CONDITION_OPTIONS, "system-build-up-mm", 40000, ACCESS_EXTERIOR_OPTIONS) @@
    "facade-coating-renewal"           :> AreaRepairSchema("paint-system-type", "coating-condition", "dry-film-thickness-um", 5000, 200000, ACCESS_EXTERIOR_OPTIONS) @@
    "facade-crack-repair"              :> AreaRepairSchema("crack-type", "facade-damage-type", "crack-width-mm", 0, 5000, ACCESS_EXTERIOR_OPTIONS) @@
    "facade-crack-remediation"         :> AreaRepairSchema("crack-type", "facade-damage-type", "crack-width-mm", 0, 10000, ACCESS_EXTERIOR_OPTIONS) @@
    "chimney-body-repair"              :> AreaRepairSchema("chimney-material-type", "masonry-damage-type", "stack-height-mm", 50000, 1500000, ACCESS_ROOF_OPTIONS) @@
    "chimney-body-removal"             :> CountRepairSchema("chimney-material-type", "removal-reason", ACCESS_ROOF_OPTIONS) @@
    "chimney-lining-installation"      :> LengthInstallationSchema("lining-material-type", "flue-condition", SUBSTRATE_CONDITION_OPTIONS, ACCESS_ROOF_OPTIONS)

ChimneySchemas ==
    "chimney-lining-replacement"    :> LengthInstallationSchema("lining-material-type", "existing-liner-condition", EXISTING_CONDITION_OPTIONS, ACCESS_ROOF_OPTIONS) @@
    "chimney-lining-repair"         :> LengthRepairSchema("lining-material-type", "liner-failure-type", ACCESS_ROOF_OPTIONS) @@
    "chimney-plaster-new"           :> AreaInstallationSchema("plaster-system-type", "substrate-condition", SUBSTRATE_CONDITION_OPTIONS, "stack-height-mm", 1500000, ACCESS_ROOF_OPTIONS) @@
    "chimney-plaster-repair"        :> AreaRepairSchema("plaster-system-type", "plaster-damage-type", "stack-height-mm", 50000, 1500000, ACCESS_ROOF_OPTIONS) @@
    "chimney-head-repair"           :> CountRepairSchema("chimney-material-type", "head-damage-type", ACCESS_ROOF_OPTIONS) @@
    "chimney-head-reconstruction"   :> CountInstallationSchema("chimney-material-type", "stack-interface-condition", SUBSTRATE_CONDITION_OPTIONS, ACCESS_ROOF_OPTIONS) @@
    "chimney-head-cap-installation" :> CountInstallationSchema("cap-material-type", "pot-condition", SUBSTRATE_CONDITION_OPTIONS, ACCESS_ROOF_OPTIONS) @@
    "foundation-waterproofing-new"  :> AreaInstallationSchema("waterproofing-system-type", "substrate-condition", SUBSTRATE_CONDITION_OPTIONS, "membrane-thickness-mm", 5000, ACCESS_EXTERIOR_OPTIONS)

FoundationSchemas ==
    "foundation-waterproofing-repair"  :> AreaRepairSchema("waterproofing-system-type", "waterproofing-failure-type", "membrane-thickness-mm", 200, 5000, ACCESS_EXTERIOR_OPTIONS) @@
    "foundation-masonry-repair"        :> AreaRepairSchema("wall-material-type", "masonry-damage-type", "wall-thickness-mm", 15000, 100000, ACCESS_EXTERIOR_OPTIONS) @@
    "foundation-moisture-remediation"  :> AreaRepairSchema("waterproofing-system-type", "moisture-damage-type", "wall-height-mm", 10000, 300000, ACCESS_EXTERIOR_OPTIONS) @@
    "foundation-drainage-installation" :> LengthInstallationSchema("drainage-system-type", "ground-condition", GROUND_CONDITION_OPTIONS, ACCESS_EXTERIOR_OPTIONS) @@
    "foundation-drainage-repair"       :> LengthRepairSchema("drainage-system-type", "drainage-failure-type", ACCESS_EXTERIOR_OPTIONS) @@
    "window-repair"                    :> CountRepairSchema("window-frame-material", "window-defect-type", ACCESS_INTERIOR_OPTIONS) @@
    "window-adjustment"                :> CountRepairSchema("window-frame-material", "window-defect-type", ACCESS_INTERIOR_OPTIONS) @@
    "door-replacement"                 :> CountInstallationSchema("door-system-type", "opening-condition", OPENING_CONDITION_OPTIONS, ACCESS_INTERIOR_OPTIONS) @@
    "sealing-installation"             :> LengthInstallationSchema("sealing-type", "frame-interface-condition", SUBSTRATE_CONDITION_OPTIONS, ACCESS_INTERIOR_OPTIONS)

BalconySchemas ==
    "sealing-replacement"                  :> LengthRepairSchema("sealing-type", "sealing-failure-type", ACCESS_INTERIOR_OPTIONS) @@
    "balcony-waterproofing-new"            :> AreaInstallationSchema("waterproofing-system-type", "deck-substrate-condition", SUBSTRATE_CONDITION_OPTIONS, "membrane-thickness-mm", 3000, ACCESS_EXTERIOR_OPTIONS) @@
    "balcony-waterproofing-repair"         :> AreaRepairSchema("waterproofing-system-type", "waterproofing-failure-type", "membrane-thickness-mm", 200, 3000, ACCESS_EXTERIOR_OPTIONS) @@
    "balcony-waterproofing-reconstruction" :> AreaInstallationSchema("waterproofing-system-type", "deck-condition", SUBSTRATE_CONDITION_OPTIONS, "membrane-thickness-mm", 3000, ACCESS_EXTERIOR_OPTIONS) @@
    "balcony-surface-installation"         :> AreaInstallationSchema("balcony-surface-type", "deck-condition", SUBSTRATE_CONDITION_OPTIONS, "surface-thickness-mm", 15000, ACCESS_EXTERIOR_OPTIONS) @@
    "balcony-surface-repair"               :> AreaRepairSchema("balcony-surface-type", "surface-damage-type", "surface-thickness-mm", 500, 15000, ACCESS_EXTERIOR_OPTIONS) @@
    "balcony-surface-replacement"          :> AreaInstallationSchema("balcony-surface-type", "deck-condition", SUBSTRATE_CONDITION_OPTIONS, "surface-thickness-mm", 15000, ACCESS_EXTERIOR_OPTIONS) @@
    "balcony-railing-installation"         :> LengthInstallationSchema("railing-material-type", "deck-edge-condition", SUBSTRATE_CONDITION_OPTIONS, ACCESS_EXTERIOR_OPTIONS)

InteriorSchemas ==
    "balcony-railing-repair"      :> LengthRepairSchema("railing-material-type", "railing-failure-type", ACCESS_EXTERIOR_OPTIONS) @@
    "balcony-railing-replacement" :> LengthInstallationSchema("railing-material-type", "existing-railing-condition", EXISTING_CONDITION_OPTIONS, ACCESS_EXTERIOR_OPTIONS) @@
    "interior-wall-repair"        :> AreaRepairSchema("plaster-system-type", "wall-damage-type", "wall-height-mm", 200000, 600000, ACCESS_INTERIOR_OPTIONS) @@
    "interior-floor-installation" :> AreaInstallationSchema("floor-system-type", "substrate-condition", SUBSTRATE_CONDITION_OPTIONS, "floor-build-up-mm", 20000, ACCESS_INTERIOR_OPTIONS) @@
    "interior-floor-replacement"  :> AreaInstallationSchema("floor-system-type", "subfloor-condition", SUBSTRATE_CONDITION_OPTIONS, "floor-build-up-mm", 20000, ACCESS_INTERIOR_OPTIONS) @@
    "interior-ceiling-repair"     :> AreaRepairSchema("ceiling-system-type", "ceiling-damage-type", "ceiling-height-mm", 220000, 600000, ACCESS_INTERIOR_OPTIONS) @@
    "interior-ceiling-lowering"   :> AreaInstallationSchema("ceiling-system-type", "substrate-condition", SUBSTRATE_CONDITION_OPTIONS, "drop-height-mm", 100000, ACCESS_INTERIOR_OPTIONS)

WORK_TYPE_PARAMETER_SCHEMAS ==
    MasonrySchemas @@ FloorSchemas @@ RoofAndOpeningSchemas @@ InstallationSchemas @@
    FinishingAndServiceSchemas @@ RoofCoverSchemas @@ RoofFittingSchemas @@ FacadeSchemas @@
    ChimneySchemas @@ FoundationSchemas @@ BalconySchemas @@ InteriorSchemas

-----------------------------------------------------------------------------
(* Pricing profiles: what an item must state, the lines it always has, and *)
(* the surcharges with the condition each of them asks for.                *)

RequiredInput(code, key) == [code |-> code, key |-> key]

\* A base line: hours at the tenant's rate, a unit price, or a charge per job.
Labor(code, key, hours) == [code |-> code, line |-> "labor", key |-> key, per |-> hours]
MaterialRate(code, key, rate) == [code |-> code, line |-> "material", key |-> key, per |-> rate]
Charge(code, rate) == [code |-> code, line |-> "other", key |-> "constant", per |-> rate]

\* A surcharge: a percentage of the lines of its type so far, or an amount.
Surcharge(code, line, operation, by, key, operator, expected) ==
    [code |-> code, line |-> line, operation |-> operation, by |-> by,
     key |-> key, operator |-> operator, expected |-> expected]

Percent(code, line, by, key, option) == Surcharge(code, line, "multiply", by, key, "eq", option)
Flat(code, by, key, option) == Surcharge(code, "other", "add_flat", by, key, "eq", option)

AccessAdjustments(key) == <<
    Percent("scaffold", "labor", 10, key, "scaffold-access"),
    Percent("mobile-lift", "labor", 16, key, "mobile-lift"),
    Percent("rope-access", "labor", 24, key, "rope-access"),
    Flat("crane-assisted", 2800, key, "crane-assisted"),
    Percent("confined-space", "labor", 15, key, "confined-space"),
    Percent("occupied", "labor", 8, key, "occupied-space"),
    Percent("off-hours", "labor", 12, key, "out-of-hours"),
    Percent("protected-zone", "labor", 8, key, "protected-finish-zone"),
    Percent("roof-ladder", "labor", 6, key, "roof-ladder"),
    Percent("ladder", "labor", 5, key, "ladder-access"),
    Percent("live-utility", "labor", 18, key, "live-utility-zone"),
    Percent("occupied-interior", "labor", 8, key, "occupied-interior")>>

\* Slip: the labour surcharges of the two bands are swapped.
SeverityAdjustmentsSwapped == <<
    Percent("moderate", "labor", 22, "severity-band", "moderate"),
    Percent("major-labor", "labor", 10, "severity-band", "major"),
    Percent("major-material", "material", 8, "severity-band", "major")>>

SeverityAdjustments == <<
    Percent("moderate", "labor", 10, "severity-band", "moderate"),
    Percent("major-labor", "labor", 22, "severity-band", "major"),
    Percent("major-material", "material", 8, "severity-band", "major")>>

ZoneAdjustment(key, threshold, amount) ==
    <<Surcharge("multi-zone", "other", "add_flat", amount, key, "gte", threshold)>>
BooleanAddon(key, amount, line) ==
    <<Surcharge("addon", line, "add_flat", amount, key, "true", TRUE)>>
ConditionAdjustments(key, moderate, by, major, more, extra, amount) == <<
    Percent("condition-moderate", "labor", by, key, moderate),
    Percent("condition-major", "labor", more, key, major),
    Flat("condition-extra", amount, key, extra)>>

Profile(basis, minimum, inputs, base, adjustments) ==
    [basis |-> basis, minimum |-> minimum, inputs |-> inputs, base |-> base,
     adjustments |-> adjustments]

AreaInstallationProfile(hours, rate, fixed, minimum, condition, zones) ==
    Profile("area", minimum,
        <<RequiredInput("basis-quantity", "work-area-sqm"), RequiredInput("condition", condition),
          RequiredInput("access", "access-method"), RequiredInput("zones", zones)>>,
        <<Labor("labor-production", "work-area-sqm", hours),
          MaterialRate("material-allowance", "work-area-sqm", rate), Charge("mobilization", fixed)>>,
        AccessAdjustments("access-method")
            \o ConditionAdjustments(condition, "minor-prep", 8, "major-prep", 18, "moisture-affected", 1400)
            \o ZoneAdjustment(zones, 4, 1200))

AreaRepairProfile(hours, rate, fixed, minimum) ==
    Profile("area", minimum,
        <<RequiredInput("basis-quantity", "work-area-sqm"), RequiredInput("severity", "severity-band"),
          RequiredInput("access", "access-method"), RequiredInput("zones", "repair-zones-count")>>,
        <<Labor("labor-repair", "work-area-sqm", hours),
          MaterialRate("material-repair", "work-area-sqm", rate), Charge("site-setup", fixed)>>,
        SeverityAdjustments \o AccessAdjustments("access-method")
            \o ZoneAdjustment("repair-zones-count", 3, 950))

CountInstallationProfile(hours, rate, fixed, minimum, condition) ==
    Profile("count", minimum,
        <<RequiredInput("quantity", "quantity"), RequiredInput("opening-condition", condition),
          RequiredInput("access", "access-method"),
          RequiredInput("existing-unit-removal", "existing-unit-removal-required")>>,
        <<Labor("labor-install-units", "quantity", hours),
          MaterialRate("material-install-kits", "quantity", rate), Charge("site-delivery", fixed)>>,
        AccessAdjustments("access-method")
            \o ConditionAdjustments(condition, "minor-adjustment", 8, "structural-rework", 22, "moisture-damaged", 1600)
            \o BooleanAddon("existing-unit-removal-required", 1400, "other"))

CountRepairProfile(hours, rate, fixed, minimum, temporary) ==
    Profile("count", minimum,
        <<RequiredInput("quantity", "quantity"), RequiredInput("severity", "severity-band"),
          RequiredInput("access", "access-method"), RequiredInput("temporary-fix", temporary)>>,
        <<Labor("labor-repair-incidents", "quantity", hours),
          MaterialRate("material-repair-kit", "quantity", rate), Charge("dispatch", fixed)>>,
        SeverityAdjustments \o AccessAdjustments("access-method")
            \o BooleanAddon(temporary, 950, "other"))

LengthInstallationProfile(hours, rate, fixed, minimum, condition) ==
    Profile("length", minimum,
        <<RequiredInput("length", "length-m"), RequiredInput("condition", condition),
          RequiredInput("access", "access-method"), RequiredInput("runs", "run-count")>>,
        <<Labor("labor-run-installation", "length-m", hours),
          MaterialRate("material-run-package", "length-m", rate), Charge("site-setup", fixed)>>,
        AccessAdjustments("access-method")
            \o ConditionAdjustments(condition, "minor-prep", 8, "major-prep", 18, "failed", 1600)
            \o ZoneAdjustment("run-count", 3, 1100))

LengthRepairProfile(hours, rate, fixed, minimum) ==
    Profile("length", minimum,
        <<RequiredInput("length", "length-m"), RequiredInput("severity", "severity-band"),
          RequiredInput("access", "access-method"), RequiredInput("joints", "joint-count")>>,
        <<Labor("labor-repair-length", "length-m", hours),
          MaterialRate("material-repair-length", "length-m", rate), Charge("site-dispatch", fixed)>>,
        SeverityAdjustments \o AccessAdjustments("access-method")
            \o ZoneAdjustment("joint-count", 5, 700))

VolumeProfile(hours, rate, fixed, minimum) ==
    Profile("volume", minimum,
        <<RequiredInput("volume", "volume-m3"), RequiredInput("ground", "ground-condition"),
          RequiredInput("access", "site-access-method"), RequiredInput("pour-zones", "pour-zone-count")>>,
        <<Labor("labor-foundation", "volume-m3", hours),
          MaterialRate("material-foundation", "volume-m3", rate), Charge("plant-and-setup", fixed)>>,
        AccessAdjustments("site-access-method")
            \o ConditionAdjustments("ground-condition", "wet-soil", 12, "rocky-ground", 24, "restricted-dig", 2800)
            \o ZoneAdjustment("pour-zone-count", 3, 1800))

ScopeInstallationProfile(route, hours, rate, endpoint, more, kit, fixed, minimum) ==
    Profile("scope", minimum,
        <<RequiredInput("route", route), RequiredInput("endpoint", endpoint),
          RequiredInput("condition", "site-condition"), RequiredInput("access", "access-method")>>,
        <<Labor("labor-route", route, hours), Labor("labor-endpoints", endpoint, more),
          MaterialRate("material-route", route, rate), MaterialRate("material-endpoints", endpoint, kit),
          Charge("setup", fixed)>>,
        AccessAdjustments("access-method")
            \o ConditionAdjustments("site-condition", "occupied-space", 8, "confined-space", 18, "live-utility-zone", 2200))

InspectionProfile(minimum) ==
    Profile("inspection", minimum,
        <<RequiredInput("visits", "quantity"), RequiredInput("inspection-area", "inspection-area-sqm"),
          RequiredInput("access", "access-method"), RequiredInput("formal-report", "formal-report-required")>>,
        <<Labor("labor-visit", "quantity", 1200), Labor("labor-area-review", "inspection-area-sqm", 15),
          Charge("basic-reporting", 950)>>,
        AccessAdjustments("access-method") \o BooleanAddon("formal-report-required", 1200, "other"))

ServiceProfile(minimum) ==
    Profile("service", minimum,
        <<RequiredInput("duration", "service-duration-hours"), RequiredInput("access", "access-method"),
          RequiredInput("consumables", "consumables-included")>>,
        <<Labor("labor-service", "service-duration-hours", 1000), Charge("dispatch", 950)>>,
        AccessAdjustments("access-method") \o BooleanAddon("consumables-included", 450, "material"))

EmergencyProfile(minimum) ==
    LET repair == CountRepairProfile(3400, 650, 2800, minimum, "temporary-stabilization-required")
        respond(code, amount, hours) ==
            Surcharge(code, "other", "add_flat", amount, "response-time-hours", "lte", hours)
    IN  [repair EXCEPT
            !.basis = "incident",
            !.inputs = Append(@, RequiredInput("response-time", "response-time-hours")),
            !.adjustments = @ \o <<respond("response-under-4h", 1800, 4),
                                   respond("response-under-2h", 2200, 2)>>]

MasonryProfiles ==
    "chimney-renovation"      :> AreaRepairProfile(1600, 820, 3200, 12500) @@
    "chimney-new-build"       :> CountInstallationProfile(16000, 9800, 4800, 32000, "opening-condition") @@
    "wall-construction"       :> AreaInstallationProfile(1150, 920, 2600, 14000, "substrate-condition", "zone-count") @@
    "wall-demolition"         :> AreaRepairProfile(1350, 240, 3500, 14500) @@
    "plastering"              :> AreaInstallationProfile(720, 210, 1800, 7800, "substrate-condition", "zone-count") @@
    "facade-installation"     :> AreaInstallationProfile(1450, 1250, 4200, 26000, "substrate-condition", "zone-count") @@
    "insulation-installation" :> AreaInstallationProfile(680, 610, 2500, 12000, "substrate-condition", "zone-count") @@
    "foundation-work"         :> VolumeProfile(6500, 4200, 9500, 42000) @@
    "pedestal-paving"         :> AreaInstallationProfile(950, 780, 2500, 16000, "substrate-condition", "zone-count") @@
    "tile-installation"       :> AreaInstallationProfile(1050, 690, 2100, 11000, "substrate-condition", "zone-count") @@
    "floor-renovation"        :> AreaRepairProfile(1200, 520, 2400, 13500)

FloorAndRoofProfiles ==
    "vinyl-floor-installation" :> AreaInstallationProfile(580, 540, 1800, 9000, "substrate-condition", "zone-count") @@
    "wood-floor-installation"  :> AreaInstallationProfile(880, 760, 2200, 13000, "substrate-condition", "zone-count") @@
    "concrete-floor"           :> AreaInstallationProfile(950, 850, 3800, 22000, "substrate-condition", "zone-count") @@
    "roof-installation"        :> AreaInstallationProfile(1250, 1480, 5200, 28000, "deck-condition", "zone-count") @@
    "roof-repair"              :> AreaRepairProfile(1100, 690, 3200, 15000) @@
    "roof-insulation"          :> AreaInstallationProfile(820, 620, 2900, 14500, "roof-deck-condition", "zone-count") @@
    "gutter-installation"      :> LengthInstallationProfile(420, 220, 1900, 6500, "fascia-condition") @@
    "gutter-repair"            :> LengthRepairProfile(550, 120, 2100, 7800) @@
    "roof-inspection"          :> InspectionProfile(3500) @@
    "window-installation"      :> CountInstallationProfile(6500, 8900, 2600, 18500, "opening-condition") @@
    "window-replacement"       :> CountRepairProfile(4500, 4200, 2100, 12500, "temporary-fix-required") @@
    "door-installation"        :> CountInstallationProfile(5800, 7600, 2200, 16500, "opening-condition")

InstallationProfiles ==
    "door-repair"             :> CountRepairProfile(3200, 1800, 1800, 7800, "temporary-fix-required") @@
    "electrical-installation" :> ScopeInstallationProfile("route-length-m", 450, 135, "circuit-count", 900, 420, 2400, 9800) @@
    "electrical-repair"       :> CountRepairProfile(2600, 780, 1700, 6200, "temporary-fix-required") @@
    "plumbing-installation"   :> ScopeInstallationProfile("route-length-m", 520, 165, "fixture-count", 1100, 580, 2600, 11800) @@
    "plumbing-repair"         :> CountRepairProfile(2800, 950, 1900, 6900, "temporary-fix-required") @@
    "heating-installation"    :> ScopeInstallationProfile("heated-area-sqm", 70, 210, "heating-zone-count", 4000, 1750, 4200, 22000) @@
    "boiler-installation"     :> CountInstallationProfile(10500, 18500, 4200, 36000, "plantroom-condition") @@
    "radiator-installation"   :> CountInstallationProfile(4200, 5200, 2100, 9800, "wall-condition") @@
    "painting"                :> AreaInstallationProfile(420, 160, 1200, 5200, "surface-condition", "zone-count") @@
    "interior-finishing"      :> AreaInstallationProfile(740, 240, 1500, 6800, "substrate-condition", "zone-count")

FinishingAndServiceProfiles ==
    "drywall-installation"        :> AreaInstallationProfile(780, 430, 1900, 9500, "frame-condition", "zone-count") @@
    "ceiling-installation"        :> AreaInstallationProfile(820, 510, 2100, 10800, "plenum-condition", "zone-count") @@
    "terrace-construction"        :> AreaInstallationProfile(1150, 980, 4200, 24000, "base-condition", "zone-count") @@
    "fence-installation"          :> LengthInstallationProfile(580, 740, 2600, 12500, "ground-condition") @@
    "driveway-paving"             :> AreaInstallationProfile(860, 930, 3600, 21000, "sub-base-condition", "zone-count") @@
    "garden-landscaping"          :> AreaInstallationProfile(480, 250, 1800, 7200, "site-condition", "zone-count") @@
    "inspection"                  :> InspectionProfile(2900) @@
    "maintenance"                 :> ServiceProfile(2500) @@
    "cleaning-after-construction" :> AreaInstallationProfile(220, 38, 900, 3200, "contamination-level", "waste-bag-count") @@
    "emergency-repair"            :> EmergencyProfile(8900) @@
    "roof-cover-installation"     :> AreaInstallationProfile(550, 680, 3200, 14000, "deck-condition", "zone-count") @@
    "roof-cover-replacement"      :> AreaRepairProfile(700, 720, 4200, 16000)

RoofCoverProfiles ==
    "roof-cover-cleaning"         :> AreaInstallationProfile(200, 45, 1800, 5500, "contamination-condition", "zone-count") @@
    "roof-truss-new"              :> AreaInstallationProfile(1800, 1400, 8500, 42000, "wall-plate-condition", "zone-count") @@
    "roof-truss-repair"           :> AreaRepairProfile(1400, 680, 4800, 18000) @@
    "roof-truss-reconstruction"   :> AreaInstallationProfile(2100, 1600, 12000, 58000, "existing-truss-condition", "zone-count") @@
    "roof-truss-reinforcement"    :> AreaRepairProfile(1200, 520, 4200, 16000) @@
    "roof-insulation-repair"      :> AreaRepairProfile(550, 320, 2800, 9500) @@
    "roof-insulation-replacement" :> AreaInstallationProfile(450, 380, 3200, 11000, "deck-condition", "zone-count") @@
    "gutter-replacement"          :> LengthInstallationProfile(300, 380, 2200, 8500, "fascia-condition") @@
    "gutter-cleaning"             :> LengthRepairProfile(120, 18, 1200, 3800) @@
    "skylight-installation"       :> CountInstallationProfile(6000, 18000, 3500, 22000, "deck-condition") @@
    "skylight-repair"             :> CountRepairProfile(2500, 2800, 1800, 5500, "temporary-fix-required")

FacadeProfiles ==
    "skylight-replacement"             :> CountInstallationProfile(8000, 22000, 4200, 28000, "existing-condition") @@
    "facade-plaster-repair"            :> AreaRepairProfile(850, 280, 2800, 9800) @@
    "facade-plaster-reconstruction"    :> AreaInstallationProfile(900, 320, 4200, 16000, "substrate-condition", "zone-count") @@
    "facade-insulation-repair"         :> AreaRepairProfile(1100, 580, 3800, 14000) @@
    "facade-insulation-reconstruction" :> AreaInstallationProfile(1500, 1320, 5500, 28000, "substrate-condition", "zone-count") @@
    "facade-coating-renewal"           :> AreaRepairProfile(400, 95, 2200, 7500) @@
    "facade-crack-repair"              :> AreaRepairProfile(1200, 180, 2600, 8500) @@
    "facade-crack-remediation"         :> AreaRepairProfile(1800, 480, 4200, 14000) @@
    "chimney-body-repair"              :> AreaRepairProfile(1550, 760, 3500, 13000) @@
    "chimney-body-removal"             :> CountRepairProfile(24000, 2200, 6500, 28000, "temporary-fix-required") @@
    "chimney-lining-installation"      :> LengthInstallationProfile(850, 2800, 4200, 18000, "flue-condition")

ChimneyProfiles ==
    "chimney-lining-replacement"      :> LengthInstallationProfile(1100, 3200, 5500, 22000, "existing-liner-condition") @@
    "chimney-lining-repair"           :> LengthRepairProfile(650, 980, 2800, 9500) @@
    "chimney-plaster-new"             :> AreaInstallationProfile(800, 220, 2800, 8500, "substrate-condition", "zone-count") @@
    "chimney-plaster-repair"          :> AreaRepairProfile(1000, 260, 2600, 8000) @@
    "chimney-head-repair"             :> CountRepairProfile(4000, 1800, 2200, 7500, "temporary-fix-required") @@
    "chimney-head-reconstruction"     :> CountInstallationProfile(12000, 6500, 3800, 18000, "stack-interface-condition") @@
    "chimney-head-cap-installation"   :> CountInstallationProfile(1500, 2800, 1200, 4500, "pot-condition") @@
    "foundation-waterproofing-new"    :> AreaInstallationProfile(700, 480, 4200, 16000, "substrate-condition", "zone-count") @@
    "foundation-waterproofing-repair" :> AreaRepairProfile(850, 380, 3500, 12000) @@
    "foundation-masonry-repair"       :> AreaRepairProfile(1200, 520, 3800, 14000) @@
    "foundation-moisture-remediation" :> AreaRepairProfile(1400, 680, 4800, 18000)

FoundationAndOpeningProfiles ==
    "foundation-drainage-installation"     :> LengthInstallationProfile(950, 880, 5500, 22000, "ground-condition") @@
    "foundation-drainage-repair"           :> LengthRepairProfile(650, 380, 3500, 12000) @@
    "window-repair"                        :> CountRepairProfile(2000, 1800, 1500, 4500, "temporary-fix-required") @@
    "window-adjustment"                    :> CountRepairProfile(750, 180, 800, 2200, "temporary-fix-required") @@
    "door-replacement"                     :> CountInstallationProfile(5000, 12000, 2200, 15000, "opening-condition") @@
    "sealing-installation"                 :> LengthInstallationProfile(80, 65, 600, 1800, "frame-interface-condition") @@
    "sealing-replacement"                  :> LengthRepairProfile(100, 75, 700, 2000) @@
    "balcony-waterproofing-new"            :> AreaInstallationProfile(650, 420, 3200, 12000, "deck-substrate-condition", "zone-count") @@
    "balcony-waterproofing-repair"         :> AreaRepairProfile(750, 320, 2800, 9500) @@
    "balcony-waterproofing-reconstruction" :> AreaInstallationProfile(900, 520, 4200, 16000, "deck-condition", "zone-count") @@
    "balcony-surface-installation"         :> AreaInstallationProfile(800, 680, 2800, 11000, "deck-condition", "zone-count")

BalconyAndInteriorProfiles ==
    "balcony-surface-repair"       :> AreaRepairProfile(850, 320, 2600, 8500) @@
    "balcony-surface-replacement"  :> AreaInstallationProfile(1000, 720, 3500, 14000, "deck-condition", "zone-count") @@
    "balcony-railing-installation" :> LengthInstallationProfile(1200, 2800, 3200, 14000, "deck-edge-condition") @@
    "balcony-railing-repair"       :> LengthRepairProfile(650, 380, 1800, 5500) @@
    "balcony-railing-replacement"  :> LengthInstallationProfile(1400, 3200, 3800, 16000, "existing-railing-condition") @@
    "interior-wall-repair"         :> AreaRepairProfile(750, 180, 2200, 7500) @@
    "interior-floor-installation"  :> AreaInstallationProfile(650, 480, 2200, 9500, "substrate-condition", "zone-count") @@
    "interior-floor-replacement"   :> AreaInstallationProfile(800, 520, 2800, 11000, "subfloor-condition", "zone-count") @@
    "interior-ceiling-repair"      :> AreaRepairProfile(900, 220, 2600, 8500) @@
    "interior-ceiling-lowering"    :> AreaInstallationProfile(750, 580, 3200, 12000, "substrate-condition", "zone-count")

PROFILE_BLUEPRINTS ==
    MasonryProfiles @@ FloorAndRoofProfiles @@ InstallationProfiles @@
    FinishingAndServiceProfiles @@ RoofCoverProfiles @@ FacadeProfiles @@
    ChimneyProfiles @@ FoundationAndOpeningProfiles @@ BalconyAndInteriorProfiles

-----------------------------------------------------------------------------
(* Work types, and the guard that compares the tables.                     *)

WorkType(category, unit, measure) == [category |-> category, unit |-> unit, measure |-> measure]

Categories == {"masonry-structural", "floors-paving", "roofing", "windows-doors", "electrical", "plumbing", "heating", "finishing", "exterior", "inspection-service"}

BuildingTypes ==
    "chimney-renovation"      :> WorkType("masonry-structural", "m2", "area") @@
    "chimney-new-build"       :> WorkType("masonry-structural", "pcs", "count") @@
    "wall-construction"       :> WorkType("masonry-structural", "m2", "area") @@
    "wall-demolition"         :> WorkType("masonry-structural", "m2", "area") @@
    "plastering"              :> WorkType("masonry-structural", "m2", "area") @@
    "facade-installation"     :> WorkType("masonry-structural", "m2", "area") @@
    "insulation-installation" :> WorkType("masonry-structural", "m2", "area") @@
    "foundation-work"         :> WorkType("masonry-structural", "m3", "volume")

FacadeTypes ==
    "facade-plaster-repair"            :> WorkType("masonry-structural", "m2", "area") @@
    "facade-plaster-reconstruction"    :> WorkType("masonry-structural", "m2", "area") @@
    "facade-insulation-repair"         :> WorkType("masonry-structural", "m2", "area") @@
    "facade-insulation-reconstruction" :> WorkType("masonry-structural", "m2", "area") @@
    "facade-coating-renewal"           :> WorkType("masonry-structural", "m2", "area") @@
    "facade-crack-repair"              :> WorkType("masonry-structural", "m2", "area") @@
    "facade-crack-remediation"         :> WorkType("masonry-structural", "m2", "area") @@
    "chimney-body-repair"              :> WorkType("masonry-structural", "m2", "area")

ChimneyTypes ==
    "chimney-body-removal"        :> WorkType("masonry-structural", "pcs", "count") @@
    "chimney-lining-installation" :> WorkType("masonry-structural", "m", "length") @@
    "chimney-lining-replacement"  :> WorkType("masonry-structural", "m", "length") @@
    "chimney-lining-repair"       :> WorkType("masonry-structural", "m", "length") @@
    "chimney-plaster-new"         :> WorkType("masonry-structural", "m2", "area") @@
    "chimney-plaster-repair"      :> WorkType("masonry-structural", "m2", "area") @@
    "chimney-head-repair"         :> WorkType("masonry-structural", "pcs", "count") @@
    "chimney-head-reconstruction" :> WorkType("masonry-structural", "pcs", "count")

FoundationTypes ==
    "chimney-head-cap-installation"    :> WorkType("masonry-structural", "pcs", "count") @@
    "foundation-waterproofing-new"     :> WorkType("masonry-structural", "m2", "area") @@
    "foundation-waterproofing-repair"  :> WorkType("masonry-structural", "m2", "area") @@
    "foundation-masonry-repair"        :> WorkType("masonry-structural", "m2", "area") @@
    "foundation-moisture-remediation"  :> WorkType("masonry-structural", "m2", "area") @@
    "foundation-drainage-installation" :> WorkType("masonry-structural", "m", "length") @@
    "foundation-drainage-repair"       :> WorkType("masonry-structural", "m", "length") @@
    "pedestal-paving"                  :> WorkType("floors-paving", "m2", "area")

FloorTypes ==
    "tile-installation"        :> WorkType("floors-paving", "m2", "area") @@
    "floor-renovation"         :> WorkType("floors-paving", "m2", "area") @@
    "vinyl-floor-installation" :> WorkType("floors-paving", "m2", "area") @@
    "wood-floor-installation"  :> WorkType("floors-paving", "m2", "area") @@
    "concrete-floor"           :> WorkType("floors-paving", "m2", "area") @@
    "roof-cover-installation"  :> WorkType("roofing", "m2", "area") @@
    "roof-cover-replacement"   :> WorkType("roofing", "m2", "area") @@
    "roof-cover-cleaning"      :> WorkType("roofing", "m2", "area")

RoofCoverTypes ==
    "roof-truss-new"              :> WorkType("roofing", "m2", "area") @@
    "roof-truss-repair"           :> WorkType("roofing", "m2", "area") @@
    "roof-truss-reconstruction"   :> WorkType("roofing", "m2", "area") @@
    "roof-truss-reinforcement"    :> WorkType("roofing", "m2", "area") @@
    "roof-insulation-repair"      :> WorkType("roofing", "m2", "area") @@
    "roof-insulation-replacement" :> WorkType("roofing", "m2", "area") @@
    "gutter-replacement"          :> WorkType("roofing", "m", "length") @@
    "gutter-cleaning"             :> WorkType("roofing", "m", "length")

RoofFittingTypes ==
    "skylight-installation" :> WorkType("roofing", "pcs", "count") @@
    "skylight-repair"       :> WorkType("roofing", "pcs", "count") @@
    "skylight-replacement"  :> WorkType("roofing", "pcs", "count") @@
    "roof-repair"           :> WorkType("roofing", "m2", "area") @@
    "roof-installation"     :> WorkType("roofing", "m2", "area") @@
    "roof-inspection"       :> WorkType("roofing", "pcs", "count") @@
    "gutter-installation"   :> WorkType("roofing", "m", "length") @@
    "gutter-repair"         :> WorkType("roofing", "m", "length")

RoofAndWindowTypes ==
    "roof-insulation"     :> WorkType("roofing", "m2", "area") @@
    "window-installation" :> WorkType("windows-doors", "pcs", "count") @@
    "window-replacement"  :> WorkType("windows-doors", "pcs", "count") @@
    "door-installation"   :> WorkType("windows-doors", "pcs", "count") @@
    "door-repair"         :> WorkType("windows-doors", "pcs", "count") @@
    "window-repair"       :> WorkType("windows-doors", "pcs", "count") @@
    "window-adjustment"   :> WorkType("windows-doors", "pcs", "count") @@
    "door-replacement"    :> WorkType("windows-doors", "pcs", "count")

OpeningTypes ==
    "sealing-installation"    :> WorkType("windows-doors", "m", "length") @@
    "sealing-replacement"     :> WorkType("windows-doors", "m", "length") @@
    "electrical-installation" :> WorkType("electrical", "set", "fixed") @@
    "electrical-repair"       :> WorkType("electrical", "pcs", "count") @@
    "plumbing-installation"   :> WorkType("plumbing", "set", "fixed") @@
    "plumbing-repair"         :> WorkType("plumbing", "pcs", "count") @@
    "heating-installation"    :> WorkType("heating", "set", "fixed") @@
    "boiler-installation"     :> WorkType("heating", "pcs", "count")

InstallationTypes ==
    "radiator-installation"       :> WorkType("heating", "pcs", "count") @@
    "painting"                    :> WorkType("finishing", "m2", "area") @@
    "interior-finishing"          :> WorkType("finishing", "m2", "area") @@
    "drywall-installation"        :> WorkType("finishing", "m2", "area") @@
    "ceiling-installation"        :> WorkType("finishing", "m2", "area") @@
    "interior-wall-repair"        :> WorkType("finishing", "m2", "area") @@
    "interior-floor-installation" :> WorkType("finishing", "m2", "area") @@
    "interior-floor-replacement"  :> WorkType("finishing", "m2", "area")

FinishingTypes ==
    "interior-ceiling-repair"      :> WorkType("finishing", "m2", "area") @@
    "interior-ceiling-lowering"    :> WorkType("finishing", "m2", "area") @@
    "terrace-construction"         :> WorkType("exterior", "m2", "area") @@
    "fence-installation"           :> WorkType("exterior", "m", "length") @@
    "driveway-paving"              :> WorkType("exterior", "m2", "area") @@
    "garden-landscaping"           :> WorkType("exterior", "m2", "area") @@
    "balcony-waterproofing-new"    :> WorkType("exterior", "m2", "area") @@
    "balcony-waterproofing-repair" :> WorkType("exterior", "m2", "area")

TerraceTypes ==
    "balcony-waterproofing-reconstruction" :> WorkType("exterior", "m2", "area") @@
    "balcony-surface-installation"         :> WorkType("exterior", "m2", "area") @@
    "balcony-surface-repair"               :> WorkType("exterior", "m2", "area") @@
    "balcony-surface-replacement"          :> WorkType("exterior", "m2", "area") @@
    "balcony-railing-installation"         :> WorkType("exterior", "m", "length") @@
    "balcony-railing-repair"               :> WorkType("exterior", "m", "length") @@
    "balcony-railing-replacement"          :> WorkType("exterior", "m", "length") @@
    "inspection"                           :> WorkType("inspection-service", "pcs", "count")

BalconyAndServiceTypes ==
    "maintenance"                 :> WorkType("inspection-service", "pcs", "count") @@
    "cleaning-after-construction" :> WorkType("inspection-service", "m2", "area") @@
    "emergency-repair"            :> WorkType("inspection-service", "pcs", "count")

WorkTypes ==
    BuildingTypes @@ FacadeTypes @@ ChimneyTypes @@ FoundationTypes @@ FloorTypes @@ RoofCoverTypes @@ RoofFittingTypes @@
    RoofAndWindowTypes @@ OpeningTypes @@ InstallationTypes @@ FinishingTypes @@ TerraceTypes @@ BalconyAndServiceTypes

\* The work types that have an analysis profile of their own.
DefaultAnalysisProfiles == {"chimney-renovation", "wall-demolition", "plastering", "facade-installation", "floor-renovation", "roof-repair", "gutter-repair", "window-replacement", "door-repair", "painting", "interior-finishing", "emergency-repair"}

-----------------------------------------------------------------------------
CodesOf(params) == {param.code : param \in params}
Sections == {"dimensions", "materials", "condition_or_damage", "access_and_complexity",
             "quantity_scope", "optional_notes"}

DistinctCodes(rules) ==
    \A i, j \in DOMAIN rules : rules[i].code = rules[j].code => i = j

InputKeys(profile) == {profile.inputs[i].key : i \in DOMAIN profile.inputs}

ValidInputs(profile, parameters) ==
    /\ profile.inputs # <<>> /\ DistinctCodes(profile.inputs)
    /\ InputKeys(profile) \subseteq parameters

ValidBaseRules(profile, parameters) ==
    /\ profile.base # <<>> /\ DistinctCodes(profile.base)
    /\ \A i \in DOMAIN profile.base :
          /\ profile.base[i].per > 0
          /\ profile.base[i].key \in parameters \cup {"constant"}

\* A surcharge asks for a required input: no other value is sure to be there.
ValidAdjustments(profile) ==
    /\ DistinctCodes(profile.adjustments)
    /\ \A i \in DOMAIN profile.adjustments : profile.adjustments[i].key \in InputKeys(profile)

\* What a pricing profile must be with regard to the parameters of its work type.
ValidProfile(profile, parameters) ==
    /\ profile.minimum >= 0
    /\ ValidInputs(profile, parameters)
    /\ ValidBaseRules(profile, parameters)
    /\ ValidAdjustments(profile)

ValidSchema(params) ==
    /\ Cardinality(CodesOf(params)) = Cardinality(params)
    /\ {param.section : param \in params} = Sections
    /\ \A param \in params : param.domain # {}

ValidCatalogSeed ==
    /\ DOMAIN WORK_TYPE_PARAMETER_SCHEMAS = DOMAIN WorkTypes
    /\ DOMAIN PROFILE_BLUEPRINTS = DOMAIN WorkTypes
    /\ DefaultAnalysisProfiles \subseteq DOMAIN WorkTypes
    /\ \A type \in DOMAIN WorkTypes :
          /\ WorkTypes[type].category \in Categories
          /\ ValidSchema(WORK_TYPE_PARAMETER_SCHEMAS[type])
          /\ ValidProfile(PROFILE_BLUEPRINTS[type], CodesOf(WORK_TYPE_PARAMETER_SCHEMAS[type]))

\* The application does not start with a catalogue the import guard refuses.
ASSUME CatalogSeedIsValid == ValidCatalogSeed
=============================================================================
