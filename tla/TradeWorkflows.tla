--------------------------- MODULE TradeWorkflows ---------------------------
(***************************************************************************)
(* The workflow of every trade, as data: app/workflows/catalogue.py names  *)
(* the templates, 0f93d11b04a4 writes them to the database with the edges  *)
(* between their stages, and a project is bound to a row found by the name *)
(* the catalogue gives.  ProjectFlow models what a project then does with  *)
(* positions instead of stages, and this module says why it may.           *)
(***************************************************************************)
EXTENDS Naturals, Sequences, TLC

-----------------------------------------------------------------------------
(* _SPEC: the stages of a trade, each with its key and its role.           *)

StoneToKitchen ==
  [stone |-> <<<<"enquiry", "lead">>, <<"measure_site_visit", "survey">>, <<"quote", "quoted">>,
     <<"approved", "approved">>, <<"deposit", "procurement">>,
     <<"material_ordered_reserved", "procurement">>, <<"template", "in_progress">>,
     <<"fabrication", "in_progress">>, <<"qc", "inspection">>, <<"installation", "in_progress">>,
     <<"snagging", "snagging">>, <<"complete", "completed">>>>,
   general_building |-> <<<<"enquiry", "lead">>, <<"site_visit", "survey">>,
     <<"estimate_quote", "quoted">>, <<"approved", "approved">>, <<"deposit", "procurement">>,
     <<"pre_start", "scheduled">>, <<"in_progress", "in_progress">>,
     <<"inspection", "inspection">>, <<"snagging", "snagging">>, <<"handover", "handover">>,
     <<"complete", "completed">>>>,
   renovation |-> <<<<"enquiry", "lead">>, <<"survey", "survey">>, <<"scope", "survey">>,
     <<"quote", "quoted">>, <<"approved", "approved">>, <<"procurement", "procurement">>,
     <<"strip_out", "in_progress">>, <<"main_works", "in_progress">>,
     <<"inspection", "inspection">>, <<"snagging", "snagging">>, <<"handover", "handover">>,
     <<"complete", "completed">>>>,
   extension |-> <<<<"enquiry", "lead">>, <<"survey", "survey">>, <<"quote", "quoted">>,
     <<"approved", "approved">>, <<"pre_construction", "scheduled">>,
     <<"groundworks", "in_progress">>, <<"structure", "in_progress">>,
     <<"first_fix", "in_progress">>, <<"second_fix", "in_progress">>,
     <<"inspection", "inspection">>, <<"snagging", "snagging">>, <<"handover", "handover">>,
     <<"complete", "completed">>>>,
   electrical |-> <<<<"enquiry", "lead">>, <<"site_assessment", "survey">>, <<"quote", "quoted">>,
     <<"approved", "approved">>, <<"scheduled", "scheduled">>, <<"first_fix", "in_progress">>,
     <<"second_fix", "in_progress">>, <<"testing", "inspection">>,
     <<"certification", "inspection">>, <<"snagging", "snagging">>, <<"complete", "completed">>>>,
   plumbing |-> <<<<"enquiry", "lead">>, <<"site_assessment", "survey">>, <<"quote", "quoted">>,
     <<"approved", "approved">>, <<"materials", "procurement">>, <<"first_fix", "in_progress">>,
     <<"second_fix", "in_progress">>, <<"pressure_test_check", "inspection">>,
     <<"commissioning", "inspection">>, <<"complete", "completed">>>>,
   heating_hvac |-> <<<<"enquiry", "lead">>, <<"survey", "survey">>, <<"quote", "quoted">>,
     <<"approved", "approved">>, <<"equipment_ordered", "procurement">>,
     <<"installation", "in_progress">>, <<"testing", "inspection">>,
     <<"commissioning", "inspection">>, <<"certification", "inspection">>,
     <<"complete", "completed">>>>,
   carpentry |-> <<<<"enquiry", "lead">>, <<"measure", "survey">>,
     <<"design_specification", "survey">>, <<"quote", "quoted">>, <<"approved", "approved">>,
     <<"materials", "procurement">>, <<"workshop_fabrication", "in_progress">>,
     <<"installation", "in_progress">>, <<"finishing", "in_progress">>, <<"qc", "inspection">>,
     <<"complete", "completed">>>>,
   kitchen |-> <<<<"enquiry", "lead">>, <<"measure", "survey">>, <<"design", "survey">>,
     <<"quote", "quoted">>, <<"approved", "approved">>, <<"procurement", "procurement">>,
     <<"strip_out", "in_progress">>, <<"first_fix", "in_progress">>,
     <<"units_fitting", "in_progress">>, <<"worktops", "in_progress">>,
     <<"second_fix", "in_progress">>, <<"snagging", "snagging">>, <<"complete", "completed">>>>]

BathroomToDrainage ==
  [bathroom |-> <<<<"enquiry", "lead">>, <<"survey", "survey">>, <<"quote", "quoted">>,
     <<"approved", "approved">>, <<"procurement", "procurement">>, <<"strip_out", "in_progress">>,
     <<"plumbing_first_fix", "in_progress">>, <<"waterproofing", "in_progress">>,
     <<"tiling_fitting", "in_progress">>, <<"second_fix", "in_progress">>,
     <<"testing", "inspection">>, <<"snagging", "snagging">>, <<"complete", "completed">>>>,
   roofing |-> <<<<"enquiry", "lead">>, <<"roof_survey", "survey">>, <<"quote", "quoted">>,
     <<"approved", "approved">>, <<"materials", "procurement">>,
     <<"scaffolding_access", "scheduled">>, <<"strip_off", "in_progress">>,
     <<"installation", "in_progress">>, <<"weatherproofing", "in_progress">>,
     <<"inspection", "inspection">>, <<"complete", "completed">>>>,
   flooring |-> <<<<"enquiry", "lead">>, <<"measure", "survey">>, <<"quote", "quoted">>,
     <<"approved", "approved">>, <<"material_ordered", "procurement">>,
     <<"subfloor_preparation", "in_progress">>, <<"installation", "in_progress">>,
     <<"finishing", "in_progress">>, <<"inspection", "inspection">>, <<"complete", "completed">>>>,
   tiling |-> <<<<"enquiry", "lead">>, <<"measure", "survey">>, <<"quote", "quoted">>,
     <<"approved", "approved">>, <<"materials", "procurement">>,
     <<"preparation_waterproofing", "in_progress">>, <<"tiling", "in_progress">>,
     <<"grouting_finishing", "in_progress">>, <<"inspection", "inspection">>,
     <<"complete", "completed">>>>,
   decorating |-> <<<<"enquiry", "lead">>, <<"site_visit", "survey">>, <<"quote", "quoted">>,
     <<"approved", "approved">>, <<"colour_specification", "procurement">>,
     <<"preparation", "in_progress">>, <<"painting_decoration", "in_progress">>,
     <<"touch_ups", "snagging">>, <<"inspection", "inspection">>, <<"complete", "completed">>>>,
   plastering_rendering |-> <<<<"enquiry", "lead">>, <<"site_visit", "survey">>,
     <<"quote", "quoted">>, <<"approved", "approved">>, <<"preparation", "in_progress">>,
     <<"base_coat", "in_progress">>, <<"finish_coat", "in_progress">>,
     <<"dry_cure", "in_progress">>, <<"inspection", "inspection">>, <<"complete", "completed">>>>,
   brickwork_masonry |-> <<<<"enquiry", "lead">>, <<"survey", "survey">>, <<"quote", "quoted">>,
     <<"approved", "approved">>, <<"materials", "procurement">>, <<"setting_out", "in_progress">>,
     <<"construction", "in_progress">>, <<"pointing_finishing", "in_progress">>,
     <<"inspection", "inspection">>, <<"complete", "completed">>>>,
   groundworks |-> <<<<"enquiry", "lead">>, <<"survey", "survey">>, <<"quote", "quoted">>,
     <<"approved", "approved">>, <<"permits_pre_start", "scheduled">>,
     <<"excavation", "in_progress">>, <<"drainage_sub_base", "in_progress">>,
     <<"concrete_foundations", "in_progress">>, <<"inspection", "inspection">>,
     <<"complete", "completed">>>>,
   drainage |-> <<<<"enquiry", "lead">>, <<"investigation", "survey">>,
     <<"survey_cctv", "survey">>, <<"quote", "quoted">>, <<"approved", "approved">>,
     <<"excavation_access", "in_progress">>, <<"repair_installation", "in_progress">>,
     <<"testing", "inspection">>, <<"reinstatement", "in_progress">>, <<"complete", "completed">>>>]

WindowsToOther ==
  [windows_doors |-> <<<<"enquiry", "lead">>, <<"survey", "survey">>, <<"quote", "quoted">>,
     <<"approved", "approved">>, <<"manufacture_order", "procurement">>,
     <<"delivery", "procurement">>, <<"installation", "in_progress">>,
     <<"adjustment", "in_progress">>, <<"inspection", "inspection">>, <<"handover", "handover">>,
     <<"complete", "completed">>>>,
   glazing |-> <<<<"enquiry", "lead">>, <<"measure", "survey">>, <<"quote", "quoted">>,
     <<"approved", "approved">>, <<"glass_ordered", "procurement">>, <<"delivery", "procurement">>,
     <<"installation", "in_progress">>, <<"sealing", "in_progress">>,
     <<"inspection", "inspection">>, <<"complete", "completed">>>>,
   landscaping |-> <<<<"enquiry", "lead">>, <<"site_survey", "survey">>,
     <<"design_scope", "survey">>, <<"quote", "quoted">>, <<"approved", "approved">>,
     <<"procurement", "procurement">>, <<"ground_preparation", "in_progress">>,
     <<"hard_landscaping", "in_progress">>, <<"soft_landscaping", "in_progress">>,
     <<"inspection", "inspection">>, <<"handover", "handover">>, <<"complete", "completed">>>>,
   fencing |-> <<<<"enquiry", "lead">>, <<"measure", "survey">>, <<"quote", "quoted">>,
     <<"approved", "approved">>, <<"materials", "procurement">>,
     <<"ground_preparation", "in_progress">>, <<"installation", "in_progress">>,
     <<"inspection", "inspection">>, <<"complete", "completed">>>>,
   demolition_stripout |-> <<<<"enquiry", "lead">>, <<"survey", "survey">>, <<"quote", "quoted">>,
     <<"approved", "approved">>, <<"safety_pre_start", "scheduled">>,
     <<"isolation", "in_progress">>, <<"strip_out_demolition", "in_progress">>,
     <<"waste_removal", "in_progress">>, <<"site_clearance", "in_progress">>,
     <<"complete", "completed">>>>,
   insulation |-> <<<<"enquiry", "lead">>, <<"survey", "survey">>, <<"specification", "survey">>,
     <<"quote", "quoted">>, <<"approved", "approved">>, <<"materials", "procurement">>,
     <<"preparation", "in_progress">>, <<"installation", "in_progress">>,
     <<"inspection", "inspection">>, <<"certification_record", "inspection">>,
     <<"complete", "completed">>>>,
   steelwork |-> <<<<"enquiry", "lead">>, <<"survey_drawings", "survey">>, <<"quote", "quoted">>,
     <<"approved", "approved">>, <<"engineering_approval", "scheduled">>,
     <<"fabrication", "in_progress">>, <<"delivery", "procurement">>,
     <<"installation", "in_progress">>, <<"inspection", "inspection">>,
     <<"complete", "completed">>>>,
   scaffolding |-> <<<<"enquiry", "lead">>, <<"site_survey", "survey">>,
     <<"design_load_requirement", "survey">>, <<"quote", "quoted">>, <<"approved", "approved">>,
     <<"permit_pre_start", "scheduled">>, <<"erection", "in_progress">>,
     <<"inspection_handover", "handover">>, <<"in_use", "in_progress">>,
     <<"dismantle", "in_progress">>, <<"complete", "completed">>>>,
   solar_renewables |-> <<<<"enquiry", "lead">>, <<"site_survey", "survey">>,
     <<"design_yield_assessment", "survey">>, <<"quote", "quoted">>, <<"approved", "approved">>,
     <<"permissions_grid", "scheduled">>, <<"equipment_ordered", "procurement">>,
     <<"installation", "in_progress">>, <<"electrical_connection", "in_progress">>,
     <<"testing_commissioning", "inspection">>, <<"certification", "inspection">>,
     <<"complete", "completed">>>>,
   other |-> <<<<"enquiry", "lead">>, <<"site_visit", "survey">>, <<"quote", "quoted">>,
     <<"approved", "approved">>, <<"scheduled", "scheduled">>, <<"in_progress", "in_progress">>,
     <<"inspection", "inspection">>, <<"complete", "completed">>>>]

Catalogue == StoneToKitchen @@ BathroomToDrainage @@ WindowsToOther

TradeKeys ==
  {"general_building", "renovation", "extension", "kitchen", "bathroom", "roofing", "flooring",
   "decorating", "plumbing", "electrical", "carpentry", "stone", "heating_hvac", "tiling",
   "plastering_rendering", "brickwork_masonry", "groundworks", "drainage", "windows_doors",
   "glazing", "landscaping", "fencing", "demolition_stripout", "insulation", "steelwork",
   "scaffolding", "solar_renewables", "other"}

\* template_for_trade(): a trade without a workflow of its own has the general one.
TemplateFor(trade) == IF trade \in DOMAIN Catalogue THEN trade ELSE "other"

-----------------------------------------------------------------------------
(* What the migration seeds.                                               *)

\* _SYSTEM_SPEC, the migration's own copy: the same trades and stages, entry for entry.
SystemSpec == Catalogue

LegacySpec ==
  <<<<"enquiry", "lead">>, <<"quoted", "quoted">>, <<"booked", "approved">>,
    <<"templated", "in_progress">>, <<"fabricated", "in_progress">>,
    <<"installed", "in_progress">>, <<"complete", "completed">>>>

\* Mutant: the finished stage can be left for the side stages too.
SeedTemplateOpen(spec) ==
  LET keys == {spec[i][1] : i \in 1 .. Len(spec)}
  IN  [stages |-> spec \o <<<<"on_hold", "on_hold">>, <<"cancelled", "cancelled">>>>,
       terminal |-> {spec[Len(spec)][1], "cancelled"},
       edges |-> {<<spec[i][1], spec[i + 1][1]>> : i \in 1 .. Len(spec) - 1}
                 \cup (keys \X {"on_hold", "cancelled"}) \cup {<<"on_hold", "cancelled">>}]

\* _seed_template(): the stages in order, two side stages, and the edges.
SeedTemplate(spec) ==
  LET last == Len(spec)
      key  == [i \in 1 .. last |-> spec[i][1]]
      active == {key[i] : i \in 1 .. last - 1}
  IN  [stages |-> spec \o <<<<"on_hold", "on_hold">>, <<"cancelled", "cancelled">>>>,
       terminal |-> {key[last], "cancelled"},
       edges |-> {<<key[i], key[i + 1]>> : i \in 1 .. last - 1}
                 \cup (active \X {"on_hold", "cancelled"})
                 \cup {<<"on_hold", "cancelled">>}]

Seeds == [t \in DOMAIN SystemSpec |-> SeedTemplate(SystemSpec[t])]

LegacyTemplate == SeedTemplate(LegacySpec)

\* resolve_initial_binding(): the row of that name, at position 0.
InitialStage(trade) == Seeds[TemplateFor(trade)].stages[1]

\* 3c4d5e6f7a8b: the one gate.
FabricationGate == [template |-> "stone", stage |-> "fabrication", type |-> "materials_ready"]

\* ProjectStatus.
ProjectStatuses ==
  {"enquiry", "quoted", "booked", "templated", "fabricated", "installed", "complete"}

-----------------------------------------------------------------------------
Roles(t)    == {t.stages[i][2] : i \in 1 .. Len(t.stages)}
Keys(t)     == {t.stages[i][1] : i \in 1 .. Len(t.stages)}
First(t, r) == CHOOSE i \in 1 .. Len(t.stages) :
                 t.stages[i][2] = r /\ \A j \in 1 .. i - 1 : t.stages[j][2] # r

(* A template is the line of positions ProjectFlow takes it for: its keys  *)
(* are distinct, so a key names one stage; each stage but the last leads   *)
(* to the next one and to both side stages, and nothing leads out of a     *)
(* finished or cancelled project.  No work starts before the quote is      *)
(* approved, nor is one approved before it is quoted.                      *)
IsFlow(t) ==
  LET n == Len(t.stages) - 2 IN
  /\ \A i, j \in 1 .. n + 2 : t.stages[i][1] = t.stages[j][1] => i = j
  /\ \A i, j \in 1 .. n + 2 :
       <<t.stages[i][1], t.stages[j][1]>> \in t.edges <=>
         \/ i < n /\ j \in {i + 1, n + 1, n + 2}
         \/ i = n + 1 /\ j = n + 2
  /\ \A e \in t.edges : e[1] \in Keys(t) \ t.terminal /\ e[2] \in Keys(t)
  /\ t.stages[1] = <<"enquiry", "lead">> /\ t.stages[n] = <<"complete", "completed">>
  /\ First(t, "quoted") < First(t, "approved")
  /\ "in_progress" \in Roles(t) /\ First(t, "approved") < First(t, "in_progress")

(* Every trade a workspace can choose, and one nobody has heard of, finds  *)
(* its template in the database; every template is a flow; the gate is set *)
(* on a stage there is; every status of an older project is a legacy stage.*)
CatalogueIsSound ==
  /\ DOMAIN Catalogue = TradeKeys
  /\ \A trade \in TradeKeys \cup {"unheard_of"} :
       TemplateFor(trade) \in DOMAIN Seeds /\ InitialStage(trade)[2] = "lead"
  /\ \A t \in DOMAIN Seeds : IsFlow(Seeds[t])
  /\ IsFlow(LegacyTemplate)
  /\ FabricationGate.stage \in Keys(Seeds[FabricationGate.template])
  /\ ProjectStatuses = Keys(LegacyTemplate) \ {"on_hold", "cancelled"}
=============================================================================
