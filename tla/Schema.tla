------------------------------- MODULE Schema -------------------------------
(***************************************************************************)
(* The schema history of alembic/versions: what each revision adds to the  *)
(* database and what its downgrade takes away, in the order it does so, a  *)
(* replay of the chain, and what the replay must establish.  Tables,       *)
(* added columns, foreign keys and columns an INSERT must name are kept;   *)
(* column types, indexes and the columns a table is created with are not.  *)
(* What the revisions do to rows is in Migrations.                         *)
(***************************************************************************)
EXTENDS Naturals, Sequences

-----------------------------------------------------------------------------
(* A revision. "creates" and "drops" are ordered, because PostgreSQL       *)
(* refuses a key to a table that does not exist and the drop of a table    *)
(* another one refers to.                                                  *)

Nothing ==
  [creates |-> <<>>, adds |-> {}, links |-> {}, requires |-> {}, frees |-> {},
   drops |-> <<>>, removes |-> {}, unlinks |-> {}]

Table(name, refs) == [name |-> name, refs |-> refs]

\* upgrade() creates the tables in this order, downgrade() drops them in that.
Tables(creates, drops) == [Nothing EXCEPT !.creates = creates, !.drops = drops]

\* upgrade() adds the columns, downgrade() drops the same ones.
Columns(table, names) ==
  [Nothing EXCEPT !.adds = {table} \X names, !.removes = {table} \X names]

\* Foreign keys from a table that exists already.
Links(table, targets) ==
  [Nothing EXCEPT !.links = {table} \X targets, !.unlinks = {table} \X targets]

\* Columns every INSERT must give a value, and columns it need not any more.
Requires(table, names) == [Nothing EXCEPT !.requires = {table} \X names]
Frees(table, names) == [Nothing EXCEPT !.frees = {table} \X names]

a \sqcup b ==
  [creates  |-> a.creates \o b.creates,    drops    |-> a.drops \o b.drops,
   adds     |-> a.adds \cup b.adds,        removes  |-> a.removes \cup b.removes,
   links    |-> a.links \cup b.links,      unlinks  |-> a.unlinks \cup b.unlinks,
   requires |-> a.requires \cup b.requires, frees   |-> a.frees \cup b.frees]

-----------------------------------------------------------------------------
(* The revisions, oldest first.                                            *)

CoreSchema ==
  Tables(<<Table("activity_log", {}), Table("customers", {}), Table("materials", {}),
    Table("notifications", {}), Table("users", {}), Table("projects", {"customers"}),
    Table("quotes", {"customers"})>>, <<"quotes", "projects", "users", "notifications",
    "materials", "customers", "activity_log">>)

AddPasswordHash == Columns("users", {"password_hash"}) \sqcup Requires("users", {"password_hash"})

AddProjectStatus == Columns("projects", {"status"})

AddTenants == Tables(<<Table("tenants", {})>>, <<"tenants">>)

TenantTables ==
  {"activity_log", "customers", "materials", "notifications", "projects", "quotes", "users"}

AddTenantKeys ==
  LET keys == TenantTables \X {"tenants"}
  IN  [Nothing EXCEPT !.links = keys, !.unlinks = keys]

RequireUsersTenant == Requires("users", {"tenant_id"})

AddInvitations == Tables(<<Table("invitations", {"tenants", "users"})>>, <<"invitations">>)

AddPortalLinks ==
  Tables(<<Table("portal_links", {"customers", "tenants", "users"})>>, <<"portal_links">>)

AddUsersIsActive == Columns("users", {"is_active"})

AddDocuments == Tables(<<Table("documents", {"customers", "tenants", "users"})>>, <<"documents">>)

AddMessages == Tables(<<Table("messages", {"customers", "tenants", "users"})>>, <<"messages">>)

AddQuoteApproval ==
  Columns("quotes", {"status", "approved_at", "approved_by_user_id"}) \sqcup
    Links("quotes", {"users"})

AddProjectQuoteId == Columns("projects", {"quote_id"}) \sqcup Links("projects", {"quotes"})

AddAppointments ==
  Tables(<<Table("appointments", {"projects", "tenants", "users"})>>, <<"appointments">>)

AddProjectAssignee ==
  Columns("projects", {"assigned_user_id"}) \sqcup Links("projects", {"users"})

AddNotificationSource ==
  Columns("notifications", {"recipient_user_id", "source_type", "source_id",
    "dedupe_key"}) \sqcup Links("notifications", {"users"})

AddQuoteDimensions ==
  Columns("quotes", {"quantity", "length_mm", "width_mm", "thickness_mm", "unit_input",
    "splashback_length_mm", "upstands_length_mm"}) \sqcup Requires("quotes", {"length_mm"})

AddSubscriptions ==
  Tables(<<Table("subscriptions", {"tenants"}), Table("processed_stripe_events", {})>>,
    <<"processed_stripe_events", "subscriptions">>)

AddQuoteItems == Tables(<<Table("quote_items", {"quotes"})>>, <<"quote_items">>)

AddCompanyIdentity ==
  Columns("tenants", {"legal_name", "trading_name", "address_line1", "address_line2",
    "city", "postcode", "country", "contact_email", "contact_phone", "website",
    "company_number", "vat_number", "logo_url", "document_footer"})

ExpandCustomerProfile ==
  Columns("customers", {"customer_type", "company_name", "address_line1", "address_line2",
    "city", "postcode", "notes"})

ExpandProjectRecord ==
  Columns("projects", {"project_type", "description", "site_address_line1",
    "site_address_line2", "site_city", "site_postcode", "start_date",
    "target_completion_date", "estimated_value"})

UniversalQuoting ==
  Columns("quotes", {"quote_kind", "currency", "vat_rate", "title", "trade",
    "site_address_line1", "site_address_line2", "site_city", "site_postcode",
    "scope_of_works", "notes", "exclusions", "terms", "valid_until", "subtotal",
    "discount_amount", "sent_at"})
  \sqcup Columns("quote_items", {"line_kind", "description", "unit", "unit_price"})
  \sqcup Frees("quotes", {"length_mm"})

AddAutomationsTasks ==
  Tables(<<Table("tasks", {"tenants", "users"}), Table("automations", {"tenants",
    "users"}), Table("automation_runs", {"automations", "tenants"})>>,
    <<"automation_runs", "automations", "tasks">>)

AddWorkspaceConfiguration ==
  Columns("tenants", {"currency", "trades", "onboarding_completed_at",
    "logo_storage_filename"})

AddCommunications ==
  Tables(<<Table("communications", {"automation_runs", "automations", "customers",
    "invitations", "projects", "quotes", "tenants"}), Table("email_suppressions",
    {"communications", "tenants"})>>, <<"email_suppressions", "communications">>)

AddEmailEvents == Tables(<<Table("processed_email_events", {})>>, <<"processed_email_events">>)

AddEmailVerification ==
  Tables(<<Table("email_verification_tokens", {"users"})>>,
    <<"email_verification_tokens">>) \sqcup Columns("users", {"email_verified_at"})

AddPasswordReset ==
  Tables(<<Table("password_reset_tokens", {"users"})>>, <<"password_reset_tokens">>)
    \sqcup Columns("users", {"token_version"})

AddTrialColumns == Columns("subscriptions", {"trial_start", "trial_end"})

AddGrandfathering == Columns("subscriptions", {"legacy_grandfathered"})

WorkflowTables ==
  <<Table("workflow_templates", {"tenants"}), Table("workflow_stages", {"workflow_templates"}),
    Table("workflow_transitions", {"workflow_stages", "workflow_templates"}),
    Table("project_workflow_history", {"projects", "tenants", "users", "workflow_stages"})>>

WorkflowColumns ==
  {"workflow_template_id", "workflow_stage_id", "workflow_previous_active_stage_id"}

AddWorkflowEngine ==
  Tables(WorkflowTables, <<"project_workflow_history", "workflow_transitions",
                           "workflow_stages", "workflow_templates">>)
  \sqcup Columns("projects", WorkflowColumns)
  \sqcup Links("projects", {"workflow_stages", "workflow_templates"})
  \sqcup Requires("projects", {"workflow_template_id", "workflow_stage_id"})

AddDemoRequests == Tables(<<Table("demo_requests", {})>>, <<"demo_requests">>)

CatalogueTables ==
  <<Table("catalogue_suppliers", {}), Table("catalogue_manufacturers", {}),
    Table("catalogue_brands", {"catalogue_manufacturers"}),
    Table("catalogue_collections", {"catalogue_brands", "catalogue_manufacturers"}),
    Table("catalogue_surfaces", {"catalogue_brands", "catalogue_collections",
      "catalogue_manufacturers", "catalogue_suppliers", "tenants"}),
    Table("catalogue_surface_variants", {"catalogue_surfaces"}),
    Table("tenant_catalogue_overrides", {"catalogue_suppliers",
      "catalogue_surface_variants", "catalogue_surfaces", "tenants"})>>

CatalogueDrops ==
  <<"tenant_catalogue_overrides", "catalogue_surface_variants", "catalogue_surfaces",
    "catalogue_collections", "catalogue_brands", "catalogue_manufacturers",
    "catalogue_suppliers">>

AddCatalogue ==
  Tables(CatalogueTables, CatalogueDrops)
  \sqcup Columns("quote_items", {"catalogue_surface_id", "catalogue_variant_id", "catalogue_snapshot"})
  \sqcup Links("quote_items", {"catalogue_surface_variants", "catalogue_surfaces"})

AddFinancialsVariations ==
  Tables(<<Table("project_cost_entries", {"projects", "tenants", "users"}),
    Table("variations", {"projects", "tenants", "users"}), Table("variation_items",
    {"variations"})>>, <<"variation_items", "variations", "project_cost_entries">>)

RequirementTables ==
  <<Table("project_material_requirements", {"catalogue_suppliers",
      "catalogue_surface_variants", "catalogue_surfaces", "projects", "tenants", "users"}),
    Table("tenant_supplier_accounts", {"catalogue_suppliers", "tenants"}),
    Table("purchase_orders", {"catalogue_suppliers", "projects", "tenants", "users"})>>

ReceiptTables ==
  <<Table("purchase_order_items", {"catalogue_surface_variants", "catalogue_surfaces",
      "project_material_requirements", "purchase_orders"}),
    Table("purchase_receipts", {"purchase_orders", "tenants", "users"}),
    Table("purchase_receipt_items", {"purchase_order_items", "purchase_receipts"}),
    Table("project_material_allocations", {"project_material_requirements", "projects",
      "purchase_order_items", "tenants", "users"})>>

\* Mutant: the order the tables were created in.
ProcurementDropsInOrder ==
  <<"project_material_requirements", "tenant_supplier_accounts", "purchase_orders",
    "purchase_order_items", "purchase_receipts", "purchase_receipt_items",
    "project_material_allocations">>

ProcurementDrops ==
  <<"project_material_allocations", "purchase_receipt_items", "purchase_receipts",
    "purchase_order_items", "purchase_orders", "tenant_supplier_accounts",
    "project_material_requirements">>

AddProcurement ==
  Tables(RequirementTables \o ReceiptTables, ProcurementDrops)
  \sqcup Columns("project_cost_entries", {"purchase_order_id", "purchase_order_item_id"})
  \sqcup Links("project_cost_entries", {"purchase_order_items", "purchase_orders"})

AddComplianceControls ==
  Tables(<<Table("workspace_deletions", {"tenants", "users"}), Table("copyright_cases",
    {}), Table("workspace_exports", {"tenants", "users"}),
    Table("marketing_preferences", {"tenants"}), Table("marketing_unsubscribe_tokens",
    {"tenants"})>>, <<"marketing_unsubscribe_tokens", "marketing_preferences",
    "workspace_exports", "copyright_cases", "workspace_deletions">>)

AddSessionRevocations ==
  Tables(<<Table("revoked_browser_sessions", {"users"})>>, <<"revoked_browser_sessions">>)

AddProjectCurrency == Columns("projects", {"currency"})

AddWorkspacePhotos ==
  Columns("tenant_catalogue_overrides", {"image_url"})

\* a8d91098a01e only adds indexes, and 3c4d5e6f7a8b only sets a workflow gate.
Chain ==
  <<CoreSchema, AddPasswordHash, AddProjectStatus, AddTenants, AddTenantKeys,
    RequireUsersTenant, AddInvitations, Nothing, AddPortalLinks, AddUsersIsActive,
    AddDocuments, AddMessages, AddQuoteApproval, AddProjectQuoteId, AddAppointments,
    AddProjectAssignee, AddNotificationSource, AddQuoteDimensions, AddSubscriptions, AddQuoteItems,
    AddCompanyIdentity, ExpandCustomerProfile, ExpandProjectRecord, UniversalQuoting, AddAutomationsTasks,
    AddWorkspaceConfiguration, AddCommunications, AddEmailEvents, AddEmailVerification, AddPasswordReset,
    AddTrialColumns, AddGrandfathering, AddWorkflowEngine, AddDemoRequests, AddCatalogue,
    AddFinancialsVariations, AddProcurement, Nothing, AddComplianceControls, AddSessionRevocations,
    AddProjectCurrency, AddWorkspacePhotos>>

Latest == Len(Chain)

-----------------------------------------------------------------------------
(* The replay of a revision on a schema, and whether PostgreSQL would have *)
(* refused one of its statements.                                          *)

Empty ==
  [tables |-> {}, columns |-> {}, links |-> {}, required |-> {}, refused |-> FALSE]

Create(s, t) ==
  [s EXCEPT !.tables = @ \cup {t.name},
            !.links = @ \cup ({t.name} \X t.refs),
            !.refused = @ \/ t.name \in s.tables \/ ~ t.refs \subseteq s.tables]

Others(pairs, t) == {p \in pairs : p[1] # t}

Drop(s, t) ==
  [tables |-> s.tables \ {t}, columns |-> Others(s.columns, t),
   links |-> Others(s.links, t), required |-> Others(s.required, t),
   refused |-> s.refused \/ t \notin s.tables \/ \E l \in Others(s.links, t) : l[2] = t]

Altered(s, r) ==
  [s EXCEPT !.columns = @ \cup r.adds, !.links = @ \cup r.links,
            !.required = (@ \ r.frees) \cup r.requires,
            !.refused = \/ @
                        \/ \E p \in r.adds : p[1] \notin s.tables \/ p \in s.columns
                        \/ \E l \in r.links : ~ {l[1], l[2]} \subseteq s.tables \/ l \in s.links]

Restored(s, r) ==
  [s EXCEPT !.columns = @ \ r.removes, !.links = @ \ r.unlinks,
            !.required = (@ \ (r.removes \cup r.requires)) \cup r.frees,
            !.refused = @ \/ ~ r.removes \subseteq s.columns \/ ~ r.unlinks \subseteq s.links]

\* The statements of a revision run in the order they are written.
Created(s, tables) ==
  LET at[i \in 0 .. Len(tables)] == IF i = 0 THEN s ELSE Create(at[i - 1], tables[i])
  IN  at[Len(tables)]

Dropped(s, names) ==
  LET at[i \in 0 .. Len(names)] == IF i = 0 THEN s ELSE Drop(at[i - 1], names[i])
  IN  at[Len(names)]

Up(s, r) == Altered(Created(s, r.creates), r)
Down(s, r) == Dropped(Restored(s, r), r.drops)

\* The schema of a database upgraded from nothing to revision n.
SchemaAt[n \in 0 .. Latest] == IF n = 0 THEN Empty ELSE Up(SchemaAt[n - 1], Chain[n])

\* The tables app/database/models.py declares.
ModelTables ==
  {"tenants", "customers", "quotes", "quote_items", "projects", "tasks", "automations",
   "automation_runs", "materials", "users", "email_verification_tokens",
   "password_reset_tokens", "invitations", "portal_links", "documents", "messages",
   "activity_log", "notifications", "appointments", "subscriptions",
   "processed_stripe_events", "communications", "email_suppressions",
   "processed_email_events", "workflow_templates", "workflow_stages",
   "workflow_transitions", "project_workflow_history", "demo_requests",
   "catalogue_suppliers", "catalogue_manufacturers", "catalogue_brands",
   "catalogue_collections", "catalogue_surfaces", "catalogue_surface_variants",
   "tenant_catalogue_overrides", "project_cost_entries", "variations",
   "variation_items", "project_material_requirements", "tenant_supplier_accounts",
   "purchase_orders", "purchase_order_items", "purchase_receipts",
   "purchase_receipt_items", "project_material_allocations", "workspace_deletions",
   "copyright_cases", "workspace_exports", "marketing_preferences",
   "marketing_unsubscribe_tokens", "revoked_browser_sessions"}

-----------------------------------------------------------------------------
(* The chain replays: no upgrade is refused, every downgrade is accepted   *)
(* and restores exactly the schema of the revision before (so the database *)
(* can go down and up again), and at the head the database has the tables  *)
(* the models declare, no more and no fewer.                               *)
ChainReplays ==
  /\ ~ SchemaAt[Latest].refused
  /\ \A n \in 1 .. Latest : Down(SchemaAt[n], Chain[n]) = SchemaAt[n - 1]
  /\ SchemaAt[Latest].tables = ModelTables
=============================================================================
