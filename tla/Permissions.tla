----------------------------- MODULE Permissions -----------------------------
(* The permissions of the platform, the system roles made from them, and what    *)
(* each route of the API asks for. A permission is a resource and an action.     *)

Of(resource, actions) == {resource} \X actions

PERMISSIONS == UNION {
  Of("organization", {"manage", "read"}), Of("workspace", {"manage"}),
  Of("billing", {"manage", "read"}), Of("user", {"manage", "read"}), Of("role", {"manage"}),
  Of("apikey", {"manage"}), Of("audit", {"read"}), Of("team", {"manage"}), Of("queue", {"manage"}),
  Of("taxonomy", {"manage"}), Of("customer", {"read", "create", "update", "delete", "merge", "export"}),
  Of("conversation", {"read", "read_all", "create", "update", "assign"}), Of("message", {"create"}),
  Of("ticket", {"read", "create", "update", "delete", "assign"}), Of("sla", {"manage", "read"}),
  Of("routing", {"manage"}), Of("knowledge", {"read", "create", "update", "publish", "delete"}),
  Of("agent", {"read", "create", "update", "publish", "execute"}), Of("workflow", {"manage"}),
  Of("execution", {"read"}), Of("tool", {"manage", "execute"}), Of("memory", {"read", "delete"}),
  Of("guardrail", {"manage"}), Of("copilot", {"execute"}), Of("automation", {"manage"}),
  Of("qc", {"template_manage", "evaluate", "read_own", "read_all", "dispute", "calibrate"}),
  Of("analytics", {"read", "read_all"}), Of("report", {"manage", "export"}),
  Of("call", {"read", "control"}), Of("voice", {"manage"}), Of("wfm", {"read", "manage"}),
  Of("notification", {"manage"}), Of("integration", {"manage"}), Of("webhook", {"manage"}),
  Of("governance", {"manage"}), Of("eval", {"manage"})}

AGENT_PERMISSIONS == UNION {
  Of("organization", {"read"}), Of("customer", {"read", "create", "update"}),
  Of("conversation", {"read", "create", "update", "assign"}), Of("message", {"create"}),
  Of("ticket", {"read", "create", "update", "assign"}), Of("sla", {"read"}),
  Of("knowledge", {"read"}), Of("agent", {"execute"}), Of("call", {"read", "control"}),
  Of("wfm", {"read"}), Of("tool", {"execute"}), Of("copilot", {"execute"}),
  Of("qc", {"read_own", "dispute"})}
SUPERVISOR_PERMISSIONS == AGENT_PERMISSIONS \cup UNION {
  Of("user", {"read"}), Of("team", {"manage"}), Of("queue", {"manage"}), Of("taxonomy", {"manage"}),
  Of("customer", {"merge"}), Of("conversation", {"read_all"}), Of("sla", {"manage"}),
  Of("routing", {"manage"}), Of("knowledge", {"create", "update", "publish"}), Of("agent", {"read"}),
  Of("execution", {"read"}), Of("memory", {"read"}), Of("automation", {"manage"}),
  Of("qc", {"evaluate", "read_all"}), Of("analytics", {"read", "read_all"}),
  Of("report", {"manage", "export"}), Of("notification", {"manage"}), Of("wfm", {"manage"})}
ADMIN_PERMISSIONS == SUPERVISOR_PERMISSIONS \cup UNION {
  Of("organization", {"manage"}), Of("workspace", {"manage"}), Of("billing", {"read"}),
  Of("user", {"manage"}), Of("role", {"manage"}), Of("apikey", {"manage"}), Of("audit", {"read"}),
  Of("customer", {"delete", "export"}), Of("ticket", {"delete"}), Of("knowledge", {"delete"}),
  Of("agent", {"create", "update", "publish"}), Of("workflow", {"manage"}), Of("tool", {"manage"}),
  Of("memory", {"delete"}), Of("guardrail", {"manage"}), Of("qc", {"template_manage", "calibrate"}),
  Of("integration", {"manage"}), Of("webhook", {"manage"}), Of("governance", {"manage"}),
  Of("eval", {"manage"}), Of("voice", {"manage"})}

ROLE_KEYS == {"owner", "administrator", "supervisor", "qa_manager", "agent", "ai_builder",
              "analyst", "viewer"}
SYSTEM_ROLES == [r \in ROLE_KEYS |->
  CASE r = "owner" -> ADMIN_PERMISSIONS \cup Of("billing", {"manage"})
    [] r = "administrator" -> ADMIN_PERMISSIONS
    [] r = "supervisor" -> SUPERVISOR_PERMISSIONS
    [] r = "agent" -> AGENT_PERMISSIONS
    [] r = "qa_manager" -> UNION {
         Of("organization", {"read"}), Of("user", {"read"}), Of("audit", {"read"}),
         Of("customer", {"read"}), Of("conversation", {"read", "read_all"}), Of("ticket", {"read"}),
         Of("sla", {"read"}), Of("knowledge", {"read"}), Of("agent", {"read"}), Of("memory", {"read"}),
         Of("qc", {"template_manage", "evaluate", "read_own", "read_all", "dispute", "calibrate"}),
         Of("analytics", {"read", "read_all"}), Of("report", {"manage", "export"}),
         Of("eval", {"manage"})}
    [] r = "ai_builder" -> UNION {
         Of("organization", {"read"}), Of("apikey", {"manage"}), Of("customer", {"read"}),
         Of("knowledge", {"read", "create", "update", "publish"}),
         Of("agent", {"read", "create", "update", "publish", "execute"}), Of("workflow", {"manage"}),
         Of("execution", {"read"}), Of("tool", {"manage", "execute"}), Of("memory", {"read", "delete"}),
         Of("guardrail", {"manage"}), Of("automation", {"manage"}), Of("analytics", {"read"}),
         Of("integration", {"manage"}), Of("webhook", {"manage"}), Of("eval", {"manage"})}
    [] r = "analyst" -> UNION {
         Of("organization", {"read"}), Of("billing", {"read"}), Of("user", {"read"}),
         Of("audit", {"read"}), Of("customer", {"read", "export"}),
         Of("conversation", {"read", "read_all"}), Of("ticket", {"read"}), Of("sla", {"read"}),
         Of("knowledge", {"read"}), Of("agent", {"read"}), Of("execution", {"read"}),
         Of("qc", {"read_all"}), Of("analytics", {"read", "read_all"}),
         Of("report", {"manage", "export"})}
    [] r = "viewer" -> UNION {
         Of(x, {"read"}) : x \in {"organization", "user", "customer", "conversation", "ticket", "sla",
                                  "knowledge", "agent", "analytics"}}]

\* To manage a resource is to do anything to it.
HasPermission(granted, p) == {p, <<p[1], "manage">>} \cap granted # {}
HasAllPermissions(granted, required) == \A p \in required : HasPermission(granted, p)

-----------------------------------------------------------------------------
(* The routes, one definition for a controller or a part of one: what its handlers *)
(* ask for, and what they do. A handler reads; or notes what is derived, asked of   *)
(* somebody who decides, or seen, and changes nothing else; or writes. Own routes   *)
(* are about the caller and ask for nothing, open ones have guards of their own.    *)

Route(does, asks) == [does |-> does, asks |-> asks]
Each(does, resource, actions) == {Route(does, {p}) : p \in Of(resource, actions)}
Reads(resource, actions)  == Each("reads", resource, actions)
Notes(resource, actions)  == Each("notes", resource, actions)
Writes(resource, actions) == Each("writes", resource, actions)
Own  == {Route("own", {})}
Open == {Route("open", {})}

AgentRoutes == Reads("agent", {"read"}) \cup Reads("execution", {"read"})
  \cup Writes("agent", {"create", "execute", "update", "publish"})
ModelRoutes == Reads("agent", {"read"}) \cup Reads("analytics", {"read"})
  \cup Writes("governance", {"manage"}) \cup Writes("agent", {"execute"})
AnalyticsRoutes == Reads("analytics", {"read", "read_all"}) \cup Reads("conversation", {"read"})
  \cup Notes("conversation", {"read"})
AuditRoutes == Reads("audit", {"read"})
AuthRoutes == Open \cup Own
AutomationRoutes == Reads("organization", {"read"}) \cup Reads("automation", {"manage"})
  \cup Writes("automation", {"manage"})
BillingRoutes == Open \cup Reads("billing", {"read"}) \cup Reads("analytics", {"read"})
  \cup Notes("analytics", {"read_all"}) \cup Writes("billing", {"manage"})
ChannelsRoutes == Reads("organization", {"read"}) \cup Writes("integration", {"manage"})
  \cup Writes("conversation", {"create"})
ConversationsRoutes == Reads("conversation", {"read"})
  \cup Writes("conversation", {"create", "update", "assign"}) \cup Writes("message", {"create"})
CopilotRoutes == Reads("customer", {"read"}) \cup Notes("customer", {"read"})
  \cup Writes("copilot", {"execute"})
CustomersRoutes == Reads("customer", {"read"})
  \cup Writes("customer", {"create", "update", "delete", "merge"})
DirectoryRoutes == Reads("organization", {"read"}) \cup Writes("team", {"manage"})
  \cup Writes("queue", {"manage"})
CalendarRoutes == Reads("organization", {"read"}) \cup Writes("organization", {"manage"})
TaxonomyRoutes == Reads("organization", {"read"}) \cup Reads("conversation", {"read"})
  \cup Writes("taxonomy", {"manage"})
BackupRoutes == Reads("organization", {"manage"}) \cup Writes("organization", {"manage"})
EvaluationRoutes == Reads("agent", {"read"}) \cup Writes("eval", {"manage"})
GovernanceRoutes == Reads("governance", {"manage"}) \cup Notes("customer", {"export"})
  \cup Writes("governance", {"manage"}) \cup Writes("customer", {"delete"})
GuardrailsRoutes == Reads("agent", {"read"}) \cup Reads("execution", {"read"})
  \cup Writes("guardrail", {"manage"})
HybridRoutes == Open \cup Reads("organization", {"manage"}) \cup Writes("organization", {"manage"})
MemberRoutes == Open \cup Own \cup Reads("user", {"read"}) \cup Reads("apikey", {"manage"})
  \cup Writes("user", {"manage"}) \cup Writes("role", {"manage"}) \cup Writes("apikey", {"manage"})
IntegrationsRoutes == Reads("integration", {"manage"}) \cup Writes("integration", {"manage"})
KnowledgeBaseRoutes == Reads("knowledge", {"read"}) \cup Reads("analytics", {"read"})
  \cup Writes("knowledge", {"create", "update", "delete"})
ArticleRoutes == Reads("knowledge", {"read"})
  \cup Writes("knowledge", {"create", "update", "publish", "delete"})
DocumentRoutes == Reads("knowledge", {"read"})
  \cup Writes("knowledge", {"create", "update", "delete"})
MemoryRoutes == Reads("memory", {"read"}) \cup Writes("memory", {"delete"})
  \cup Writes("customer", {"update"})
NotificationsRoutes == Own \cup Reads("organization", {"read"})
  \cup Writes("notification", {"manage"})
QualityRoutes == Reads("qc", {"read_own", "calibrate"}) \cup Reads("conversation", {"read"})
  \cup Notes("conversation", {"read"})
  \cup Writes("qc", {"template_manage", "evaluate", "dispute", "calibrate"})
ReportsRoutes == Reads("analytics", {"read"}) \cup Reads("report", {"export"})
  \cup Notes("analytics", {"read"}) \cup Writes("report", {"manage"})
DeadLetterRoutes == Reads("organization", {"manage"}) \cup Writes("organization", {"manage"})
RoutingRoutes == Reads("organization", {"read"}) \cup Reads("routing", {"manage"})
  \cup Writes("routing", {"manage"}) \cup Writes("conversation", {"assign"})
SlaRoutes == Reads("sla", {"read"}) \cup Reads("analytics", {"read"}) \cup Writes("sla", {"manage"})
ScimRoutes == Reads("user", {"manage"}) \cup Writes("user", {"manage"})
SsoRoutes == Open \cup Reads("organization", {"manage"}) \cup Writes("organization", {"manage"})
TenancyRoutes == Reads("organization", {"read"}) \cup Writes("organization", {"manage"})
  \cup Writes("workspace", {"manage"})
\* Mutant: the bulk update asks for what the list asks for.
TicketsRoutesBulk == Reads("ticket", {"read"}) \cup Writes("ticket", {"read", "create", "update", "delete"})
TicketsRoutes == Reads("ticket", {"read"}) \cup Writes("ticket", {"create", "update", "delete"})
ToolRoutes == Reads("agent", {"read"}) \cup Reads("execution", {"read"})
  \cup Writes("tool", {"manage", "execute"})
CallRoutes == Open \cup Reads("call", {"read"}) \cup Writes("call", {"control"})
LineRoutes == Reads("voice", {"manage"}) \cup Writes("voice", {"manage"})
WebhooksRoutes == Reads("webhook", {"manage"}) \cup Writes("webhook", {"manage"})
ForecastRoutes == Reads("wfm", {"read"}) \cup Writes("wfm", {"manage"})
RosterRoutes == Reads("wfm", {"read"}) \cup Notes("wfm", {"read"}) \cup Writes("wfm", {"manage"})
WidgetRoutes == Open
WorkflowsRoutes == Reads("agent", {"read"}) \cup Writes("workflow", {"manage"})

Routes == UNION {
  AgentRoutes, ModelRoutes, AnalyticsRoutes, AuditRoutes, AuthRoutes, AutomationRoutes, BillingRoutes,
  ChannelsRoutes, ConversationsRoutes, CopilotRoutes, CustomersRoutes, DirectoryRoutes, CalendarRoutes,
  TaxonomyRoutes, BackupRoutes, EvaluationRoutes, GovernanceRoutes, GuardrailsRoutes, HybridRoutes,
  MemberRoutes, IntegrationsRoutes, KnowledgeBaseRoutes, ArticleRoutes, DocumentRoutes, MemoryRoutes,
  NotificationsRoutes, QualityRoutes, ReportsRoutes, DeadLetterRoutes, RoutingRoutes, SlaRoutes,
  ScimRoutes, SsoRoutes, TenancyRoutes, TicketsRoutes, ToolRoutes, CallRoutes, LineRoutes,
  WebhooksRoutes, ForecastRoutes, RosterRoutes, WidgetRoutes, WorkflowsRoutes}
WritingRoutes == {r \in Routes : r.does = "writes"}
=============================================================================
