------------------------------- MODULE Schema -------------------------------
(***************************************************************************)
(* The schema history (db/migrations/versions/0001 to 0007): what upgrade  *)
(* creates, in the order of its op.create_table calls, each table with its *)
(* foreign keys and its unique keys (constraints and unique indexes), and  *)
(* what downgrade drops, in the order of its op.drop_table calls.  Columns *)
(* and indexes belong to their table: they are created right after it and  *)
(* go with it.                                                             *)
(***************************************************************************)
EXTENDS Sequences

Table(name, refs, keys) == [name |-> name, refs |-> refs, keys |-> keys]

(* A foreign key to a table, with what a deletion there does here. *)
Cascades(table) == <<table, "CASCADE">>
SetsNull(table) == <<table, "SET NULL">>
Restricts(table) == <<table, "RESTRICT">>

(* 0001: identity *)
AccountTables == <<
    Table("permission", {}, {{"slug"}}),
    Table("user", {}, {{"email"}, {"username"}}),
    Table("email_verification_token", {Cascades("user")}, {{"token_hash"}}),
    Table("o_auth_account", {Cascades("user")},
          {{"provider", "provider_account_id"}}) >>
OrganizationTables == <<
    Table("organization", {Restricts("user")}, {{"slug"}}),
    Table("password_reset_token", {Cascades("user")}, {{"token_hash"}}),
    Table("profile", {Cascades("user")}, {{"user_id"}}) >>
SessionTables == <<
    Table("session", {Cascades("user")}, {}),
    Table("api_key", {Cascades("organization"), Cascades("user")},
          {{"prefix"}}),
    Table("audit_log", {SetsNull("organization"), SetsNull("user")}, {}) >>
RoleTables == <<
    Table("refresh_token", {Cascades("session"), Cascades("user")},
          {{"token_hash"}}),
    Table("role", {Cascades("organization")}, {{"organization_id", "slug"}}),
    Table("team", {Cascades("organization")}, {{"organization_id", "slug"}}) >>
MembershipTables == <<
    Table("invitation",
          {Cascades("organization"), Restricts("role"), SetsNull("user")},
          {{"token_hash"}}),
    Table("organization_member",
          {Cascades("organization"), Cascades("user"), Restricts("role")},
          {{"organization_id", "user_id"}}),
    Table("role_permission", {Cascades("permission"), Cascades("role")}, {}) >>
TeamMemberTables == <<
    Table("team_member",
          {Cascades("team"), Cascades("user"), Restricts("role")},
          {{"team_id", "user_id"}}) >>
Drops0001 == <<
    "team_member", "role_permission", "organization_member", "invitation",
    "team", "role", "refresh_token", "audit_log", "api_key", "session",
    "profile", "password_reset_token", "organization", "o_auth_account",
    "email_verification_token", "user", "permission" >>

(* 0002: core infrastructure *)
FlagTables == <<
    Table("feature_flag", {}, {{"key"}}),
    Table("activity_log", {SetsNull("organization"), SetsNull("user")}, {}),
    Table("tag", {Cascades("organization")}, {{"organization_id", "slug"}}) >>
WorkspaceTables == <<
    Table("workspace", {Cascades("organization")},
          {{"organization_id", "slug"}}),
    Table("folder", {Cascades("folder"), Cascades("workspace")}, {}),
    Table("project", {Cascades("workspace")}, {{"workspace_id", "slug"}}) >>
WorkflowTables == <<
    Table("workflow", {Cascades("workspace")}, {}),
    Table("channel", {Cascades("project")}, {}),
    Table("media_file", {Cascades("workspace"), SetsNull("folder")},
          {{"workspace_id", "sha256"}}) >>
WorkflowGraphTables == <<
    Table("workflow_edge", {Cascades("workflow")}, {}),
    Table("workflow_execution", {Cascades("workflow")}, {}),
    Table("workflow_node", {Cascades("workflow")}, {{"workflow_id", "key"}}) >>
VideoTables == <<
    Table("video", {Cascades("project"), SetsNull("channel")}, {}),
    Table("video_tag", {Cascades("tag"), Cascades("video")}, {}),
    Table("video_version", {Cascades("video")},
          {{"video_id", "version_number"}}) >>
Drops0002 == <<
    "video_version", "video_tag", "video", "workflow_node",
    "workflow_execution", "workflow_edge", "media_file", "channel",
    "workflow", "project", "folder", "workspace", "tag", "activity_log",
    "feature_flag" >>

(* 0003: LLM framework *)
LlmRollupTables == <<
    Table("llm_cost_rollup", {}, {{"organization_id", "cost_date", "model"}}),
    Table("llm_usage_rollup", {}, {{"organization_id", "usage_date", "model"}}),
    Table("model_configuration", {}, {{"organization_id", "model"}}) >>
LlmConversationTables == <<
    Table("provider_configuration", {}, {{"organization_id", "provider"}}),
    Table("tool_execution", {}, {}),
    Table("conversation", {Cascades("organization"), SetsNull("user")}, {}) >>
LlmRequestTables == <<
    Table("llm_request", {SetsNull("organization"), SetsNull("user")}, {}),
    Table("prompt_template", {Cascades("organization")},
          {{"organization_id", "name"}}) >>
LlmMessageTables == <<
    Table("conversation_message", {Cascades("conversation")}, {}),
    Table("conversation_summary", {Cascades("conversation")}, {}),
    Table("prompt_version", {Cascades("prompt_template")},
          {{"template_id", "version_number"}}) >>
Drops0003 == <<
    "prompt_version", "conversation_summary", "conversation_message",
    "prompt_template", "llm_request", "conversation", "tool_execution",
    "provider_configuration", "model_configuration", "llm_usage_rollup",
    "llm_cost_rollup" >>

(* 0004: agent framework *)
AgentTables == <<
    Table("agent_tool", {}, {{"organization_id", "name"}}),
    Table("agent_tool_execution", {}, {}),
    Table("agent", {Cascades("organization")}, {{"organization_id", "slug"}}) >>
AgentConfigurationTables == <<
    Table("agent_configuration", {Cascades("agent")}, {}),
    Table("agent_evaluation", {SetsNull("agent")}, {}) >>
AgentGoalTables == <<
    Table("agent_goal", {SetsNull("agent"), SetsNull("organization")}, {}),
    Table("agent_memory", {Cascades("agent")}, {}) >>
AgentMetricTables == <<
    Table("agent_metric", {SetsNull("agent")}, {}),
    Table("agent_reflection", {SetsNull("agent")}, {}),
    Table("agent_version", {Cascades("agent")},
          {{"agent_id", "version_label"}}) >>
AgentRunTables == <<
    Table("agent_workflow_run", {SetsNull("agent")}, {}),
    Table("knowledge_document", {Cascades("organization"), SetsNull("agent")},
          {}) >>
AgentTaskTables == <<
    Table("agent_plan", {Cascades("agent_goal")}, {}),
    Table("agent_task", {Cascades("agent_goal")}, {}),
    Table("agent_task_execution", {Cascades("agent_task")}, {}) >>
Drops0004 == <<
    "agent_task_execution", "agent_task", "agent_plan",
    "knowledge_document", "agent_workflow_run", "agent_version",
    "agent_reflection", "agent_metric", "agent_memory", "agent_goal",
    "agent_evaluation", "agent_configuration", "agent",
    "agent_tool_execution", "agent_tool" >>

(* 0005: catalog models *)
PlanTables == <<
    Table("plan", {}, {{"code"}}),
    Table("notification_preference", {Cascades("user")}, {}),
    Table("cost_record", {SetsNull("organization")}, {}) >>
NotificationTables == <<
    Table("notification", {Cascades("organization"), Cascades("user")}, {}),
    Table("queue_job", {Cascades("organization")}, {{"external_id"}}) >>
SubscriptionTables == <<
    Table("subscription", {Cascades("organization"), Restricts("plan")},
          {{"organization_id", "status"}}),
    Table("webhook", {Cascades("organization")}, {}) >>
InvoiceTables == <<
    Table("invoice", {Cascades("organization"), SetsNull("subscription")},
          {{"number"}}),
    Table("usage_record", {Cascades("organization"), SetsNull("subscription")},
          {}) >>
PaymentTables == <<
    Table("webhook_delivery", {Cascades("webhook")}, {}),
    Table("payment", {Cascades("invoice"), Cascades("organization")},
          {{"provider_payment_id"}}) >>
RenderTables == <<
    Table("render_job",
          {Cascades("organization"), Cascades("video"), SetsNull("queue_job")},
          {}) >>
Drops0005 == <<
    "render_job", "payment", "webhook_delivery", "usage_record",
    "invoice", "webhook", "subscription", "queue_job", "notification",
    "cost_record", "notification_preference", "plan" >>

(* 0006: workflow engine *)
EngineTables == <<
    Table("workflow_trigger", {Cascades("workflow")}, {}),
    Table("workflow_node_execution", {Cascades("workflow_execution")}, {}) >>
Drops0006 == <<
    "workflow_node_execution", "workflow_trigger" >>

(* 0007: video pipeline *)
PipelineTables == <<
    Table("performance_lesson", {SetsNull("video")}, {}),
    Table("pipeline_run", {Cascades("video")}, {}) >>
PublicationTables == <<
    Table("publication", {Cascades("video")}, {{"video_id", "platform"}}),
    Table("research_note", {Cascades("video")}, {}) >>
AnalyticsTables == <<
    Table("analytics_record", {Cascades("publication")},
          {{"publication_id", "measured_on"}}) >>
Drops0007 == <<
    "analytics_record", "research_note", "publication", "pipeline_run",
    "performance_lesson" >>

(* The chain of down_revision links, oldest first. *)
SchemaCreates == <<
    AccountTables \o OrganizationTables \o SessionTables
        \o RoleTables \o MembershipTables \o TeamMemberTables,
    FlagTables \o WorkspaceTables \o WorkflowTables
        \o WorkflowGraphTables \o VideoTables,
    LlmRollupTables \o LlmConversationTables \o LlmRequestTables
        \o LlmMessageTables,
    AgentTables \o AgentConfigurationTables \o AgentGoalTables
        \o AgentMetricTables \o AgentRunTables \o AgentTaskTables,
    PlanTables \o NotificationTables \o SubscriptionTables
        \o InvoiceTables \o PaymentTables \o RenderTables,
    EngineTables,
    PipelineTables \o PublicationTables \o AnalyticsTables >>
SchemaDrops == <<
    Drops0001, Drops0002, Drops0003, Drops0004, Drops0005, Drops0006, Drops0007 >>
=============================================================================
