------------------------------- MODULE Models -------------------------------
(***************************************************************************)
(* What the application expects of its database: the mapped classes of     *)
(* app/models, file by file, each with the table it maps, the foreign keys *)
(* of its columns and its unique keys.  They are written by hand beside    *)
(* the migrations of Schema.                                               *)
(***************************************************************************)
EXTENDS Schema

AgentModels == {
    Table("agent", {Cascades("organization")}, {{"organization_id", "slug"}}),
    Table("agent_version", {Cascades("agent")},
          {{"agent_id", "version_label"}}),
    Table("agent_configuration", {Cascades("agent")}, {}),
    Table("agent_goal", {SetsNull("agent"), SetsNull("organization")}, {}),
    Table("agent_task", {Cascades("agent_goal")}, {}) }

AgentTaskModels == {
    Table("agent_task_execution", {Cascades("agent_task")}, {}),
    Table("agent_memory", {Cascades("agent")}, {}),
    Table("knowledge_document", {Cascades("organization"), SetsNull("agent")},
          {}),
    Table("agent_tool", {}, {{"organization_id", "name"}}),
    Table("agent_tool_execution", {}, {}),
    Table("agent_reflection", {SetsNull("agent")}, {}),
    Table("agent_evaluation", {SetsNull("agent")}, {}),
    Table("agent_plan", {Cascades("agent_goal")}, {}) }

AgentMetricModels == {
    Table("agent_workflow_run", {SetsNull("agent")}, {}),
    Table("agent_metric", {SetsNull("agent")}, {}) }

ApiKeyModels == {
    Table("api_key", {Cascades("organization"), Cascades("user")},
          {{"prefix"}}) }

AuditModels == {
    Table("audit_log", {SetsNull("organization"), SetsNull("user")}, {}) }

AuthModels == {
    Table("session", {Cascades("user")}, {}),
    Table("refresh_token", {Cascades("session"), Cascades("user")},
          {{"token_hash"}}),
    Table("email_verification_token", {Cascades("user")}, {{"token_hash"}}),
    Table("password_reset_token", {Cascades("user")}, {{"token_hash"}}),
    Table("o_auth_account", {Cascades("user")},
          {{"provider", "provider_account_id"}}) }

SubscriptionModels == {
    Table("plan", {}, {{"code"}}),
    Table("subscription", {Cascades("organization"), Restricts("plan")},
          {{"organization_id", "status"}}),
    Table("invoice", {Cascades("organization"), SetsNull("subscription")},
          {{"number"}}) }

InvoiceModels == {
    Table("payment", {Cascades("invoice"), Cascades("organization")},
          {{"provider_payment_id"}}),
    Table("usage_record", {Cascades("organization"), SetsNull("subscription")},
          {}),
    Table("cost_record", {SetsNull("organization")}, {}) }

InfraModels == {
    Table("feature_flag", {}, {{"key"}}),
    Table("activity_log", {SetsNull("organization"), SetsNull("user")}, {}) }

InvitationModels == {
    Table("invitation",
          {Cascades("organization"), Restricts("role"), SetsNull("user")},
          {{"token_hash"}}) }

JobModels == {
    Table("queue_job", {Cascades("organization")}, {{"external_id"}}),
    Table("render_job",
          {Cascades("organization"), Cascades("video"), SetsNull("queue_job")},
          {}) }

LlmConfigurationModels == {
    Table("prompt_template", {Cascades("organization")},
          {{"organization_id", "name"}}),
    Table("prompt_version", {Cascades("prompt_template")},
          {{"template_id", "version_number"}}),
    Table("conversation", {Cascades("organization"), SetsNull("user")}, {}),
    Table("conversation_message", {Cascades("conversation")}, {}),
    Table("conversation_summary", {Cascades("conversation")}, {}) }

LlmConversationModels == {
    Table("llm_request", {SetsNull("organization"), SetsNull("user")}, {}),
    Table("llm_usage_rollup", {}, {{"organization_id", "usage_date", "model"}}),
    Table("llm_cost_rollup", {}, {{"organization_id", "cost_date", "model"}}),
    Table("tool_execution", {}, {}),
    Table("model_configuration", {}, {{"organization_id", "model"}}),
    Table("provider_configuration", {}, {{"organization_id", "provider"}}) }

MediaModels == {
    Table("video_tag", {Cascades("tag"), Cascades("video")}, {}),
    Table("folder", {Cascades("folder"), Cascades("workspace")}, {}),
    Table("media_file", {Cascades("workspace"), SetsNull("folder")},
          {{"workspace_id", "sha256"}}),
    Table("tag", {Cascades("organization")}, {{"organization_id", "slug"}}) }

NotificationModels == {
    Table("notification", {Cascades("organization"), Cascades("user")}, {}),
    Table("notification_preference", {Cascades("user")}, {}),
    Table("webhook", {Cascades("organization")}, {}),
    Table("webhook_delivery", {Cascades("webhook")}, {}) }

OrganizationModels == {
    Table("organization", {Restricts("user")}, {{"slug"}}),
    Table("organization_member",
          {Cascades("organization"), Cascades("user"), Restricts("role")},
          {{"organization_id", "user_id"}}) }

PipelineModels == {
    Table("research_note", {Cascades("video")}, {}),
    Table("pipeline_run", {Cascades("video")}, {}),
    Table("publication", {Cascades("video")}, {{"video_id", "platform"}}),
    Table("analytics_record", {Cascades("publication")},
          {{"publication_id", "measured_on"}}),
    Table("performance_lesson", {SetsNull("video")}, {}) }

RbacModels == {
    Table("role_permission", {Cascades("permission"), Cascades("role")}, {}),
    Table("permission", {}, {{"slug"}}),
    Table("role", {Cascades("organization")}, {{"organization_id", "slug"}}) }

TeamModels == {
    Table("team", {Cascades("organization")}, {{"organization_id", "slug"}}),
    Table("team_member",
          {Cascades("team"), Cascades("user"), Restricts("role")},
          {{"team_id", "user_id"}}) }

UserModels == {
    Table("user", {}, {{"email"}, {"username"}}),
    Table("profile", {Cascades("user")}, {{"user_id"}}) }

VideoModels == {
    Table("video", {Cascades("project"), SetsNull("channel")}, {}),
    Table("video_version", {Cascades("video")},
          {{"video_id", "version_number"}}) }

WorkflowModels == {
    Table("workflow", {Cascades("workspace")}, {}),
    Table("workflow_node", {Cascades("workflow")}, {{"workflow_id", "key"}}),
    Table("workflow_edge", {Cascades("workflow")}, {}),
    Table("workflow_trigger", {Cascades("workflow")}, {}),
    Table("workflow_node_execution", {Cascades("workflow_execution")}, {}),
    Table("workflow_execution", {Cascades("workflow")}, {}) }

WorkspaceModels == {
    Table("workspace", {Cascades("organization")},
          {{"organization_id", "slug"}}),
    Table("project", {Cascades("workspace")}, {{"workspace_id", "slug"}}),
    Table("channel", {Cascades("project")}, {}) }

(* models/__init__.py registers every class on Base.metadata. *)
Metadata == UNION {
    AgentModels, AgentTaskModels, AgentMetricModels, ApiKeyModels,
    AuditModels, AuthModels, SubscriptionModels, InvoiceModels, InfraModels,
    InvitationModels, JobModels, LlmConfigurationModels,
    LlmConversationModels, MediaModels, NotificationModels,
    OrganizationModels, PipelineModels, RbacModels, TeamModels, UserModels,
    VideoModels, WorkflowModels, WorkspaceModels }
=============================================================================
