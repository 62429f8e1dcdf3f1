---------------------------- MODULE Classification ----------------------------
(***************************************************************************)
(* Safe or unsafe: src/src/mcp/classify.js, and the annotations that       *)
(* index.js adds to a tools/list result.  A message is a record with a     *)
(* `method` and a `tool`; the value None stands for what is no JSON-RPC    *)
(* object, no method, or a tools/call without a tool name.                 *)
(***************************************************************************)
EXTENDS Integers, SequencesExt

CONSTANTS None,
          SafeToolsCsv, UnsafeToolsCsv  \* the operator's overrides

SAFE_METHODS ==
  {"initialize", "ping", "tools/list", "prompts/list", "resources/list",
   "resources/templates/list", "completion/complete", "logging/setLevel"}

\* The methods with the prefix of SAFE_METHOD_PREFIXES that MCP has.
Notifications == {"notifications/initialized", "notifications/cancelled", "notifications/progress"}

SAFE_TOOLS == {"list_projects", "get_project", "list_screens", "get_screen", "list_design_systems"}

\* Tools that create and do not overwrite.
AdditiveTools == {"generate_screen_from_text", "generate_variants", "create_project", "create_screen"}

\* Overrides first, then the tables: a tool of the mutating table is as unsafe as an unknown one.
\* The router passes no upstream hints.
ClassifyToolCall(tool) ==
  [method |-> "tools/call", tool |-> tool,
   safe |-> /\ tool # None /\ tool \notin UnsafeToolsCsv
            /\ tool \in SafeToolsCsv \cup SAFE_TOOLS]

ClassifyMessage(message) ==
  IF message.method = "tools/call" THEN ClassifyToolCall(message.tool)
  ELSE [method |-> message.method, tool |-> None,
        safe |-> message.method \in Notifications \cup SAFE_METHODS]

Unparseable == [method |-> None, tool |-> None, safe |-> FALSE]

\* A mistake: the first message stands for the batch.
ClassifyRequestByFirst(messages) ==
  IF messages = <<>> THEN Unparseable ELSE ClassifyMessage(Head(messages))

\* The first unsafe message decides, else the first.
ClassifyRequest(messages) ==
  LET verdicts == [i \in 1..Len(messages) |-> ClassifyMessage(messages[i])]
      unsafe == SelectInSeq(verdicts, LAMBDA v : ~v.safe)
  IN  IF messages = <<>> THEN Unparseable
      ELSE verdicts[IF unsafe = 0 THEN 1 ELSE unsafe]

Hints == {TRUE, FALSE, None}

\* What a tool of the upstream is annotated with; upstream's own readOnlyHint is left alone.
\* What the proxy adds goes over an upstream destructiveHint.
AnnotateTool(tool, existing) ==
  IF existing.readOnlyHint # None THEN existing
  ELSE LET safe == ClassifyToolCall(tool).safe
       IN  [readOnlyHint |-> safe,
            destructiveHint |-> ~safe /\ tool \notin AdditiveTools,
            idempotentHint |-> safe,
            openWorldHint |-> ~safe]

-----------------------------------------------------------------------------

\* The reference: what the overrides and the tables together say of one message.
ReadsOnly(message) ==
  \/ message.method \in Notifications \cup SAFE_METHODS
  \/ /\ message.method = "tools/call"
     /\ message.tool \in (SAFE_TOOLS \cup SafeToolsCsv) \ UnsafeToolsCsv
=============================================================================
