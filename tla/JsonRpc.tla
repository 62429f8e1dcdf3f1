------------------------------- MODULE JsonRpc -------------------------------
(***************************************************************************)
(* src/src/mcp/jsonrpc.js and sendJsonRpcError of src/src/http/respond.js. *)
(* A body is Empty, Garbage (no JSON), or has its messages: one, or those  *)
(* of a batch.  A message has an `id` (None: a notification), a `method`,  *)
(* and a `project` (None: none named).                                     *)
(***************************************************************************)
EXTENDS Subsequence

CONSTANT None

Empty == [kind |-> "empty", messages |-> <<>>]
Garbage == [kind |-> "garbage", messages |-> <<>>]

HasId(message) == message.id # None

\* The ids that error answers echo, in order; an empty sequence stands for null.
ExtractIds(body) ==
  LET withId == Only(body.messages, {m \in ToSet(body.messages) : HasId(m)})
  IN  [i \in 1..Len(withId) |-> withId[i].id]

\* The project of the first message that names one, for the logs.
ExtractProjectId(body) ==
  LET named == SelectInSeq(body.messages, LAMBDA m : m.project # None)
  IN  IF named = 0 THEN None ELSE body.messages[named].project

\* One error object for each id, or a single one with the id null.
ErrorIds(ids) == IF ids = <<>> THEN <<None>> ELSE ids

\* The methods that have an empty result to answer with.
EmptyFallbackResults == {"prompts/list", "resources/list", "resources/templates/list"}

\* buildLocalFallbackResponse: "forward", "notification" or "result".  Batches are forwarded.
LocalFallback(body, methods) ==
  IF body.kind # "single" \/ Head(body.messages).method \notin methods THEN "forward"
  ELSE IF Head(body.messages).id = None THEN "notification"
  ELSE IF Head(body.messages).method \in EmptyFallbackResults THEN "result"
  ELSE "forward"
=============================================================================
