----------------------------- MODULE MCAdmission -----------------------------
(* The workloads: one request of every kind for the gates, one call of     *)
(* every kind for the body and the credentials, and three plain calls of   *)
(* one client at a time for the limit and the shared gcloud run.           *)
EXTENDS Admission
CONSTANTS s1, s2, s3

V4(a, b) == [form |-> "v4", a |-> a, b |-> b]
Mapped(a, b) == [form |-> "mapped", a |-> a, b |-> b]
V6(range) == [form |-> "v6", range |-> range]
Name(suffix) == [form |-> "name", suffix |-> suffix]

Lan == V4(192, 168)
Wan == V4(172, 32)
MCIps == {Lan, Wan}

Body(kind, messages) == [kind |-> kind, messages |-> messages]
Single(message) == Body("single", <<message>>)
Batch(messages) == Body("batch", messages)
Message(method, tool, id) == [method |-> method, tool |-> tool, id |-> id, project |-> None]
ReadCall == Message("tools/call", "list_screens", "i1")
WriteCall == Message("tools/call", "generate_variants", "i2")
Progress == Message("notifications/progress", None, None)

Plain == [peer |-> Lan, forwardedFor |-> None, origin |-> None, host |-> Lan, method |-> "POST",
          path |-> "/mcp", body |-> Single(ReadCall), fits |-> TRUE, keys |-> {}]

Hosts == {None, Malformed, Wan, Mapped(10, 0), V6("link-local"),
          Name("single"), Name("public"), Name("listed")}
Origins == {None, Malformed, V4(172, 31), V4(172, 15), Name("listed")}
Listed == {Name("listed")}

\* A client of the local network, and one of the internet that claims to be one.
Peers == {<<Lan, None>>, <<Wan, Lan>>}

GateRequests ==
  {[Plain EXCEPT !.host = h, !.origin = o, !.method = m] :
     h \in Hosts \cup {Lan}, o \in Origins \cup {None}, m \in {"POST", "OPTIONS"}}
  \cup {[Plain EXCEPT !.host = h, !.method = m, !.path = p, !.peer = i[1], !.forwardedFor = i[2]] :
          h \in {Lan, Wan, Malformed}, m \in {"POST", "GET", "OPTIONS"},
          p \in {"/mcp", "/metrics", "/logs", "/auth", Malformed}, i \in Peers}

Bodies ==
  {Body("empty", <<>>), Body("garbage", <<>>), Batch(<<Progress, ReadCall>>), Batch(<<ReadCall, WriteCall>>)}
  \cup {Single(m) : m \in {WriteCall, Progress, Message("tools/call", None, "i1"),
          Message("tools/call", "odd_tool", "i1"), Message("tools/call", "our_tool", "i1"),
          Message("tools/call", "get_screen", "i1"), Message("tools/list", None, "i1"),
          Message("prompts/list", None, "i1"), Message("prompts/list", None, None)}}

CallRequests ==
  {[Plain EXCEPT !.body = b, !.keys = k, !.fits = f] :
     b \in Bodies, k \in {{}, {"x"}}, f \in BOOLEAN}
  \cup {[Plain EXCEPT !.keys = k] : k \in SUBSET {"stitch", "x", "basic"}}

NoKey == [envKey |-> FALSE, gcloudFallback |-> FALSE]
EnvKey == [envKey |-> TRUE, gcloudFallback |-> TRUE]
OnlyGcloud == [envKey |-> FALSE, gcloudFallback |-> TRUE]

Alone(r) == (s1 :> r) @@ (s2 :> None) @@ (s3 :> None)

Races == {[s \in Slots |-> Plain],
          (s1 :> Plain) @@ (s2 :> [Plain EXCEPT !.fits = FALSE]) @@ (s3 :> None)}

MCWorkloads ==
  {[calls |-> Alone(r), settings |-> NoKey] : r \in GateRequests}
  \cup {[calls |-> Alone(r), settings |-> e] : r \in CallRequests, e \in {NoKey, EnvKey}}
  \cup {[calls |-> c, settings |-> OnlyGcloud] : c \in Races \cup {Alone(Plain)}}
MCOverridesSafe == {"our_tool", "get_screen"}
MCOverridesUnsafe == {"get_screen"}
Fallbacks == {"prompts/list"}
=============================================================================
