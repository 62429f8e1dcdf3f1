------------------------------ MODULE Policies ------------------------------
(***************************************************************************)
(* Whom the proxy talks to: the address, origin and host policies of       *)
(* src/src/http/security.js and the local-client test of index.js.         *)
(*                                                                         *)
(* An address or host name is a record: an IPv4 address by its first two   *)
(* octets (form "v4", or "mapped" into IPv6), an IPv6 address by its range,*)
(* a name by what it ends in.  A header that is no valid authority is      *)
(* Malformed, a missing one None.                                          *)
(***************************************************************************)
EXTENDS Integers

CONSTANTS None, Malformed,
          CorsOrigin,      \* CORS_ORIGIN, None if it is empty
          AnyOrigin,       \* CORS_ORIGIN is *
          AllowedOrigins, AllowedHosts, AllowAllHosts,
          TrustProxy

\* RFC 1918, loopback, link-local and CGNAT.
PrivateV4(a, b) ==
  \/ a \in {10, 127}
  \/ a = 169 /\ b = 254
  \/ a = 172 /\ b \in 16..31
  \/ a = 192 /\ b = 168
  \/ a = 100 /\ b \in 64..127

IsPrivateAddress(h) ==
  \/ h.form \in {"v4", "mapped"} /\ PrivateV4(h.a, h.b)
  \/ h.form = "v6" /\ h.range \in {"loopback", "unspecified", "unique-local", "link-local"}

IsLoopbackAddress(h) ==
  \/ h.form = "v4" /\ h.a = 127
  \/ h.form = "v6" /\ h.range = "loopback"
  \/ h.form = "name" /\ h.suffix = "localhost"

\* The suffixes "localhost" and ".localhost", and mDNS names.
LanName(h) == h.form = "name" /\ h.suffix \in {"localhost", "local"}

\* The URL parser writes a mapped address in hexadecimal, so its IPv4 part is not found.
OriginAllowedByDefault(origin) ==
  \/ origin = None
  \/ /\ origin # Malformed
     /\ LanName(origin) \/ (IsPrivateAddress(origin) /\ origin.form # "mapped")

EvaluateOrigin(origin) ==
  IF AnyOrigin THEN [allowed |-> TRUE, reflect |-> origin]
  ELSE IF CorsOrigin # None
       THEN [allowed |-> origin = CorsOrigin,
             reflect |-> IF origin = CorsOrigin THEN CorsOrigin ELSE None]
  ELSE LET allowed == origin \in AllowedOrigins \/ OriginAllowedByDefault(origin)
       IN  [allowed |-> allowed, reflect |-> IF allowed THEN origin ELSE None]

\* The origin a browser is told it may read the answer: None, one origin, or any.
CorsGrant(origin) ==
  IF AnyOrigin THEN "any"
  ELSE IF EvaluateOrigin(origin).reflect # None THEN "reflected" ELSE "none"

\* Syntax first: the URL parser rewrites a mapped address, and what it rewrites is refused.
MalformedHost(host) == host # None /\ (host = Malformed \/ host.form = "mapped")

\* Policy second: names and addresses of the local network, and names without a dot.
HostAllowed(host) ==
  \/ host = None \/ AllowAllHosts \/ host \in AllowedHosts
  \/ LanName(host) \/ IsPrivateAddress(host)
  \/ host.form = "name" /\ host.suffix = "single"

IsLocal(address) == address # Malformed /\ (IsLoopbackAddress(address) \/ IsPrivateAddress(address))

\* Behind a trusted proxy the forwarded address decides, else the address of the peer.
ClientAddress(request) ==
  IF TrustProxy /\ request.forwardedFor # None THEN request.forwardedFor ELSE request.peer

IsLocalClient(request) == IsLocal(ClientAddress(request))
=============================================================================
