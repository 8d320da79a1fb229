----------------------------- MODULE OriginPolicy -----------------------------
(***************************************************************************)
(* The origin policy of a session and what its configuration may be. A URL *)
(* is the record urlsplit makes of it, scheme and host in lower case: its  *)
(* scheme, host, port, whether it has a user or a password, and whether it *)
(* has a path but "/", a query or a fragment. A canonical origin is the    *)
(* triple the code puts together to a string; the brackets around a host   *)
(* with a colon keep its parts apart.                                      *)
(***************************************************************************)
EXTENDS Naturals

CONSTANTS
    None,       \* no host, no port
    BadPort     \* a port that is no number, or too great: parts.port raises

WebSchemes == {"http", "https"}

DefaultPort(scheme) == IF scheme = "http" THEN 80 ELSE 443

Opaque(url) == url.scheme \notin WebSchemes \/ url.host = None

(* _origin: the canonical origin of a URL that is not opaque, if its port  *)
(* is good.                                                                *)
Origin(url) ==
    <<url.scheme, url.host, IF url.port = DefaultPort(url.scheme) THEN None ELSE url.port>>

(* _configured_origin does not raise.                                      *)
Configurable(url) ==
    /\ ~url.credentials /\ ~url.resource
    /\ ~Opaque(url) /\ url.port # BadPort

(* BrowserSessionConfig.__post_init__ does not raise.                      *)
Accepted(config) ==
    /\ config.allowed_origins # {}
    /\ config.navigation_timeout_ms > 0 /\ config.action_timeout_ms > 0
    /\ config.wall_clock_timeout_s > 0 /\ config.max_actions > 0
    /\ config.diagnostic_capacity \in 1..200
    /\ config.max_artifacts > 0 /\ config.max_screenshot_bytes > 0
    /\ \A url \in config.allowed_origins : Configurable(url)

CanonicalOrigins(config) == {Origin(url) : url \in config.allowed_origins}

(* _ensure_allowed: "ok", or what is raised.                               *)
Verdict(config, url) ==
    IF Opaque(url) THEN "EXTERNAL_PROTOCOL_BLOCKED"
    ELSE IF url.port = BadPort THEN "untyped"
    ELSE IF Origin(url) \in CanonicalOrigins(config) THEN "ok"
    ELSE "ORIGIN_NOT_ALLOWED"

-----------------------------------------------------------------------------
(* The origin of a URL as the web has it: scheme, host, and the port that  *)
(* it is reached at.                                                       *)
EffectivePort(url) == IF url.port = None THEN DefaultPort(url.scheme) ELSE url.port

SameOrigin(u, v) ==
    u.scheme = v.scheme /\ u.host = v.host /\ EffectivePort(u) = EffectivePort(v)
=============================================================================
