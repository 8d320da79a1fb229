-------------------------- MODULE OriginPolicyProofs --------------------------
(* The policy of OriginPolicy judges URLs by their origin.                 *)
EXTENDS OriginPolicy, TLAPS

(* A URL that a session can be asked for.                                  *)
Url(u) == u.port \in Nat \union {None, BadPort}

(* Two URLs with an origin have the same canonical one just when they are  *)
(* of the same origin: a default port, said or left out, makes no          *)
(* difference, and no two ports or schemes are taken for one another.      *)
THEOREM CanonicalIsExact ==
    ASSUME NEW u, NEW v, Url(u), Url(v), None \notin Nat, BadPort # None,
           ~Opaque(u), u.port # BadPort, ~Opaque(v), v.port # BadPort
    PROVE  Origin(u) = Origin(v) <=> SameOrigin(u, v)
<1>1. Origin(u) = <<u.scheme, u.host,
                    IF u.port = DefaultPort(u.scheme) THEN None ELSE u.port>>
  BY DEF Origin
<1>2. Origin(v) = <<v.scheme, v.host,
                    IF v.port = DefaultPort(v.scheme) THEN None ELSE v.port>>
  BY DEF Origin
<1>3. DefaultPort(u.scheme) \in Nat /\ DefaultPort(v.scheme) \in Nat
  BY DEF DefaultPort
<1>4. CASE u.scheme = v.scheme
  <2>1. DefaultPort(u.scheme) = DefaultPort(v.scheme)
    BY <1>4
  <2>2. (IF u.port = DefaultPort(u.scheme) THEN None ELSE u.port)
          = (IF v.port = DefaultPort(v.scheme) THEN None ELSE v.port)
        <=> EffectivePort(u) = EffectivePort(v)
    BY <1>3, <2>1 DEF EffectivePort
  <2> QED
    BY <1>1, <1>2, <1>4, <2>2 DEF SameOrigin
<1>5. CASE u.scheme # v.scheme
  BY <1>1, <1>2, <1>5 DEF SameOrigin
<1> QED
  BY <1>4, <1>5

(* A session whose configuration was accepted lets a URL pass just when it *)
(* is of the origin of an allowed one; whatever has no web origin is       *)
(* refused, with the error that BrowserSession counts on.                  *)
THEOREM AllowsItsOrigins ==
    ASSUME NEW config, Accepted(config), NEW u, Url(u),
           \A v \in config.allowed_origins : Url(v),
           None \notin Nat, BadPort # None
    PROVE  Verdict(config, u) = "ok" <=>
             /\ ~Opaque(u) /\ u.port # BadPort
             /\ \E v \in config.allowed_origins : SameOrigin(v, u)
<1>1. CASE Opaque(u) \/ u.port = BadPort
  BY <1>1 DEF Verdict
<1>2. CASE ~Opaque(u) /\ u.port # BadPort
  <2>1. \A v \in config.allowed_origins : Origin(v) = Origin(u) <=> SameOrigin(v, u)
    BY <1>2, CanonicalIsExact DEF Accepted, Configurable
  <2>2. Verdict(config, u) = "ok" <=> Origin(u) \in CanonicalOrigins(config)
    BY <1>2 DEF Verdict
  <2> QED
    BY <1>2, <2>1, <2>2 DEF CanonicalOrigins
<1> QED
  BY <1>1, <1>2
=============================================================================
