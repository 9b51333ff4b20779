------------------------------- MODULE Access -------------------------------
(***************************************************************************)
(* NewRouter: the middleware in front of each route, in its order, and     *)
(* what each of them asks of a request.                                    *)
(*                                                                         *)
(* A request q has a route; what it carries of the gateway's signature     *)
(* (the secret it was made with, or Empty), the identity headers (user,    *)
(* tier), the nonce (id) and the service headers (service, token).  Time   *)
(* windows and bodies are GatewayNonce's, the limiters' counting is        *)
(* RateLimiter's: here a limiter lets a request through or not.            *)
(***************************************************************************)
EXTENDS Config

CONSTANTS
    NoUser,      \* the header is missing
    BadUser,     \* the header is no UUID
    NilUser,     \* the zero UUID
    NoTier,      \* no tier header, or no number
    NoService    \* the header is missing or blank

Routes == {"healthz", "readyz", "waitlist", "inbox", "comms"}

Limiters == {"ip", "waitlist", "user", "service"}

(* A mutant: the user limiter is mounted before the signature is verified. *)
ChainUserFirst(e, route) ==
    CASE route \in {"healthz", "readyz"} -> << >>
      [] route = "waitlist" -> <<"ip", "waitlist">>
      [] route = "inbox" -> <<"ip", "user", "signature", "identity", "tier">>
      [] route = "comms" -> IF e.commsEnabled THEN <<"ip", "serviceIdentity", "service">>
                                              ELSE <<"ip", "notFound">>

(* Probes are registered before the limiter; the comms routes only if the  *)
(* module is enabled.                                                      *)
Chain(e, route) ==
    CASE route \in {"healthz", "readyz"} -> << >>
      [] route = "waitlist" -> <<"ip", "waitlist">>
      [] route = "inbox" ->
            IF e.userPerMin > 0 THEN <<"ip", "signature", "identity", "user", "tier">>
                                ELSE <<"ip", "signature", "identity", "tier">>
      [] route = "comms" -> IF e.commsEnabled THEN <<"ip", "serviceIdentity", "service">>
                                              ELSE <<"ip", "notFound">>

(* VerifyGatewaySignature, up to the nonce: without a secret it verifies   *)
(* nothing.                                                                *)
VerifyGatewaySignature(e, q) ==
    IsEmpty(e.gatewaySecret) \/ q.signedWith = e.gatewaySecret

RequireValidIdentity(q) == q.user \notin {NoUser, BadUser}

(* RequireTier(0) of the tier RequireValidIdentity parsed: a missing or    *)
(* malformed one is 0.                                                     *)
RequireTier(q, minTier) == (IF q.tier = NoTier THEN 0 ELSE q.tier) >= minTier

(* A mutant: any configured token will do. *)
ServiceIdentityAnyToken(e, q) ==
    \E s \in DOMAIN S2STokenMap(e) : S2STokenMap(e)[s] = q.token

(* The token must be the caller's own. *)
RequireServiceIdentity(e, q) ==
    /\ q.service \in DOMAIN S2STokenMap(e)
    /\ S2STokenMap(e)[q.service].len > 0
    /\ q.token = S2STokenMap(e)[q.service]

(* Whether the middleware m lets q pass; "full" are the limiters whose     *)
(* budget for q is used up.  The user limiter does not count the zero UUID.*)
Admits(m, e, q, full) ==
    CASE m = "signature" -> VerifyGatewaySignature(e, q)
      [] m = "identity" -> RequireValidIdentity(q)
      [] m = "tier" -> RequireTier(q, 0)
      [] m = "serviceIdentity" -> RequireServiceIdentity(e, q)
      [] m = "notFound" -> FALSE
      [] m = "user" -> q.user = NilUser \/ "user" \notin full
      [] OTHER -> m \notin full

(* The middleware q gets to: all those before it let it pass. *)
Visited(e, q, full) ==
    LET chain == Chain(e, q.route)
    IN  {chain[i] : i \in {n \in DOMAIN chain :
                             \A j \in 1..(n - 1) : Admits(chain[j], e, q, full)}}

Admitted(e, q, full) ==
    LET chain == Chain(e, q.route)
    IN  \A i \in DOMAIN chain : Admits(chain[i], e, q, full)

(* The limiters that count q, let through or not. *)
CountedBy(e, q, full) ==
    (Visited(e, q, full) \cap Limiters) \ (IF q.user = NilUser THEN {"user"} ELSE {})
=============================================================================
