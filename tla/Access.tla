------------------------------- MODULE Access -------------------------------
(***************************************************************************)
(* What a request passes before a handler sees it: the CORS filter, the    *)
(* route of the generated handler, the interceptors; and the header a      *)
(* handler's own calls to other services carry.  No state is kept between  *)
(* requests, so these are operators.                                       *)
(*                                                                         *)
(* A request has a verb, a service and a procedure of it, an authorization *)
(* header of a scheme and a token, and an idempotency key.  A token is the *)
(* user it names, or garbled.  Signatures are not verified here            *)
(* (verify = false).                                                       *)
(***************************************************************************)
CONSTANTS
  User,     \* users that tokens name
  Key       \* idempotency keys

NoKey == "no key"
Garbled == "garbled"
Scheme == {"none", "Bearer", "bearer", "Basic"}
Authorization == [scheme : Scheme, token : User \cup {Garbled}]

\* The token an authorization header carries, if it is well-formed: the word
\* Bearer in any case, then a token that can be parsed.
Bears_CaseSensitive(h) == h.scheme = "Bearer" /\ h.token \in User
Bears(h) == h.scheme \in {"Bearer", "bearer"} /\ h.token \in User

\* AuthInterceptor and IdempotencyInterceptor: the context of the handler.
Context(request) == [user |-> request.authorization.token, key |-> request.key]

\* AuthClientInterceptor: the header of a call made within a context.
Forwarded(ctx) == [scheme |-> "bearer", token |-> ctx.user]

\* The procedures each service's generated handler routes.
AuthProcedures == {"Login", "Register"}
OrderProcedures == {"CreateOrder", "CancelOrder", "ListOrders", "GetOrder"}
PaymentProcedures == {"CreatePayment"}
ProductProcedures == {"SearchProducts", "ListSellerProducts", "BatchCreateProduct",
                      "BatchUpdateProduct", "BatchGetSkus"}

Procedures == [auth |-> AuthProcedures, order |-> OrderProcedures,
               payment |-> PaymentProcedures, product |-> ProductProcedures]

\* The services whose handlers have the AuthInterceptor: all but auth itself.
Guarded == {"order", "payment", "product"}

\* What a request is answered before any handler runs, or "handled".
CORSFilter(request) ==
  IF request.verb = "OPTIONS" THEN "no content"
  ELSE IF request.procedure \notin Procedures[request.service] THEN "not found"
  ELSE IF request.service \in Guarded /\ ~Bears(request.authorization) THEN "unauthenticated"
  ELSE "handled"

\* What a handler's own call within ctx is answered: NewServiceClient.
Called(service, procedure, ctx) ==
  CORSFilter([verb |-> "POST", service |-> service, procedure |-> procedure,
              authorization |-> Forwarded(ctx)])

\* A visitor without a token is let through.
Anonymous(service, procedure) ==
  CORSFilter([verb |-> "POST", service |-> service, procedure |-> procedure,
              authorization |-> [scheme |-> "none", token |-> Garbled]]) = "handled"
=============================================================================
