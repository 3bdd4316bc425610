-------------------------- MODULE AccountTransport --------------------------
(***************************************************************************)
(* What HTTP and gRPC make of a call: which requests they refuse before    *)
(* the use case, which outcomes it may have, and what the caller is told.  *)
(*                                                                         *)
(* A request is its operation and what is wrong with it.  An error is its  *)
(* code in the catalog; messages and metadata are left out.                *)
(***************************************************************************)
EXTENDS Integers

Ops == {"create", "get", "list", "update", "delete"}

\* body: not JSON of the type; email, password, id: breaks a rule the transports
\* check (no address, shorter than 8, empty); status: not a status; range: a limit or an
\* offset the gRPC message does not allow.
Flaws == {"none", "body", "email", "password", "id", "status", "range"}

\* Flaws a request can have.  An HTTP path without id is no route; a gRPC message
\* is decoded before any of this code runs, and a gRPC create has no status.
HttpFlaws ==
  [create |-> {"none", "body", "email", "password", "status"},
   get    |-> {"none"},
   list   |-> {"none", "status"},
   update |-> {"none", "body", "status"},
   delete |-> {"none"}]

GrpcFlaws ==
  [create |-> {"none", "email", "password"},
   get    |-> {"none", "id"},
   list   |-> {"none", "range"},
   update |-> {"none", "id", "status"},
   delete |-> {"none", "id"}]

HttpRequest == {r \in [op : Ops, flaw : Flaws] : r.flaw \in HttpFlaws[r.op]}
GrpcRequest == {r \in [op : Ops, flaw : Flaws] : r.flaw \in GrpcFlaws[r.op]}

\* Binding, and the status of List that is no number.
HttpRefuses(r) ==
  r.flaw \in {"body", "email", "password"} \/ (r.op = "list" /\ r.flaw = "status")

\* The validation interceptor.
GrpcRefuses(r) == r.flaw \in {"email", "password", "id", "range"}
-----------------------------------------------------------------------------
(* The use case. *)

\* "plain" is an error that is no AppError: a cache or transaction error.
Errors ==
  [create |-> {"too_many_requests", "invalid_email", "weak_password",
               "account_already_exists", "internal", "plain"},
   get    |-> {"account_not_found", "internal", "plain"},
   list   |-> {"internal"},
   update |-> {"account_not_found", "internal", "plain"},
   delete |-> {"account_not_found", "internal", "plain"}]

\* Create turns an invalid status into "active", Update refuses it.
Outcomes(r) ==
  IF r.op = "update" /\ r.flaw = "status" THEN {"invalid_status"}
                                          ELSE {"ok"} \cup Errors[r.op]
-----------------------------------------------------------------------------
(* What the caller is told. *)

\* The catalog.
HttpStatus ==
  [invalid_request |-> 400, invalid_email |-> 400, invalid_status |-> 400,
   weak_password |-> 400, too_many_requests |-> 429, account_not_found |-> 404,
   account_already_exists |-> 409, internal |-> 500]

\* The gRPC codes it uses, by number.
OK == 0
InvalidArgument == 3
NotFound == 5
AlreadyExists == 6
ResourceExhausted == 8
Internal == 13

\* Mutant: the account errors have each other's gRPC code.
GrpcCodeSwapped ==
  [invalid_request |-> InvalidArgument, invalid_email |-> InvalidArgument,
   invalid_status |-> InvalidArgument, weak_password |-> InvalidArgument,
   too_many_requests |-> ResourceExhausted, account_not_found |-> AlreadyExists,
   account_already_exists |-> NotFound, internal |-> Internal]

GrpcCode ==
  [invalid_request |-> InvalidArgument, invalid_email |-> InvalidArgument,
   invalid_status |-> InvalidArgument, weak_password |-> InvalidArgument,
   too_many_requests |-> ResourceExhausted, account_not_found |-> NotFound,
   account_already_exists |-> AlreadyExists, internal |-> Internal]

\* apperr.FromError: what is no AppError is internal.
FromError(e) == IF e \in DOMAIN HttpStatus THEN e ELSE "internal"

\* httpx.NewError; nil counts as internal.
NewError(e) == HttpStatus[FromError(e)]

Success ==
  [create |-> 201, get |-> 200, list |-> 200, update |-> 200, delete |-> 204]

\* Mutant: the error middleware is not installed.
HttpNotRendered(op, o) == IF o = "panic" THEN 500 ELSE 200

\* ErrorMiddleware renders the error the handler left; Recovery, outside of it,
\* renders a panic like an internal error.
HttpTold(op, o) ==
  IF o = "ok" THEN Success[op]
              ELSE NewError(IF o = "refused" THEN "invalid_request" ELSE o)

Nothing == -1

\* The error interceptor passes the status of the validation interceptor on.
GrpcTold(o) ==
  CASE o = "ok" -> OK
    [] o = "refused" -> InvalidArgument
    [] OTHER -> GrpcCode[FromError(o)]
=============================================================================
