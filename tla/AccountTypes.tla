---------------------------- MODULE AccountTypes ----------------------------
(***************************************************************************)
(* The account entity, the requests the use case accepts and the codes it  *)
(* answers with (internal/domain, internal/infra/apperr/catalog.go).       *)
(*                                                                         *)
(* Data is abstracted to what the properties tell apart: first and last    *)
(* name follow the same "nil keeps the column" rule and are one field;     *)
(* password hash and timestamps are left out.                              *)
(***************************************************************************)
EXTENDS Integers

CONSTANTS
  Clients,      \* concurrent API calls (one goroutine each)
  Ids,          \* account ids (uuid.NewString never repeats one)
  NoId,         \* the empty id
  Emails,       \* e-mail strings, compared byte by byte by PostgreSQL
  ValidEmails,  \* those that are not empty and contain "@"
  Lower,        \* strings.ToLower on Emails
  Names,        \* profile names
  Nil,          \* a nil pointer: field not given
  NoAccount,    \* no row / no cache entry
  NoCall,       \* no request in progress
  Requests      \* the requests the environment may send

\* AccountStatus is an int: 1..4 are the assignable statuses, 0 is "unknown"
\* and 5 stands for every other integer.
RawStatus == 0..5
Active == 1
ValidStatus == 1..4

Account == [email : Emails, name : Names, status : ValidStatus]

\* Password lengths: shorter than MinPasswordLength, acceptable, and longer
\* than the 72 bytes bcrypt can hash.
Passwords == {"weak", "ok", "long"}

CreateRequest == [op : {"create"}, email : Emails, password : Passwords,
                  name : Names, status : RawStatus]
GetRequest    == [op : {"get"}, id : Ids \cup {NoId}]
UpdateRequest == [op : {"update"}, id : Ids \cup {NoId},
                  name : Names \cup {Nil}, status : RawStatus \cup {Nil}]
DeleteRequest == [op : {"delete"}, id : Ids \cup {NoId}]
Request == CreateRequest \cup GetRequest \cup UpdateRequest \cup DeleteRequest

Codes == {"none", "ok", "invalid_request", "invalid_email", "invalid_status",
          "weak_password", "too_many_requests", "account_not_found",
          "account_already_exists", "internal"}

ASSUME TypesAssumption ==
  /\ ValidEmails \subseteq Emails
  /\ Lower \in [Emails -> Emails]
  /\ Requests \subseteq Request
  /\ NoId \notin Ids
  /\ Nil \notin Names \cup RawStatus
  /\ NoAccount \notin Account
  /\ NoCall \notin Request
-----------------------------------------------------------------------------
\* What Create stores: an invalid status silently becomes active.
NewAccount(r) ==
  [email |-> r.email, name |-> r.name,
   status |-> IF r.status \in ValidStatus THEN r.status ELSE Active]

\* What Update stores: only the non-nil fields change, the e-mail never does.
Patched(a, r) ==
  [a EXCEPT !.name = IF r.name = Nil THEN @ ELSE r.name,
            !.status = IF r.status = Nil THEN @ ELSE r.status]

\* Some row of the table carries e-mail e (byte-wise comparison).
EmailTaken(table, e) ==
  \E i \in Ids : table[i] # NoAccount /\ table[i].email = e
=============================================================================
