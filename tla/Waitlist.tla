------------------------------ MODULE Waitlist ------------------------------
(***************************************************************************)
(* The waitlist: validation of a submission and the INSERT.                *)
(*                                                                         *)
(* A submission is [body, email, company, interestedIn].  A text keeps its *)
(* trimmed value ("" if blank), its length and whether a control character *)
(* is in it; an e-mail address also what lower() makes of it and whether   *)
(* it has one @ with a local part and a dotted domain.  Ids and times of   *)
(* rows are left out: nothing reads them.                                  *)
(***************************************************************************)
EXTENDS Integers

CONSTANTS
    MaxEmailLen,  \* maxEmailLen, 320
    MaxFieldLen   \* maxFieldLen, 200

Field == [text : STRING, len : Nat, control : BOOLEAN]

Submission ==
    [body : BOOLEAN,
     email : [text : STRING, lower : STRING, len : Nat, control : BOOLEAN, containsAt : BOOLEAN],
     company : Field, interestedIn : Field]

(* A mutant: any text within the length will do. *)
EmailErrorLenient(email) ==
    IF email.text = "" \/ email.len > MaxEmailLen THEN "invalid email"
    ELSE IF email.control THEN "invalid input" ELSE ""

(* The errors of NewWaitlistEntry, in the order they are looked for. *)
EmailError(email) ==
    CASE email.text = "" \/ email.len > MaxEmailLen -> "invalid email"
      [] email.control -> "invalid input"
      [] ~email.containsAt -> "invalid email"
      [] OTHER -> ""

(* A blank optional field is absent. *)
FieldError(field) ==
    IF field.text # "" /\ (field.control \/ field.len > MaxFieldLen)
    THEN "invalid input" ELSE ""

(* What is answered 400 before the database is asked. *)
CaptureError(s) ==
    CASE ~s.body -> "invalid body"
      [] s.body /\ EmailError(s.email) # "" -> EmailError(s.email)
      [] OTHER -> IF FieldError(s.company) # "" THEN FieldError(s.company)
                                                ELSE FieldError(s.interestedIn)

NewWaitlistEntry(s) ==
    [email |-> s.email.text, lower |-> s.email.lower,
     company |-> s.company.text, interestedIn |-> s.interestedIn.text]

(* A mutant: the unique index is on email, not on lower(email). *)
AddSpelling(rows, entry) ==
    IF \E row \in rows : row.email = entry.email THEN rows ELSE rows \cup {entry}

(* INSERT ... ON CONFLICT (lower(email)) DO NOTHING *)
AddToWaitlist(rows, entry) ==
    IF \E row \in rows : row.lower = entry.lower THEN rows ELSE rows \cup {entry}
=============================================================================
