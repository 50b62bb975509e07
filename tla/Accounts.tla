------------------------------ MODULE Accounts ------------------------------
(***************************************************************************)
(* Registration and sign-in: the browser's stored token, the gateway's     *)
(* auth routes and auth-service over its users table.                      *)
(*                                                                         *)
(* A form is one POST /api/auth/register.  The gateway waits 5 s for it;   *)
(* auth-service goes on, so the answer reaches the browser or does not.    *)
(* An error of auth-service, whatever its status, is a 500 of the gateway  *)
(* (AuthClient does not translate it) and changes nothing in the browser.  *)
(* A request over the limit of its address (429) changes nothing either    *)
(* and is left out.  A password is the person who knows it: hashing and    *)
(* verifying it tell two people apart.                                     *)
(***************************************************************************)
CONSTANTS
    Person,         \* people, each with a password and a browser
    Email,          \* addresses; also the ids of the users registered
    Form,           \* registrations ever sent (a bound)
    Nobody,         \* account of an address nobody registered
    NoEmail         \* token of a browser that has none

ASSUME AccountsAssumption == Nobody \notin Person /\ NoEmail \notin Email

VARIABLES
    account,        \* users table: whose password the address was given
    form,           \* progress of each registration
    token           \* address of the user the browser's token names

accountVars == <<account, form, token>>

Unsent == [step |-> "unsent", person |-> Nobody, email |-> NoEmail]

Registration ==
    [step : {"lookup", "insert", "done"}, person : Person, email : Email] \cup {Unsent}

AccountsTypeOK ==
    /\ account \in [Email -> Person \cup {Nobody}]
    /\ form \in [Form -> Registration]
    /\ token \in [Person -> Email \cup {NoEmail}]

AccountsInit ==
    /\ account = [e \in Email |-> Nobody]
    /\ form = [f \in Form |-> Unsent]
    /\ token = [p \in Person |-> NoEmail]

(* Nothing keeps a person from sending the form twice, nor two people from *)
(* sending the same address.                                               *)
SendForm(f, p, e) ==
    /\ form[f] = Unsent
    /\ form' = [form EXCEPT ![f] = [step |-> "lookup", person |-> p, email |-> e]]
    /\ UNCHANGED <<account, token>>

(* findUnique, then the password is hashed: the answer is old when the row *)
(* is inserted.                                                            *)
LookUpAddress(f) ==
    /\ form[f].step = "lookup"
    /\ form' = [form EXCEPT ![f].step =
                    IF account[form[f].email] = Nobody THEN "insert" ELSE "done"]
    /\ UNCHANGED <<account, token>>

Finish(f) == form' = [form EXCEPT ![f].step = "done"]

(* The answer with the token reaches the browser, or nobody waits for it.  *)
AnswerWithToken(p, e) == token' = token \/ token' = [token EXCEPT ![p] = e]

(* Mutant: the address is not unique, or the row is upserted.              *)
InsertUnchecked(f) ==
    LET p == form[f].person
        e == form[f].email IN
    /\ form[f].step = "insert"
    /\ account' = [account EXCEPT ![e] = p]
    /\ AnswerWithToken(p, e)
    /\ Finish(f)

(* users.email is unique: when a concurrent form was faster the insert     *)
(* fails (P2002) and no token is issued.                                   *)
InsertUser(f) ==
    LET p == form[f].person
        e == form[f].email IN
    /\ form[f].step = "insert"
    /\ IF account[e] = Nobody
       THEN account' = [account EXCEPT ![e] = p] /\ AnswerWithToken(p, e)
       ELSE UNCHANGED <<account, token>>
    /\ Finish(f)

(* login: the row is found and the password verified, or no token is given.*)
SignIn(p, e) ==
    /\ account[e] = p
    /\ token' = [token EXCEPT ![p] = e]
    /\ UNCHANGED <<account, form>>

(* The token expires and the interceptor removes it at the next 401, or    *)
(* the person signs out.                                                   *)
SessionEnds(p) ==
    /\ token[p] # NoEmail
    /\ token' = [token EXCEPT ![p] = NoEmail]
    /\ UNCHANGED <<account, form>>

AccountsNext ==
    \/ \E f \in Form, p \in Person, e \in Email : SendForm(f, p, e)
    \/ \E f \in Form : LookUpAddress(f) \/ InsertUser(f)
    \/ \E p \in Person, e \in Email : SignIn(p, e)
    \/ \E p \in Person : SessionEnds(p)

-----------------------------------------------------------------------------
(* Whoever was ever given a token for an address can sign in to it: two    *)
(* registrations of one address cannot both succeed, nor the later one     *)
(* replace the password of the earlier (AuthService.register, whose check  *)
(* and insert are separate statements).                                    *)
TokensOpenTheirAccount ==
    \A p \in Person : token[p] # NoEmail => account[token[p]] = p
=============================================================================
