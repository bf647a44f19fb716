-------------------------------- MODULE Accounts --------------------------------
(***************************************************************************)
(* Accounts: registration and login (services/auth.py), and the promotions *)
(* of the command line (services/users.py, app/cli.py), which run in a     *)
(* process of their own beside the API.                                    *)
(*                                                                         *)
(*   register   hash the password, INSERT, COMMIT                          *)
(*   login      SELECT, verify the password in a thread                    *)
(*   promote    SELECT, UPDATE of one column, COMMIT                       *)
(*                                                                         *)
(* An INSERT waits for an uncommitted row with the same email, as          *)
(* PostgreSQL's unique index makes it; an UPDATE waits for an uncommitted  *)
(* one of the same row.  Any step may fail, and the answer to a commit may *)
(* be lost.  Emails stand for the normalized ones.                         *)
(***************************************************************************)
EXTENDS Integers, FiniteSets

CONSTANTS Emails, Passwords,
          Ids,       \* the pool uuid4() draws account ids from
          Requests,  \* slots for requests and commands
          NULL

Permissions == {"organizer", "manager"}

VARIABLES
  account,   \* the committed rows of users, by id
  pc, req,
  staged,    \* the id of the row a transaction has written and not committed
  row,       \* the row written, or the one that was selected
  known,     \* history: the registrations and promotions acknowledged
  owed       \* history: a login whose registration was acknowledged before it began

vars == <<account, pc, req, staged, row, known, owed>>

Account == [email : Emails, password : Passwords, granted : SUBSET Permissions]
Register == [op : {"register"}, email : Emails, password : Passwords]
Login == [op : {"login"}, email : Emails, password : Passwords]
Promote == [op : {"promote"}, email : Emails, permission : Permissions]

ASSUME NullAssumption == /\ NULL \notin Ids /\ NULL \notin Account
                         /\ NULL \notin Register /\ NULL \notin Login /\ NULL \notin Promote

Resting == {"idle", "ok", "refused", "failed"}
Busy == {"start", "verify", "update", "commit"}

Init == /\ account = [i \in Ids |-> NULL]
        /\ pc = [p \in Requests |-> "idle"]
        /\ req = [p \in Requests |-> NULL]
        /\ staged = [p \in Requests |-> NULL]
        /\ row = [p \in Requests |-> NULL]
        /\ known = {}
        /\ owed = [p \in Requests |-> FALSE]

--------------------------------------------------------------------------------
Answer(p, outcome) == /\ pc' = [pc EXCEPT ![p] = outcome]
                      /\ req' = [req EXCEPT ![p] = NULL]
                      /\ staged' = [staged EXCEPT ![p] = NULL]
                      /\ row' = [row EXCEPT ![p] = NULL]
                      /\ owed' = [owed EXCEPT ![p] = FALSE]
                      /\ known' = IF outcome = "ok" /\ req[p].op # "login"
                                   THEN known \union {req[p]} ELSE known

\* The session closes and PostgreSQL undoes what was not committed.
Refuse(p) == Answer(p, "refused") /\ UNCHANGED account

Fail(p) == pc[p] \in Busy /\ Answer(p, "failed") /\ UNCHANGED account

Start(p) == /\ pc[p] \in Resting
            /\ \E q \in Register \union Login \union Promote :
                  /\ req' = [req EXCEPT ![p] = q]
                  /\ owed' = [owed EXCEPT ![p] = q.op = "login" /\ [q EXCEPT !.op = "register"] \in known]
            /\ pc' = [pc EXCEPT ![p] = "start"]
            /\ UNCHANGED <<account, staged, row, known>>

Holders(email) == {i \in Ids : account[i] # NULL /\ account[i].email = email}

Stage(p, i, written) == /\ staged' = [staged EXCEPT ![p] = i]
                        /\ row' = [row EXCEPT ![p] = written]
                        /\ pc' = [pc EXCEPT ![p] = "commit"]
                        /\ UNCHANGED <<account, req, known, owed>>

\* The rows of others that are written and not committed.
Uncommitted(p) == {o \in Requests \ {p} : staged[o] # NULL}

NewRow(p) == [email |-> req[p].email, password |-> req[p].password, granted |-> {}]

Draw(p) == {i \in Ids : account[i] = NULL /\ \A o \in Requests : staged[o] # i}

\* Mutant: a lookup in place of the index.
InsertAfterLookup(p) ==
  /\ pc[p] = "start" /\ req[p].op = "register"
  /\ IF Holders(req[p].email) # {} THEN Refuse(p)
     ELSE \E i \in Draw(p) : Stage(p, i, NewRow(p))

\* Mutant: the conflict counts as success.
InsertOrIgnore(p) ==
  /\ pc[p] = "start" /\ req[p].op = "register"
  /\ \A o \in Uncommitted(p) : row[o].email # req[p].email
  /\ IF Holders(req[p].email) # {} THEN Answer(p, "ok") /\ UNCHANGED account
     ELSE \E i \in Draw(p) : Stage(p, i, NewRow(p))

\* Hashing comes first; uq_users_email decides, after any wait.
Insert(p) ==
  /\ pc[p] = "start" /\ req[p].op = "register"
  /\ \A o \in Uncommitted(p) : row[o].email # req[p].email
  /\ IF Holders(req[p].email) # {} THEN Refuse(p)
     ELSE \E i \in Draw(p) : Stage(p, i, NewRow(p))

Select(p) == /\ pc[p] = "start" /\ req[p].op \in {"login", "promote"}
             /\ row' = [row EXCEPT ![p] = IF Holders(req[p].email) = {} THEN NULL
                                          ELSE account[CHOOSE i \in Holders(req[p].email) : TRUE]]
             /\ pc' = [pc EXCEPT ![p] = IF req[p].op = "login" THEN "verify" ELSE "update"]
             /\ UNCHANGED <<account, req, staged, known, owed>>

\* Without an account a dummy hash is verified, and the answer is the same.
Verify(p) == /\ pc[p] = "verify"
             /\ IF row[p] # NULL /\ row[p].password = req[p].password
                THEN Answer(p, "ok") /\ UNCHANGED account
                ELSE Refuse(p)

\* Mutant: both columns are written, as they were read.
UpdateRow(p) ==
  /\ pc[p] = "update"
  /\ IF row[p] = NULL THEN Refuse(p)
     ELSE \E i \in Holders(req[p].email) :
            /\ \A o \in Uncommitted(p) : staged[o] # i
            /\ Stage(p, i, [row[p] EXCEPT !.granted = @ \union {req[p].permission}])

\* Only a changed column is in the UPDATE, which sees the row as committed; there
\* is no UPDATE when the permission was there.
Update(p) ==
  /\ pc[p] = "update"
  /\ \/ row[p] = NULL /\ Refuse(p)
     \/ /\ row[p] # NULL /\ req[p].permission \in row[p].granted
        /\ Answer(p, "ok")
        /\ UNCHANGED account
     \/ /\ row[p] # NULL /\ req[p].permission \notin row[p].granted
        /\ \E i \in Holders(req[p].email) :
              /\ \A o \in Uncommitted(p) : staged[o] # i
              /\ Stage(p, i, [account[i] EXCEPT !.granted = @ \union {req[p].permission}])

Commit(p) == /\ pc[p] = "commit"
             /\ account' = [account EXCEPT ![staged[p]] = row[p]]
             /\ \E outcome \in {"ok", "failed"} : Answer(p, outcome)

Next == \E p \in Requests : \/ Start(p) \/ Insert(p) \/ Select(p) \/ Verify(p)
                            \/ Update(p) \/ Commit(p) \/ Fail(p)

Spec == Init /\ [][Next]_vars

--------------------------------------------------------------------------------
\* Types; a request that has been answered leaves nothing in a session.
TypeOK == /\ account \in [Ids -> Account \union {NULL}]
          /\ pc \in [Requests -> Busy \union Resting]
          /\ req \in [Requests -> Register \union Login \union Promote \union {NULL}]
          /\ staged \in [Requests -> Ids \union {NULL}]
          /\ row \in [Requests -> Account \union {NULL}]
          /\ known \subseteq Register \union Promote
          /\ owed \in [Requests -> BOOLEAN]
          /\ \A p \in Requests : pc[p] \in Resting => <<req[p], staged[p], row[p]>> = <<NULL, NULL, NULL>>

\* However many registrations of an email race, one account comes of them.
OneAccountPerEmail == \A e \in Emails : Cardinality(Holders(e)) <= 1

\* What was acknowledged stays: a registration has its account, with the
\* password given, and a permission reported as enabled is never lost again, the
\* other command running at the same time included.
AcknowledgedStays == TypeOK /\ \A q \in known : \E i \in Holders(q.email) :
   IF q.op = "promote" THEN q.permission \in account[i].granted
                       ELSE account[i].password = q.password

\* Seen from outside, registrations and promotions take effect at once or not at
\* all, an email has one account, and nothing of an account is ever lost,
\* acknowledged or not.
Ledger == INSTANCE AccountLedger

ImplementsAccountLedger == Ledger!AccountsSpec

\* A login is refused only if no registration with its credentials had been
\* acknowledged when it began.
RegisteredCanLogIn == [][\A p \in Requests :
   pc[p] = "verify" /\ pc'[p] = "refused" => ~owed[p]]_vars
================================================================================
