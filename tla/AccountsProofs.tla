---------------------------- MODULE AccountsProofs ----------------------------
(***************************************************************************)
(* Proofs about Accounts, for every number of emails, passwords and        *)
(* requests: one account an email, nothing acknowledged is lost, and the   *)
(* interleaved transactions implement the atomic AccountLedger.            *)
(***************************************************************************)
EXTENDS Accounts, FiniteSetTheorems, TLAPS

--------------------------------------------------------------------------------
(* The invariant *)

Staging == {o \in Requests : staged[o] # NULL}

\* An email has one committed row.
OneEach == \A i, j \in Ids :
   account[i] # NULL /\ account[j] # NULL /\ account[i].email = account[j].email => i = j

\* A row that was read is still there, its permissions at least.
ReadSound(p) == row[p] # NULL =>
   \E i \in Ids : /\ account[i] # NULL /\ account[i].email = req[p].email
                  /\ account[i].password = row[p].password
                  /\ row[p].granted \subseteq account[i].granted

\* A row that was written and is not committed still fits what is.
Insertion(p) == /\ req[p].op = "register" /\ row[p] = NewRow(p)
                /\ account[staged[p]] = NULL /\ Holders(req[p].email) = {}

Promotion(p) == LET a == account[staged[p]]
                IN  /\ req[p].op = "promote" /\ a # NULL /\ a.email = req[p].email
                    /\ row[p] = [a EXCEPT !.granted = @ \union {req[p].permission}]

\* What a request relies on at its position.
RequestSound(p) ==
  /\ pc[p] \in Busy => req[p] # NULL
  /\ pc[p] = "commit" <=> staged[p] # NULL
  /\ pc[p] = "start" => row[p] = NULL
  /\ pc[p] = "verify" => req[p].op = "login" /\ ReadSound(p)
  /\ pc[p] = "update" => req[p].op = "promote" /\ ReadSound(p)
  /\ pc[p] = "commit" => Insertion(p) \/ Promotion(p)
  /\ owed[p] => /\ req[p] # NULL /\ req[p].op = "login" /\ [req[p] EXCEPT !.op = "register"] \in known
                /\ pc[p] = "verify" => row[p] # NULL /\ row[p].password = req[p].password

\* No two transactions have written the same row, or rows of the same email.
WritesApart == \A p, o \in Staging : p # o => staged[p] # staged[o] /\ row[p].email # row[o].email

\* The inductive invariant: one row an email, what was acknowledged is stored,
\* and what a transaction has read or written still fits what is committed.
IInv == /\ TypeOK /\ OneEach /\ AcknowledgedStays /\ WritesApart
        /\ \A p \in Requests : RequestSound(p)

--------------------------------------------------------------------------------
(* Requests *)

Step(p) == Start(p) \/ Insert(p) \/ Select(p) \/ Verify(p) \/ Update(p) \/ Commit(p) \/ Fail(p)

AnyRequest == Register \union Login \union Promote

\* An operation's name determines the fields of its request.
LEMMA RequestFields ==
  ASSUME NEW q \in AnyRequest
  PROVE  /\ q # NULL /\ q.email \in Emails /\ q.op \in {"register", "login", "promote"}
         /\ q.op = "register" => q \in Register /\ q.password \in Passwords
         /\ q.op = "login" => q \in Login /\ q.password \in Passwords
         /\ q.op = "promote" => q \in Promote /\ q.permission \in Permissions
BY NullAssumption DEF AnyRequest, Register, Login, Promote

\* Promoting changes nothing of an account but what is granted.
LEMMA Promoted ==
  ASSUME NEW a \in Account, NEW g \in Permissions, NEW b, b = [a EXCEPT !.granted = @ \union {g}]
  PROVE  /\ b \in Account /\ b.email = a.email /\ b.password = a.password
         /\ b.granted = a.granted \union {g}
BY DEF Account

LEMMA RowInserted ==
  ASSUME NEW p \in Requests, req[p] \in Register
  PROVE  /\ NewRow(p) \in Account /\ NewRow(p).email = req[p].email
         /\ NewRow(p).password = req[p].password
BY DEF NewRow, Account, Register

\* A request that is served has one of the forms.
LEMMA ServedRequest ==
  ASSUME IInv, NEW p \in Requests, pc[p] \in Busy
  PROVE  req[p] \in AnyRequest /\ RequestSound(p)
BY DEF IInv, TypeOK, RequestSound, AnyRequest

\* What is about to be committed.
LEMMA StagedRow ==
  ASSUME IInv, NEW p \in Staging
  PROVE  /\ pc[p] = "commit" /\ staged[p] \in Ids
         /\ row[p] \in Account /\ row[p].email = req[p].email
         /\ \/ Insertion(p) /\ row[p].password = req[p].password
            \/ /\ Promotion(p) /\ row[p].password = account[staged[p]].password
               /\ account[staged[p]].granted \subseteq row[p].granted
               /\ req[p].permission \in row[p].granted
<1>1. pc[p] = "commit" /\ staged[p] \in Ids /\ p \in Requests /\ (Insertion(p) \/ Promotion(p))
  BY DEF IInv, TypeOK, RequestSound, Staging
<1>2. req[p] \in AnyRequest
  BY <1>1, ServedRequest DEF Busy
<1>3. CASE Insertion(p)
  <2>1. req[p] \in Register
    BY <1>2, <1>3, RequestFields DEF Insertion
  <2>2. QED
    BY <1>1, <1>3, <2>1, RowInserted DEF Insertion
<1>4. CASE Promotion(p)
  <2>1. account[staged[p]] \in Account /\ req[p].permission \in Permissions
    BY <1>1, <1>2, <1>4, RequestFields DEF Promotion, IInv, TypeOK
  <2>2. row[p] = [account[staged[p]] EXCEPT !.granted = @ \union {req[p].permission}]
        /\ account[staged[p]].email = req[p].email
    BY <1>4 DEF Promotion
  <2>3. /\ row[p] \in Account /\ row[p].email = req[p].email
        /\ row[p].password = account[staged[p]].password
        /\ row[p].granted = account[staged[p]].granted \union {req[p].permission}
    BY <2>1, <2>2, Promoted
  <2>4. QED
    BY <1>1, <1>4, <2>3
<1>5. QED
  BY <1>1, <1>3, <1>4

--------------------------------------------------------------------------------
(* What a step leaves alone *)

\* The position and the locals of request o.
Untouched(o) == /\ pc'[o] = pc[o] /\ req'[o] = req[o] /\ staged'[o] = staged[o]
                /\ row'[o] = row[o] /\ owed'[o] = owed[o]

LEMMA OthersUntouched ==
  ASSUME TypeOK, NEW p \in Requests, Step(p), NEW o \in Requests \ {p}
  PROVE  Untouched(o)
<1> USE DEF Untouched, TypeOK
<1>1. ASSUME NEW outcome, Answer(p, outcome)
      PROVE  Untouched(o)
  BY <1>1 DEF Answer
<1>2. ASSUME NEW i, NEW written, Stage(p, i, written)
      PROVE  Untouched(o)
  BY <1>2 DEF Stage
<1>3. CASE Start(p)
  BY <1>3 DEF Start
<1>4. CASE Insert(p)
  BY <1>1, <1>2, <1>4 DEF Insert, Refuse
<1>5. CASE Select(p)
  BY <1>5 DEF Select
<1>6. CASE Verify(p) \/ Fail(p)
  BY <1>1, <1>6 DEF Verify, Fail, Refuse
<1>7. CASE Update(p)
  BY <1>1, <1>2, <1>7 DEF Update, Refuse
<1>8. CASE Commit(p)
  BY <1>1, <1>8 DEF Commit
<1>9. QED
  BY <1>3, <1>4, <1>5, <1>6, <1>7, <1>8 DEF Step

\* What is acknowledged is never taken back.
LEMMA KnownGrows ==
  ASSUME NEW p \in Requests, Step(p)
  PROVE  known \subseteq known'
<1>1. ASSUME NEW outcome, Answer(p, outcome)
      PROVE  known \subseteq known'
  BY <1>1 DEF Answer
<1>2. QED
  BY <1>1 DEF Step, Start, Insert, Select, Verify, Update, Commit, Fail, Refuse, Stage

LEMMA OnlyCommitStores ==
  ASSUME NEW p \in Requests, Step(p), ~Commit(p)
  PROVE  account' = account
BY DEF Step, Start, Insert, Select, Verify, Update, Fail, Refuse, Stage

\* Accounts stay, and keep their email and password; permissions are only added.
Grown == \A i \in Ids : account[i] # NULL =>
   /\ account'[i] # NULL /\ account'[i].email = account[i].email
   /\ account'[i].password = account[i].password
   /\ account[i].granted \subseteq account'[i].granted

LEMMA Committed ==
  ASSUME IInv, NEW p \in Requests, Commit(p)
  PROVE  p \in Staging /\ account' = [account EXCEPT ![staged[p]] = row[p]]
BY DEF Commit, IInv, RequestSound, Staging

LEMMA AccountsGrow ==
  ASSUME IInv, NEW p \in Requests, Step(p)
  PROVE  Grown /\ account' \in [Ids -> Account \union {NULL}]
<1>1. CASE ~Commit(p)
  BY <1>1, OnlyCommitStores DEF Grown, IInv, TypeOK
<1>2. CASE Commit(p)
  <2>1. /\ staged[p] \in Ids /\ row[p] \in Account
        /\ account' = [account EXCEPT ![staged[p]] = row[p]]
    BY <1>2, Committed, StagedRow
  <2>2. account' \in [Ids -> Account \union {NULL}]
    BY <2>1 DEF IInv, TypeOK
  <2>3. account[staged[p]] # NULL => /\ row[p].email = account[staged[p]].email
                                     /\ row[p].password = account[staged[p]].password
                                     /\ account[staged[p]].granted \subseteq row[p].granted
    BY <1>2, Committed, StagedRow DEF Insertion, Promotion
  <2>4. \A i \in Ids : account'[i] = IF i = staged[p] THEN row[p] ELSE account[i]
    BY <2>1 DEF IInv, TypeOK
  <2>5. row[p] # NULL
    BY <2>1, NullAssumption
  <2>6. QED
    BY <2>2, <2>3, <2>4, <2>5 DEF Grown
<1>3. QED
  BY <1>1, <1>2

--------------------------------------------------------------------------------
(* Others *)

LEMMA ReadStaysSound ==
  ASSUME IInv, NEW p \in Requests, Step(p), NEW o \in Requests, ReadSound(o),
         req'[o] = req[o], row'[o] = row[o]
  PROVE  ReadSound(o)'
<1>1. Grown
  BY AccountsGrow
<1>2. CASE row[o] = NULL
  BY <1>2 DEF ReadSound
<1>3. CASE row[o] # NULL
  <2>1. PICK i \in Ids : /\ account[i] # NULL /\ account[i].email = req[o].email
                         /\ account[i].password = row[o].password
                         /\ row[o].granted \subseteq account[i].granted
    BY <1>3 DEF ReadSound
  <2>2. /\ account'[i] # NULL /\ account'[i].email = req[o].email
        /\ account'[i].password = row[o].password
        /\ row[o].granted \subseteq account'[i].granted
    BY <1>1, <2>1 DEF Grown
  <2>3. QED
    BY <2>2 DEF ReadSound
<1>4. QED
  BY <1>2, <1>3

\* A commit changes no row that another transaction has written.
LEMMA OthersStaged ==
  ASSUME IInv, NEW p \in Requests, Step(p), NEW o \in Staging, o # p,
         Insertion(o) \/ Promotion(o), Untouched(o)
  PROVE  Insertion(o)' \/ Promotion(o)'
<1>1. CASE ~Commit(p)
  <2>1. account' = account
    BY <1>1, OnlyCommitStores
  <2>2. QED
    BY <2>1 DEF Untouched, Insertion, Promotion, NewRow, Holders
<1>2. CASE Commit(p)
  <2>1. /\ p \in Staging /\ staged[p] \in Ids /\ staged[o] \in Ids
        /\ \A i \in Ids : account'[i] = IF i = staged[p] THEN row[p] ELSE account[i]
    BY <1>2, Committed, StagedRow DEF IInv, TypeOK
  <2>2. staged[p] # staged[o] /\ row[p].email # row[o].email /\ row[o].email = req[o].email
    BY <2>1, StagedRow DEF IInv, WritesApart
  <2>3. account'[staged[o]] = account[staged[o]]
    BY <2>1, <2>2
  <2>4. CASE Insertion(o)
    <3>1. Holders(req[o].email)' = {}
      BY <2>1, <2>2, <2>4 DEF Insertion, Holders, Untouched
    <3>2. QED
      BY <2>3, <2>4, <3>1 DEF Insertion, Untouched, NewRow
  <2>5. CASE Promotion(o)
    BY <2>3, <2>5 DEF Promotion, Untouched
  <2>6. QED
    BY <2>4, <2>5
<1>3. QED
  BY <1>1, <1>2

LEMMA OthersSound ==
  ASSUME IInv, NEW p \in Requests, Step(p), NEW o \in Requests \ {p}
  PROVE  RequestSound(o)'
<1>1. Untouched(o) /\ known \subseteq known' /\ RequestSound(o)
  BY OthersUntouched, KnownGrows DEF IInv
<1>2. ReadSound(o) => ReadSound(o)'
  BY <1>1, ReadStaysSound DEF Untouched
<1>3. pc[o] = "commit" => Insertion(o)' \/ Promotion(o)'
  BY <1>1, OthersStaged DEF RequestSound, Staging
<1>4. QED
  BY <1>1, <1>2, <1>3 DEF RequestSound, Untouched

--------------------------------------------------------------------------------
(* The request's own step *)

\* An answer leaves nothing to rely on.
LEMMA Answered ==
  ASSUME IInv, NEW p \in Requests, NEW outcome \in {"ok", "refused", "failed"}, Answer(p, outcome)
  PROVE  /\ RequestSound(p)'
         /\ pc' \in [Requests -> Busy \union Resting]
         /\ req' \in [Requests -> Register \union Login \union Promote \union {NULL}]
         /\ staged' \in [Requests -> Ids \union {NULL}]
         /\ row' \in [Requests -> Account \union {NULL}]
         /\ owed' \in [Requests -> BOOLEAN]
         /\ \A o \in Requests : pc'[o] \in Resting => <<req'[o], staged'[o], row'[o]>> = <<NULL, NULL, NULL>>
         /\ staged'[p] = NULL
<1>1. /\ pc' = [pc EXCEPT ![p] = outcome] /\ req' = [req EXCEPT ![p] = NULL]
      /\ staged' = [staged EXCEPT ![p] = NULL] /\ row' = [row EXCEPT ![p] = NULL]
      /\ owed' = [owed EXCEPT ![p] = FALSE]
  BY DEF Answer
<1>2. /\ pc'[p] = outcome /\ staged'[p] = NULL /\ owed'[p] = FALSE
  BY <1>1 DEF IInv, TypeOK
<1>3. RequestSound(p)'
  BY <1>2 DEF RequestSound, Busy
<1>4. QED
  BY <1>1, <1>2, <1>3 DEF IInv, TypeOK, Resting, Busy

\* What acknowledged requests are: registrations and promotions.
LEMMA KnownTyped ==
  ASSUME IInv, NEW p \in Requests, Step(p)
  PROVE  known' \subseteq Register \union Promote
<1>1. ASSUME NEW outcome, Answer(p, outcome), pc[p] \in Busy
      PROVE  known' \subseteq Register \union Promote
  <2>1. req[p] \in AnyRequest
    BY <1>1, ServedRequest
  <2>2. req[p].op # "login" => req[p] \in Register \union Promote
    BY <2>1, RequestFields
  <2>3. QED
    BY <1>1, <2>2 DEF Answer, IInv, TypeOK
<1>2. CASE UNCHANGED known
  BY <1>2 DEF IInv, TypeOK
<1>3. QED
  BY <1>1, <1>2 DEF Step, Start, Insert, Select, Verify, Update, Commit, Fail, Refuse, Stage, Busy

\* Types of everything but the committed rows and what is acknowledged.
LocalsTyped ==
  /\ pc \in [Requests -> Busy \union Resting]
  /\ req \in [Requests -> Register \union Login \union Promote \union {NULL}]
  /\ staged \in [Requests -> Ids \union {NULL}]
  /\ row \in [Requests -> Account \union {NULL}]
  /\ owed \in [Requests -> BOOLEAN]
  /\ \A p \in Requests : pc[p] \in Resting => <<req[p], staged[p], row[p]>> = <<NULL, NULL, NULL>>

LEMMA StartSound ==
  ASSUME IInv, NEW p \in Requests, Start(p)
  PROVE  RequestSound(p)' /\ LocalsTyped' /\ staged'[p] = NULL
<1>1. PICK q \in AnyRequest :
         /\ req' = [req EXCEPT ![p] = q]
         /\ owed' = [owed EXCEPT ![p] = q.op = "login" /\ [q EXCEPT !.op = "register"] \in known]
  BY DEF Start, AnyRequest
<1>2. /\ pc[p] \in Resting /\ pc' = [pc EXCEPT ![p] = "start"]
      /\ staged' = staged /\ row' = row /\ known' = known
  BY DEF Start
<1>3. staged[p] = NULL /\ row[p] = NULL /\ q # NULL
  BY <1>1, <1>2, RequestFields DEF IInv, TypeOK
<1>4. pc'[p] = "start" /\ req'[p] = q /\ staged'[p] = NULL /\ row'[p] = NULL
  BY <1>1, <1>2, <1>3 DEF IInv, TypeOK
<1>5. owed'[p] = (q.op = "login" /\ [q EXCEPT !.op = "register"] \in known)
  BY <1>1 DEF IInv, TypeOK
<1>6. RequestSound(p)'
  BY <1>2, <1>3, <1>4, <1>5 DEF RequestSound
<1>7. owed' \in [Requests -> BOOLEAN]
  BY <1>1 DEF IInv, TypeOK
<1>8. LocalsTyped'
  BY <1>1, <1>2, <1>3, <1>7 DEF IInv, TypeOK, LocalsTyped, AnyRequest, Busy, Resting
<1>9. QED
  BY <1>4, <1>6, <1>8

\* An answered request is sound, its locals typed.
LEMMA AnsweredSound ==
  ASSUME IInv, NEW p \in Requests, NEW outcome \in {"ok", "refused", "failed"}, Answer(p, outcome)
  PROVE  RequestSound(p)' /\ LocalsTyped' /\ staged'[p] = NULL
BY Answered DEF LocalsTyped

LEMMA StageSound ==
  ASSUME IInv, NEW p \in Requests, pc[p] \in Busy, NEW i \in Ids, NEW written \in Account,
         Stage(p, i, written), Insertion(p)' \/ Promotion(p)'
  PROVE  RequestSound(p)' /\ LocalsTyped'
<1>1. /\ staged' = [staged EXCEPT ![p] = i] /\ row' = [row EXCEPT ![p] = written]
      /\ pc' = [pc EXCEPT ![p] = "commit"] /\ req' = req /\ known' = known /\ owed' = owed
  BY DEF Stage
<1>2. pc'[p] = "commit" /\ staged'[p] = i /\ i # NULL
  BY <1>1, NullAssumption DEF IInv, TypeOK
<1>3. RequestSound(p)
  BY DEF IInv
<1>4. RequestSound(p)'
  BY <1>1, <1>2, <1>3 DEF RequestSound
<1>5. LocalsTyped'
  BY <1>1 DEF IInv, TypeOK, LocalsTyped, Busy, Resting
<1>6. QED
  BY <1>4, <1>5

\* The row of a registration is one that nobody has, nor is about to have.
LEMMA Inserted ==
  ASSUME IInv, NEW p \in Requests, Insert(p)
  PROVE  \/ Refuse(p)
         \/ /\ RequestSound(p)' /\ LocalsTyped'
            /\ \A o \in Staging \ {p} : staged'[p] # staged[o] /\ row'[p].email # row[o].email
<1>1. /\ pc[p] = "start" /\ req[p].op = "register"
      /\ \A o \in Uncommitted(p) : row[o].email # req[p].email
  BY DEF Insert
<1>2. req[p] \in AnyRequest
  BY <1>1, ServedRequest DEF Busy
<1>3. NewRow(p) \in Account /\ NewRow(p).email = req[p].email
  BY <1>1, <1>2, RequestFields, RowInserted
<1>4. CASE Holders(req[p].email) # {}
  BY <1>4 DEF Insert
<1>5. CASE Holders(req[p].email) = {}
  <2>1. PICK i \in Draw(p) : Stage(p, i, NewRow(p))
    BY <1>5 DEF Insert
  <2>2. i \in Ids /\ account[i] = NULL /\ \A o \in Requests : staged[o] # i
    BY <2>1 DEF Draw
  <2>3. staged'[p] = i /\ row'[p] = NewRow(p) /\ req' = req /\ account' = account
    BY <2>1 DEF Stage, IInv, TypeOK
  <2>4. Insertion(p)'
    BY <1>1, <1>5, <2>2, <2>3 DEF Insertion, NewRow, Holders
  <2>5. RequestSound(p)' /\ LocalsTyped'
    BY <1>1, <1>3, <2>1, <2>2, <2>4, StageSound DEF Busy
  <2>6. \A o \in Staging \ {p} : staged'[p] # staged[o] /\ row'[p].email # row[o].email
    BY <1>1, <1>3, <2>2, <2>3 DEF Staging, Uncommitted
  <2>7. QED
    BY <2>5, <2>6
<1>6. QED
  BY <1>4, <1>5

\* What was read of an account is true, and enough for a login that is owed.
LEMMA SelectSound ==
  ASSUME IInv, NEW p \in Requests, Select(p)
  PROVE  RequestSound(p)' /\ LocalsTyped' /\ staged'[p] = NULL
<1> DEFINE found == CHOOSE i \in Holders(req[p].email) : TRUE
<1>1. /\ pc[p] = "start" /\ req[p].op \in {"login", "promote"}
      /\ row' = [row EXCEPT ![p] = IF Holders(req[p].email) = {} THEN NULL ELSE account[found]]
      /\ pc' = [pc EXCEPT ![p] = IF req[p].op = "login" THEN "verify" ELSE "update"]
      /\ account' = account /\ req' = req /\ staged' = staged /\ known' = known /\ owed' = owed
  BY DEF Select
<1>2. req[p] \in AnyRequest /\ RequestSound(p)
  BY <1>1, ServedRequest DEF Busy
<1>3. /\ pc'[p] = IF req[p].op = "login" THEN "verify" ELSE "update"
      /\ row'[p] = IF Holders(req[p].email) = {} THEN NULL ELSE account[found]
      /\ staged'[p] = NULL /\ req[p] # NULL
  BY <1>1, <1>2 DEF IInv, TypeOK, RequestSound, Busy
<1>4. Holders(req[p].email) # {} => /\ found \in Ids /\ account[found] # NULL
                                    /\ account[found].email = req[p].email
                                    /\ account[found] \in Account
  <2>1. Holders(req[p].email) # {} => found \in Holders(req[p].email)
    OBVIOUS
  <2>2. QED
    BY <2>1 DEF Holders, IInv, TypeOK
<1> HIDE DEF found
<1>5. ReadSound(p)'
  BY <1>1, <1>3, <1>4 DEF ReadSound
<1>6. ASSUME owed[p]
      PROVE  row'[p] # NULL /\ row'[p].password = req[p].password
  <2>1. req[p].op = "login" /\ [req[p] EXCEPT !.op = "register"] \in known
    BY <1>2, <1>6 DEF RequestSound
  <2>2. req[p] \in Login
    BY <1>2, <2>1, RequestFields
  <2>3. PICK g \in known : g.op = "register" /\ g.email = req[p].email /\ g.password = req[p].password
    BY <2>1, <2>2 DEF Login
  <2>4. PICK i \in Holders(req[p].email) : account[i].password = req[p].password
    BY <2>3 DEF IInv, AcknowledgedStays
  <2>5. i = found
    BY <1>4, <2>4 DEF IInv, OneEach, Holders
  <2>6. QED
    BY <1>3, <1>4, <2>4, <2>5
<1>7. RequestSound(p)'
  BY <1>1, <1>2, <1>3, <1>5, <1>6 DEF RequestSound, Busy
<1>8. LocalsTyped'
  <2>1. row' \in [Requests -> Account \union {NULL}]
    BY <1>1, <1>4 DEF IInv, TypeOK
  <2>2. pc' \in [Requests -> Busy \union Resting]
    BY <1>1 DEF IInv, TypeOK, Busy
  <2>3. \A o \in Requests : pc'[o] \in Resting => pc'[o] = pc[o] /\ row'[o] = row[o]
    BY <1>1 DEF IInv, TypeOK, Resting
  <2>4. QED
    BY <1>1, <2>1, <2>2, <2>3 DEF IInv, TypeOK, LocalsTyped
<1>9. QED
  BY <1>3, <1>7, <1>8

\* The row of a promotion is one that nobody else is about to change.
LEMMA Updated ==
  ASSUME IInv, NEW p \in Requests, Update(p), ~(\E outcome \in {"ok", "refused"} : Answer(p, outcome))
  PROVE  /\ RequestSound(p)' /\ LocalsTyped'
         /\ \A o \in Staging \ {p} : staged'[p] # staged[o] /\ row'[p].email # row[o].email
<1>1. pc[p] = "update"
  BY DEF Update
<1>2. req[p] \in AnyRequest /\ req[p].op = "promote"
  BY <1>1, ServedRequest DEF Busy, RequestSound
<1>3. req[p].permission \in Permissions
  BY <1>2, RequestFields
<1>4. PICK i \in Holders(req[p].email) :
         /\ \A o \in Uncommitted(p) : staged[o] # i
         /\ Stage(p, i, [account[i] EXCEPT !.granted = @ \union {req[p].permission}])
  BY DEF Update, Refuse
<1> DEFINE written == [account[i] EXCEPT !.granted = @ \union {req[p].permission}]
<1>5. i \in Ids /\ account[i] # NULL /\ account[i] \in Account /\ account[i].email = req[p].email
  BY <1>4 DEF Holders, IInv, TypeOK
<1>6. written \in Account /\ written.email = req[p].email
  BY <1>3, <1>5, Promoted
<1>7. staged'[p] = i /\ row'[p] = written /\ req' = req /\ account' = account
  BY <1>4 DEF Stage, IInv, TypeOK
<1>8. Promotion(p)'
  BY <1>2, <1>5, <1>7 DEF Promotion
<1>9. RequestSound(p)' /\ LocalsTyped'
  BY <1>1, <1>4, <1>5, <1>6, <1>8, StageSound DEF Busy
<1>10. ASSUME NEW o \in Staging \ {p}
       PROVE  staged[o] # i /\ row[o].email # req[p].email
  <2>1. staged[o] # i
    BY <1>4 DEF Staging, Uncommitted
  <2>2. row[o].email = req[o].email /\ staged[o] \in Ids /\ (Insertion(o) \/ Promotion(o))
    BY StagedRow
  <2>3. QED
    BY <1>4, <1>5, <2>1, <2>2 DEF Insertion, Promotion, Holders, IInv, OneEach
<1>11. QED
  BY <1>6, <1>7, <1>9, <1>10

\* Answering and reading write nothing: only two operations leave a row staged.
LEMMA OwnSound ==
  ASSUME IInv, NEW p \in Requests, Step(p)
  PROVE  /\ RequestSound(p)' /\ LocalsTyped'
         /\ \/ staged'[p] = NULL
            \/ \A o \in Staging \ {p} : staged'[p] # staged[o] /\ row'[p].email # row[o].email
<1>1. ASSUME NEW outcome \in {"ok", "refused", "failed"}, Answer(p, outcome)
      PROVE  RequestSound(p)' /\ LocalsTyped' /\ staged'[p] = NULL
  BY <1>1, AnsweredSound
<1>2. CASE Start(p)
  BY <1>2, StartSound
<1>3. CASE Insert(p)
  BY <1>1, <1>3, Inserted DEF Refuse
<1>4. CASE Select(p)
  BY <1>4, SelectSound
<1>5. CASE Verify(p)
  BY <1>1, <1>5 DEF Verify, Refuse
<1>6. CASE Update(p)
  BY <1>1, <1>6, Updated
<1>7. CASE Commit(p) \/ Fail(p)
  BY <1>1, <1>7 DEF Commit, Fail
<1>8. QED
  BY <1>2, <1>3, <1>4, <1>5, <1>6, <1>7 DEF Step

LEMMA WritesStayApart ==
  ASSUME IInv, NEW p \in Requests, Step(p)
  PROVE  WritesApart'
<1>1. \A o \in Requests \ {p} : staged'[o] = staged[o] /\ row'[o] = row[o]
  BY OthersUntouched DEF IInv, Untouched
<1>2. \/ staged'[p] = NULL
      \/ \A o \in Staging \ {p} : staged'[p] # staged[o] /\ row'[p].email # row[o].email
  BY OwnSound
<1>3. QED
  BY <1>1, <1>2 DEF IInv, WritesApart, Staging

--------------------------------------------------------------------------------
(* What is stored *)

\* A new row has an email that no other has.
LEMMA OneEachStays ==
  ASSUME IInv, NEW p \in Requests, Step(p)
  PROVE  OneEach'
<1>1. CASE ~Commit(p)
  BY <1>1, OnlyCommitStores DEF IInv, OneEach
<1>2. CASE Commit(p)
  <2>1. /\ staged[p] \in Ids /\ row[p].email = req[p].email /\ (Insertion(p) \/ Promotion(p))
        /\ \A i \in Ids : account'[i] = IF i = staged[p] THEN row[p] ELSE account[i]
    BY <1>2, Committed, StagedRow DEF IInv, TypeOK
  <2>2. \A j \in Ids \ {staged[p]} : account[j] # NULL => account[j].email # req[p].email
    BY <2>1 DEF Insertion, Promotion, Holders, IInv, OneEach
  <2>3. QED
    BY <2>1, <2>2 DEF IInv, OneEach
<1>3. QED
  BY <1>1, <1>2

\* What q promised, a registration or a promotion.
Stored(q) == \E i \in Holders(q.email) :
   IF q.op = "promote" THEN q.permission \in account[i].granted
                       ELSE account[i].password = q.password

\* What is acknowledged in this step is stored after it.
LEMMA NewsIsStored ==
  ASSUME IInv, NEW p \in Requests, Step(p), known' # known, NEW q, q = req[p]
  PROVE  known' = known \union {q} /\ Stored(q)'
<1>1. PICK outcome : Answer(p, outcome)
  BY DEF Step, Start, Insert, Select, Verify, Update, Commit, Fail, Refuse, Stage
<1>2. outcome = "ok" /\ req[p].op # "login" /\ known' = known \union {req[p]}
  BY <1>1 DEF Answer
<1>3. pc'[p] = "ok"
  BY <1>1, <1>2 DEF Answer, IInv, TypeOK
<1>4. CASE Update(p)
  <2>1. pc[p] = "update"
    BY <1>4 DEF Update
  <2>2. req[p].op = "promote" /\ ReadSound(p)
    BY <2>1, ServedRequest DEF RequestSound, Busy
  <2>3. row[p] # NULL /\ req[p].permission \in row[p].granted /\ account' = account
    BY <1>3, <1>4 DEF Update, Refuse, Answer, Stage, IInv, TypeOK
  <2>4. PICK i \in Ids : /\ account[i] # NULL /\ account[i].email = req[p].email
                         /\ row[p].granted \subseteq account[i].granted
    BY <2>2, <2>3 DEF ReadSound
  <2>5. i \in Holders(q.email)'
    BY <2>3, <2>4 DEF Holders
  <2>6. Stored(q)'
    BY <2>2, <2>3, <2>4, <2>5 DEF Stored
  <2>7. QED
    BY <1>2, <2>6
<1>5. CASE Commit(p)
  <2>1. /\ p \in Staging /\ staged[p] \in Ids /\ row[p] \in Account
        /\ account'[staged[p]] = row[p]
    BY <1>5, Committed, StagedRow DEF IInv, TypeOK
  <2>2. row[p].email = req[p].email /\ row[p] # NULL
    BY <2>1, StagedRow, NullAssumption
  <2>3. IF req[p].op = "promote" THEN req[p].permission \in row[p].granted
                                 ELSE row[p].password = req[p].password
    BY <2>1, StagedRow DEF Insertion, Promotion
  <2>4. staged[p] \in Holders(q.email)'
    BY <2>1, <2>2 DEF Holders
  <2>5. Stored(q)'
    BY <2>1, <2>3, <2>4 DEF Stored
  <2>6. QED
    BY <1>2, <2>5
<1>6. CASE Verify(p)
  <2>1. req[p].op = "login"
    BY <1>6, ServedRequest DEF Verify, RequestSound, Busy
  <2>2. QED
    BY <1>2, <2>1
<1>7. CASE Start(p) \/ Insert(p) \/ Select(p) \/ Fail(p)
  <2>1. pc'[p] # "ok"
    BY <1>7 DEF Start, Insert, Select, Fail, Refuse, Answer, Stage, IInv, TypeOK
  <2>2. QED
    BY <1>3, <2>1
<1>8. QED
  BY <1>4, <1>5, <1>6, <1>7 DEF Step

LEMMA AcknowledgedStayStored ==
  ASSUME IInv, NEW p \in Requests, Step(p), TypeOK'
  PROVE  AcknowledgedStays'
<1>1. ASSUME NEW q \in known
      PROVE  Stored(q)'
  <2>1. PICK i \in Holders(q.email) : IF q.op = "promote" THEN q.permission \in account[i].granted
                                                        ELSE account[i].password = q.password
    BY DEF IInv, AcknowledgedStays
  <2>2. i \in Holders(q.email)' /\ account'[i].password = account[i].password
        /\ account[i].granted \subseteq account'[i].granted
    BY <2>1, AccountsGrow DEF Grown, Holders
  <2>3. QED
    BY <2>1, <2>2 DEF Stored
<1>2. \A q \in known' : Stored(q)'
  <2>1. known' # known => known' = known \union {req[p]} /\ \A q : q = req[p] => Stored(q)'
    BY NewsIsStored
  <2>2. QED
    BY <1>1, <2>1
<1>3. QED
  BY <1>2 DEF AcknowledgedStays, Stored, Holders

--------------------------------------------------------------------------------
(* Theorems *)

LEMMA StutterSound ==
  ASSUME IInv, UNCHANGED vars
  PROVE  IInv'
<1>1. /\ account' = account /\ pc' = pc /\ req' = req /\ staged' = staged
      /\ row' = row /\ known' = known /\ owed' = owed
  BY DEF vars
<1>2. ASSUME NEW p \in Requests
      PROVE  RequestSound(p)'
  <2>1. RequestSound(p)
    BY DEF IInv
  <2>2. ReadSound(p)' = ReadSound(p) /\ Insertion(p)' = Insertion(p) /\ Promotion(p)' = Promotion(p)
    BY <1>1 DEF ReadSound, Insertion, Promotion, NewRow, Holders
  <2>3. QED
    BY <1>1, <2>1, <2>2 DEF RequestSound
<1>3. TypeOK' /\ OneEach' /\ AcknowledgedStays' /\ WritesApart'
  BY <1>1 DEF IInv, TypeOK, OneEach, AcknowledgedStays, WritesApart, Staging, Holders
<1>4. QED
  BY <1>2, <1>3 DEF IInv

\* No step of a request leads out of the invariant.
THEOREM AccountInvariance == Spec => []IInv
<1>1. Init => IInv
  BY DEF Init, IInv, TypeOK, OneEach, AcknowledgedStays, WritesApart, Staging, RequestSound, Busy, Resting
<1>2. ASSUME IInv, NEW p \in Requests, Step(p)
      PROVE  IInv'
  <2>1. TypeOK'
    BY <1>2, OwnSound, AccountsGrow, KnownTyped DEF TypeOK, LocalsTyped
  <2>2. \A o \in Requests : RequestSound(o)'
    BY <1>2, OwnSound, OthersSound
  <2>3. QED
    BY <1>2, <2>1, <2>2, OneEachStays, AcknowledgedStayStored, WritesStayApart DEF IInv
<1>3. IInv /\ [Next]_vars => IInv'
  BY <1>2, StutterSound DEF Next, Step
<1>4. QED
  BY <1>1, <1>3, PTL DEF Spec

\* However many registrations of an email race, one account comes of them.
THEOREM EmailsAreUnique == Spec => []OneAccountPerEmail
<1>1. ASSUME IInv, NEW e \in Emails
      PROVE  Cardinality(Holders(e)) <= 1
  <2>1. CASE Holders(e) = {}
    BY <2>1, FS_EmptySet
  <2>2. CASE Holders(e) # {}
    <3>1. PICK i : i \in Holders(e)
      BY <2>2
    <3>2. Holders(e) = {i}
      BY <1>1, <3>1 DEF IInv, OneEach, Holders
    <3>3. QED
      BY <3>2, FS_Singleton
  <2>3. QED
    BY <2>1, <2>2
<1>2. IInv => OneAccountPerEmail
  BY <1>1 DEF IInv, OneAccountPerEmail
<1>3. QED
  BY <1>2, AccountInvariance, PTL

\* What was acknowledged is never lost, whichever command runs beside it.
THEOREM NothingAcknowledgedIsLost == Spec => []AcknowledgedStays
<1>1. IInv => AcknowledgedStays
  BY DEF IInv
<1>2. QED
  BY <1>1, AccountInvariance, PTL

\* A commit is one step of the registry: the row of a registration is new there,
\* the row of a promotion is the one it has, with the permission added.
LEMMA CommitEnrollsOrPermits ==
  ASSUME IInv, NEW p \in Requests, Commit(p)
  PROVE  Ledger!AccountsNext
<1>1. /\ p \in Staging /\ staged[p] \in Ids /\ (Insertion(p) \/ Promotion(p))
      /\ account' = [account EXCEPT ![staged[p]] = row[p]]
  BY Committed, StagedRow
<1>2. req[p] \in AnyRequest
  BY ServedRequest DEF Commit, Busy
<1>3. CASE Insertion(p)
  <2>1. req[p].email \in Emails /\ req[p].password \in Passwords
    BY <1>2, <1>3, RequestFields DEF Insertion
  <2>2. /\ account[staged[p]] = NULL
        /\ \A j \in Ids : account[j] # NULL => account[j].email # req[p].email
    BY <1>3 DEF Insertion, Holders
  <2>3. row[p] = [email |-> req[p].email, password |-> req[p].password, granted |-> {}]
    BY <1>3 DEF Insertion, NewRow
  <2>4. Ledger!Enroll(staged[p], req[p].email, req[p].password)
    BY <1>1, <2>2, <2>3 DEF Ledger!Enroll
  <2>5. QED
    BY <1>1, <2>1, <2>4 DEF Ledger!AccountsNext
<1>4. CASE Promotion(p)
  <2>1. req[p].permission \in Permissions
    BY <1>2, <1>4, RequestFields DEF Promotion
  <2>2. account[staged[p]] \in Account
    BY <1>1, <1>4 DEF Promotion, IInv, TypeOK
  <2>3. /\ account[staged[p]] # NULL
        /\ row[p] = [account[staged[p]] EXCEPT !.granted = @ \union {req[p].permission}]
    BY <1>4 DEF Promotion
  <2>4. account' = [account EXCEPT ![staged[p]].granted = @ \union {req[p].permission}]
    BY <1>1, <2>3 DEF IInv, TypeOK
  <2>5. Ledger!Permit(staged[p], req[p].permission)
    BY <2>3, <2>4 DEF Ledger!Permit
  <2>6. QED
    BY <1>1, <2>1, <2>5 DEF Ledger!AccountsNext, Ledger!Permissions, Permissions
<1>5. QED
  BY <1>1, <1>3, <1>4

\* Registrations and promotions are atomic: each is one step of the registry,
\* taken when it commits, and no other step of a request changes an account.
THEOREM AccountRefinement == Spec => ImplementsAccountLedger
<1>1. Init => Ledger!NoAccounts
  BY DEF Init, Ledger!NoAccounts
<1>2. ASSUME IInv, [Next]_vars
      PROVE  Ledger!AccountsNext \/ account' = account
  <2>1. CASE UNCHANGED vars
    BY <2>1 DEF vars
  <2>2. ASSUME NEW p \in Requests, Step(p)
        PROVE  Ledger!AccountsNext \/ account' = account
    BY <1>2, <2>2, OnlyCommitStores, CommitEnrollsOrPermits
  <2>3. QED
    BY <1>2, <2>1, <2>2 DEF Next, Step
<1>3. IInv /\ [Next]_vars => [Ledger!AccountsNext]_account
  BY <1>2
<1>4. QED
  BY <1>1, <1>3, AccountInvariance, PTL
     DEF Spec, ImplementsAccountLedger, Ledger!AccountsSpec

\* Who registered, and was told so, can log in.
THEOREM LoginsSucceed == Spec => RegisteredCanLogIn
<1> DEFINE Served == \A p \in Requests : pc[p] = "verify" /\ pc'[p] = "refused" => ~owed[p]
<1>1. ASSUME IInv, [Next]_vars, NEW p \in Requests, pc[p] = "verify", pc'[p] = "refused", owed[p]
      PROVE  FALSE
  <2>1. PICK o \in Requests : Step(o)
    BY <1>1 DEF Next, Step, vars
  <2>2. o = p
    BY <1>1, <2>1, OthersUntouched DEF IInv, Untouched
  <2>3. row[p] # NULL /\ row[p].password = req[p].password
    BY <1>1 DEF IInv, RequestSound
  <2>4. Verify(p) \/ Fail(p)
    BY <1>1, <2>1, <2>2 DEF Step, Start, Insert, Select, Update, Commit, Resting
  <2>5. \E outcome \in {"ok", "failed"} : Answer(p, outcome)
    BY <2>3, <2>4 DEF Verify, Fail
  <2>6. pc'[p] \in {"ok", "failed"}
    BY <1>1, <2>5 DEF Answer, IInv, TypeOK
  <2>7. QED
    BY <1>1, <2>6
<1>2. IInv /\ [Next]_vars => [Served]_vars
  BY <1>1
<1>3. QED
  BY <1>2, AccountInvariance, PTL DEF RegisteredCanLogIn, Spec
================================================================================
