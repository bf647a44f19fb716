----------------------------- MODULE AccountLedger -----------------------------
(***************************************************************************)
(* What the service promises of accounts, with nothing said of how: a      *)
(* registry in which every operation takes effect at once.  An email is    *)
(* registered once, an account keeps its email and its password, and its   *)
(* permissions are only ever added to.  Module Accounts, with its rows     *)
(* written and not committed, waits, reads outdated by the time they are   *)
(* used and lost replies, implements this one.                             *)
(***************************************************************************)
CONSTANTS Emails, Passwords, Ids, NULL

VARIABLE account   \* the accounts by id, NULL while there is none

Permissions == {"organizer", "manager"}

NoAccounts == account = [i \in Ids |-> NULL]

Enroll(i, email, password) ==
  /\ account[i] = NULL
  /\ \A j \in Ids : account[j] # NULL => account[j].email # email
  /\ account' = [account EXCEPT ![i] = [email |-> email, password |-> password, granted |-> {}]]

Permit(i, permission) ==
  /\ account[i] # NULL
  /\ account' = [account EXCEPT ![i].granted = @ \union {permission}]

AccountsNext == \E i \in Ids :
   \/ \E email \in Emails, password \in Passwords : Enroll(i, email, password)
   \/ \E permission \in Permissions : Permit(i, permission)

AccountsSpec == NoAccounts /\ [][AccountsNext]_account
================================================================================
