------------------------------ MODULE Accounts ------------------------------
(***************************************************************************)
(* The auth service: registering an account and logging in to it with a    *)
(* password.  Register looks the name up and then inserts a row, in two    *)
(* statements without a transaction; only the UNIQUE constraint keeps two  *)
(* registrations of one name apart.                                        *)
(*                                                                         *)
(* An operator X_Fault is X with a plausible fault, for testing that a     *)
(* property notices it.                                                    *)
(***************************************************************************)
EXTENDS Access, Naturals, Sequences, FiniteSets

CONSTANTS
  Visitor,   \* registrations
  Name,      \* user names, all of them valid
  Password   \* passwords

Provider == {"local", "google"}              \* two of the identity providers
Means == {"password", "one-time password"}   \* two of the ways to prove an identity

VARIABLES
  users,     \* the rows of users, numbered as they are inserted
  visit,     \* visit[v]: how far the registration has come
  tokens     \* access tokens issued, with the name and password they were issued for

accountsVars == <<users, visit, tokens>>

\* A hash is as good as the salt and the password it was computed from; the
\* salt is random, so no two registrations have the same.
Sha256(salt, password) == <<salt, password>>

UserRow == [name : Name, salt : Visitor, hash : Visitor \X Password, role : {"customer"}]
Visit == [stage : {"new", "saving", "registered", "refused"},
          name : Name, password : Password, means : Means]
Token == [sub : Nat, role : {"customer"}, name : Name, password : Password]

AccountsTypeOK ==
  /\ users \in Seq(UserRow)
  /\ visit \in [Visitor -> Visit]
  /\ tokens \subseteq Token /\ \A t \in tokens : t.sub \in DOMAIN users

AccountsInit ==
  /\ users = <<>>
  /\ visit \in [Visitor -> [stage : {"new"}, name : Name, password : Password, means : Means]]
  /\ tokens = {}
-----------------------------------------------------------------------------
\* FindByName.
FindByName(name) == {i \in DOMAIN users : users[i].name = name}

\* resolvePasswordContext: other means are not implemented.
HasPassword(v) == visit[v].means = "password"

\* Register: a name that is found is refused,
\* and an error of the look-up counts as not found.
Register(v) ==
  /\ visit[v].stage = "new" /\ Anonymous("auth", "Register")
  /\ \/ /\ ~HasPassword(v) \/ FindByName(visit[v].name) # {}
        /\ visit' = [visit EXCEPT ![v].stage = "refused"]
     \/ /\ HasPassword(v)
        /\ visit' = [visit EXCEPT ![v].stage = "saving"]
  /\ UNCHANGED <<users, tokens>>

\* The UNIQUE constraint of the names.
NameTaken_Never(name) == FALSE
NameTaken(name) == FindByName(name) # {}

\* The row of a registration, with the role everyone starts with.
NewUser_UnsaltedHash(v) ==
  [name |-> visit[v].name, salt |-> v, hash |-> visit[v].password, role |-> "customer"]
NewUser(v) ==
  [name |-> visit[v].name, salt |-> v, hash |-> Sha256(v, visit[v].password),
   role |-> "customer"]

\* Save: the row is inserted, or the constraint or the database refuses it.
Save(v) ==
  /\ visit[v].stage = "saving"
  /\ \/ /\ ~NameTaken(visit[v].name)
        /\ users' = Append(users, NewUser(v))
        /\ visit' = [visit EXCEPT ![v].stage = "registered"]
     \/ visit' = [visit EXCEPT ![v].stage = "refused"] /\ UNCHANGED users
  /\ UNCHANGED tokens

\* The account that a name and a password log in to: any row of the name that
\* the query happens to return first, if the password matches its hash.
LogsInTo(i, name, password) ==
  /\ i \in FindByName(name)
  /\ Sha256(users[i].salt, password) = users[i].hash

\* Login: a token for the account.  Other providers are not implemented.
Login(name, password, provider) ==
  /\ provider = "local" /\ Anonymous("auth", "Login")
  /\ \E i \in FindByName(name) :
       /\ LogsInTo(i, name, password)
       /\ tokens' = tokens \cup {[sub |-> i, role |-> users[i].role,
                                  name |-> name, password |-> password]}
  /\ UNCHANGED <<users, visit>>

AccountsNext ==
  \/ \E v \in Visitor : Register(v) \/ Save(v)
  \/ \E n \in Name, p \in Password, i \in Provider : Login(n, p, i)

AccountsSpec == AccountsInit /\ [][AccountsNext]_accountsVars
-----------------------------------------------------------------------------
(* Properties. *)

\* Whoever was told that they are registered has a row and can log in with
\* their password, whichever row of the name is found; and every token issued
\* for a name and a password names the account registered with both.  Two
\* visitors that choose one name at one time may both have found it free.
RegisteredCanLogIn ==
  /\ \A v \in Visitor : visit[v].stage = "registered" =>
       /\ FindByName(visit[v].name) # {}
       /\ \A i \in FindByName(visit[v].name) :
            users[i].salt = v /\ LogsInTo(i, visit[v].name, visit[v].password)
  /\ \A t \in tokens : \E v \in Visitor :
       /\ visit[v].stage = "registered" /\ users[t.sub].salt = v
       /\ visit[v].name = t.name /\ visit[v].password = t.password
=============================================================================
