-------------------------- MODULE StorefrontProofs --------------------------
(***************************************************************************)
(* Proofs about Accounts for any visitors, names and passwords: the types, *)
(* and that whoever is told to be registered can log in, and nobody else   *)
(* as them.  And about accounts and purchases side by side: whichever of   *)
(* them runs, each behaves as it does alone.                               *)
(***************************************************************************)
EXTENDS MCStorefront, PurchaseProofs

LEMMA RowType ==
  ASSUME AccountsTypeOK, NEW i \in DOMAIN users
  PROVE  users[i] \in UserRow /\ users[i].salt \in Visitor
<1>1. users \in Seq(UserRow)
  BY DEF AccountsTypeOK
<1>2. users[i] \in UserRow
  BY <1>1
<1> QED BY <1>2 DEF UserRow

\* What Append does to the rows.
LEMMA AppendRow ==
  ASSUME users \in Seq(UserRow), NEW row \in UserRow, users' = Append(users, row)
  PROVE  /\ users' \in Seq(UserRow)
         /\ DOMAIN users' = DOMAIN users \cup {Len(users) + 1}
         /\ Len(users) + 1 \notin DOMAIN users
         /\ users'[Len(users) + 1] = row
         /\ \A i \in DOMAIN users : users'[i] = users[i]
OBVIOUS

LEMMA NewUserType ==
  ASSUME AccountsTypeOK, NEW v \in Visitor
  PROVE  NewUser(v) \in UserRow
BY DEF AccountsTypeOK, NewUser, UserRow, Visit, Sha256

LEMMA AccountsTypeInit == AccountsInit => AccountsTypeOK
BY DEF AccountsInit, AccountsTypeOK, Visit

\* What Save does: it adds the row of a visitor whose name is free, or nothing.
LEMMA SaveEffect ==
  ASSUME AccountsTypeOK, NEW v \in Visitor, Save(v)
  PROVE  /\ visit[v].stage = "saving" /\ tokens' = tokens
         /\ \/ /\ ~NameTaken(visit[v].name)
               /\ users' = Append(users, NewUser(v))
               /\ visit' = [visit EXCEPT ![v].stage = "registered"]
            \/ /\ users' = users
               /\ visit' = [visit EXCEPT ![v].stage = "refused"]
BY DEF Save

LEMMA AccountsTypeStep ==
  ASSUME AccountsTypeOK, [AccountsNext]_accountsVars
  PROVE  AccountsTypeOK'
<1>1. ASSUME NEW v \in Visitor, Register(v) PROVE AccountsTypeOK'
  BY <1>1 DEF Register, AccountsTypeOK, Visit
<1>2. ASSUME NEW v \in Visitor, Save(v) PROVE AccountsTypeOK'
  <2>1. visit' \in [Visitor -> Visit]
    BY <1>2, SaveEffect DEF AccountsTypeOK, Visit
  <2>2. users' \in Seq(UserRow) /\ DOMAIN users \subseteq DOMAIN users'
    BY <1>2, SaveEffect, AppendRow, NewUserType DEF AccountsTypeOK
  <2> QED BY <1>2, <2>1, <2>2, SaveEffect DEF AccountsTypeOK
<1>3. ASSUME NEW n \in Name, NEW p \in Password, NEW i \in Provider, Login(n, p, i)
      PROVE  AccountsTypeOK'
  <2>1. PICK u \in FindByName(n) :
          tokens' = tokens \cup {[sub |-> u, role |-> users[u].role, name |-> n, password |-> p]}
    BY <1>3 DEF Login
  <2>2. u \in DOMAIN users /\ u \in Nat /\ users[u] \in UserRow
    BY <2>1 DEF FindByName, AccountsTypeOK
  <2>3. [sub |-> u, role |-> users[u].role, name |-> n, password |-> p] \in Token
    BY <2>2 DEF Token, UserRow
  <2>4. UNCHANGED <<users, visit>>
    BY <1>3 DEF Login
  <2> QED BY <2>1, <2>2, <2>3, <2>4 DEF AccountsTypeOK
<1>4. CASE UNCHANGED accountsVars
  BY <1>4 DEF accountsVars, AccountsTypeOK
<1> QED BY <1>1, <1>2, <1>3, <1>4 DEF AccountsNext

\* The rows, the registrations and the tokens have the types of the schema.
THEOREM AccountsTypeCorrect == AccountsSpec => []AccountsTypeOK
BY AccountsTypeInit, AccountsTypeStep, PTL DEF AccountsSpec
-----------------------------------------------------------------------------
\* A row belongs to the visitor whose salt it has, and to no other.
RowsAreRegistrations ==
  \A i \in DOMAIN users :
    LET v == users[i].salt
    IN /\ visit[v].stage = "registered"
       /\ users[i].name = visit[v].name
       /\ users[i].hash = Sha256(v, visit[v].password)

NamesAreUnique ==
  \A i, j \in DOMAIN users : users[i].name = users[j].name => i = j

RegistrationsHaveRows ==
  \A v \in Visitor : visit[v].stage = "registered" => \E i \in DOMAIN users : users[i].salt = v

TokensMatchRows ==
  \A t \in tokens : LogsInTo(t.sub, t.name, t.password)

RegistrationInv ==
  /\ AccountsTypeOK /\ RowsAreRegistrations /\ NamesAreUnique
  /\ RegistrationsHaveRows /\ TokensMatchRows

LEMMA RegistrationInit == AccountsInit => RegistrationInv
BY AccountsTypeInit
   DEF AccountsInit, RegistrationInv, RowsAreRegistrations, NamesAreUnique,
       RegistrationsHaveRows, TokensMatchRows

LEMMA RegistrationStep ==
  ASSUME RegistrationInv, [AccountsNext]_accountsVars
  PROVE  RegistrationInv'
<1> USE DEF RegistrationInv
<1>1. AccountsTypeOK'
  BY AccountsTypeStep
<1>2. \A i \in DOMAIN users : users[i] \in UserRow /\ users[i].salt \in Visitor
  BY RowType
<1>3. ASSUME NEW v \in Visitor, NEW s \in {"saving", "refused"}, visit[v].stage # "registered",
             visit' = [visit EXCEPT ![v].stage = s], UNCHANGED <<users, tokens>>
      PROVE  RegistrationInv'
  <2>1. \A w \in Visitor : /\ visit'[w].name = visit[w].name
                           /\ visit'[w].password = visit[w].password
                           /\ visit'[w].stage = "registered" <=> visit[w].stage = "registered"
    BY <1>3 DEF AccountsTypeOK, Visit
  <2>2. RowsAreRegistrations'
    BY <1>2, <1>3, <2>1 DEF RowsAreRegistrations, Sha256
  <2>3. NamesAreUnique' /\ RegistrationsHaveRows'
    BY <1>3, <2>1 DEF NamesAreUnique, RegistrationsHaveRows
  <2>4. TokensMatchRows'
    BY <1>3 DEF TokensMatchRows, LogsInTo, FindByName
  <2> QED BY <1>1, <2>2, <2>3, <2>4
<1>4. ASSUME NEW v \in Visitor, Register(v) PROVE RegistrationInv'
  BY <1>3, <1>4 DEF Register
<1>5. ASSUME NEW v \in Visitor, Save(v) PROVE RegistrationInv'
  <2>1. CASE /\ ~NameTaken(visit[v].name)
             /\ users' = Append(users, NewUser(v))
             /\ visit' = [visit EXCEPT ![v].stage = "registered"]
    <3> DEFINE n == Len(users) + 1
    <3>1. /\ DOMAIN users' = DOMAIN users \cup {n} /\ n \notin DOMAIN users
          /\ users'[n] = NewUser(v)
          /\ \A i \in DOMAIN users : users'[i] = users[i]
      BY <2>1, AppendRow, NewUserType DEF AccountsTypeOK
    <3>2. /\ NewUser(v).name = visit[v].name /\ NewUser(v).salt = v
          /\ NewUser(v).hash = Sha256(v, visit[v].password)
      BY DEF NewUser
    <3>3. \A w \in Visitor : /\ visit'[w].name = visit[w].name
                             /\ visit'[w].password = visit[w].password
                             /\ visit'[w].stage = IF w = v THEN "registered" ELSE visit[w].stage
      BY <2>1 DEF AccountsTypeOK, Visit
    <3>4. \A i \in DOMAIN users : users[i].name # visit[v].name
      BY <2>1 DEF NameTaken, FindByName
    <3> HIDE DEF n
    <3>5. RowsAreRegistrations'
      <4> SUFFICES ASSUME NEW i \in DOMAIN users'
                   PROVE  /\ visit'[users'[i].salt].stage = "registered"
                          /\ users'[i].name = visit'[users'[i].salt].name
                          /\ users'[i].hash = Sha256(users'[i].salt, visit'[users'[i].salt].password)
        BY DEF RowsAreRegistrations, Sha256
      <4>1. CASE i = n
        BY <3>1, <3>2, <3>3, <4>1
      <4>2. CASE i \in DOMAIN users
        BY <1>2, <3>1, <3>3, <4>2 DEF RowsAreRegistrations
      <4> QED BY <3>1, <4>1, <4>2
    <3>6. NamesAreUnique'
      BY <3>1, <3>2, <3>4 DEF NamesAreUnique
    <3>7. RegistrationsHaveRows'
      BY <3>1, <3>2, <3>3 DEF RegistrationsHaveRows
    <3>8. TokensMatchRows'
      <4>1. tokens' = tokens
        BY <1>5, SaveEffect
      <4> QED BY <3>1, <4>1 DEF TokensMatchRows, LogsInTo, FindByName
    <3> QED BY <1>1, <3>5, <3>6, <3>7, <3>8
  <2>2. CASE users' = users /\ visit' = [visit EXCEPT ![v].stage = "refused"]
    BY <1>3, <1>5, <2>2, SaveEffect
  <2> QED BY <1>5, <2>1, <2>2, SaveEffect
<1>6. ASSUME NEW n \in Name, NEW p \in Password, NEW i \in Provider, Login(n, p, i)
      PROVE  RegistrationInv'
  <2>1. UNCHANGED <<users, visit>>
    BY <1>6 DEF Login
  <2>2. PICK u \in FindByName(n) :
          /\ LogsInTo(u, n, p)
          /\ tokens' = tokens \cup {[sub |-> u, role |-> users[u].role, name |-> n, password |-> p]}
    BY <1>6 DEF Login
  <2>3. TokensMatchRows'
    BY <2>1, <2>2 DEF TokensMatchRows, LogsInTo, FindByName
  <2>4. RowsAreRegistrations' /\ NamesAreUnique' /\ RegistrationsHaveRows'
    BY <2>1 DEF RowsAreRegistrations, NamesAreUnique, RegistrationsHaveRows
  <2> QED BY <1>1, <2>3, <2>4
<1>7. CASE UNCHANGED accountsVars
  BY <1>1, <1>7
     DEF accountsVars, RowsAreRegistrations, NamesAreUnique, RegistrationsHaveRows,
         TokensMatchRows, LogsInTo, FindByName
<1> QED BY <1>4, <1>5, <1>6, <1>7 DEF AccountsNext

LEMMA RegistrationsSuffice == RegistrationInv => RegisteredCanLogIn
<1> SUFFICES ASSUME RegistrationInv PROVE RegisteredCanLogIn
  OBVIOUS
<1> USE DEF RegistrationInv
<1>1. ASSUME NEW v \in Visitor, visit[v].stage = "registered"
      PROVE  /\ FindByName(visit[v].name) # {}
             /\ \A i \in FindByName(visit[v].name) :
                  users[i].salt = v /\ LogsInTo(i, visit[v].name, visit[v].password)
  <2>1. PICK j \in DOMAIN users : users[j].salt = v
    BY <1>1 DEF RegistrationsHaveRows
  <2>2. users[j].name = visit[v].name /\ users[j].hash = Sha256(v, visit[v].password)
    BY <2>1 DEF RowsAreRegistrations
  <2>3. FindByName(visit[v].name) = {j}
    BY <2>2 DEF FindByName, NamesAreUnique
  <2> QED BY <2>1, <2>2, <2>3 DEF LogsInTo
<1>2. ASSUME NEW t \in tokens
      PROVE  \E v \in Visitor : /\ visit[v].stage = "registered" /\ users[t.sub].salt = v
                                /\ visit[v].name = t.name /\ visit[v].password = t.password
  <2> DEFINE v == users[t.sub].salt
  <2>1. t.sub \in DOMAIN users /\ users[t.sub].name = t.name
        /\ Sha256(v, t.password) = users[t.sub].hash
    BY DEF TokensMatchRows, LogsInTo, FindByName
  <2>2. v \in Visitor
    BY <2>1, RowType
  <2>3. /\ visit[v].stage = "registered" /\ users[t.sub].name = visit[v].name
        /\ users[t.sub].hash = Sha256(v, visit[v].password)
    BY <2>1 DEF RowsAreRegistrations
  <2>4. visit[v].password = t.password
    BY <2>1, <2>3 DEF Sha256
  <2> QED BY <2>1, <2>2, <2>3, <2>4
<1> QED BY <1>1, <1>2 DEF RegisteredCanLogIn

\* However registrations of one name interleave between their look-up and their
\* insert, a name is one visitor's, who can log in, and no token is another's.
THEOREM RegisteredLogsIn == AccountsSpec => []RegisteredCanLogIn
BY RegistrationInit, RegistrationStep, RegistrationsSuffice, PTL DEF AccountsSpec
-----------------------------------------------------------------------------
(* Accounts and purchases. *)

\* Each part of the storefront takes its own steps or rests.
LEMMA StorefrontParts == Spec => PurchaseSpec /\ AccountsSpec
<1>1. Init => PurchaseInit /\ AccountsInit
  BY DEF Init
<1>2. [Next]_vars => [PurchaseNext]_purchaseVars /\ [AccountsNext]_accountsVars
  BY DEF Next, vars, purchaseVars, accountsVars
<1> QED BY <1>1, <1>2, PTL DEF Spec, PurchaseSpec, AccountsSpec

\* Requests, orders, payments, users and tokens keep their types when either
\* of the two parts runs beside the other.
THEOREM StorefrontTypeCorrect == Spec => []TypeOK
<1>1. PurchaseTypeOK /\ AccountsTypeOK => TypeOK
  BY DEF TypeOK
<1> QED BY <1>1, StorefrontParts, PurchaseTypeCorrect, AccountsTypeCorrect, PTL
=============================================================================
