-------------------------- MODULE UserServiceProofs --------------------------
(***************************************************************************)
(* Theorems about UserService, for any requests, codes and roles, and any  *)
(* number of inserts at once.                                              *)
(***************************************************************************)
EXTENDS UserService, FiniteSetTheorems, TLAPS

Requested == \A r \in Requests : pc[r] # "new" => req[r] \in Request

\* The statements a request is about to make are those of its operation.
OnTrack ==
    \A r \in Requests :
      /\ pc[r] = "insertUser" => req[r].op = "insert"
      /\ pc[r] = "updateUser" => req[r].op = "update"
      /\ pc[r] = "deleteRoles" => req[r].op \in {"update", "delete"}
      /\ pc[r] = "insertRoles" => req[r].op \in {"insert", "update"}
      /\ pc[r] = "deleteUser" => req[r].op = "delete"
      /\ pc[r] = "readRoles" => req[r].op = "byCode"
      /\ pc[r] = "commit" => req[r].op \in {"insert", "update", "delete"}

\* What the transaction of r has changed of USER_TABLE, by where it is.
Inserted(r) == req[r].op = "insert" /\ pc[r] \in {"insertRoles", "commit"}
Updated(r) == req[r].op = "update" /\ pc[r] \in {"deleteRoles", "insertRoles", "commit"}
Deleted(r) == req[r].op = "delete" /\ pc[r] = "commit"

Row(r) == [id |-> id[r], code |-> req[r].code, by |-> r]

Workspaces ==
    \A r \in Requests :
      /\ wrote[r] = IF Inserted(r) \/ Updated(r) THEN {Row(r)} ELSE {}
      /\ removed[r] = IF Updated(r) \/ Deleted(r) THEN {id[r]} ELSE {}

\* A row that a transaction has changed is there, and no other transaction
\* has changed it.
Locks ==
    \A r \in Requests :
      /\ removed[r] \subseteq Ids
      /\ \A s \in Requests : s # r => removed[r] \cap removed[s] = {}

\* The userId a request found is that of the code it asked for, or of nobody.
Named ==
    \A r \in Requests :
      pc[r] \notin {"new", "lookup", "done"} /\ req[r].op # "insert" =>
        \A u \in users : u.id = id[r] => u.code = req[r].code

\* userId is a key, and the one an insert took is used by nobody else.
Keys ==
    /\ \A u, v \in users : u.id = v.id => u = v
    /\ \A u \in users : u.id < nextId
    /\ \A r \in Requests :
         /\ id[r] < nextId
         /\ Inserted(r) =>
              /\ id[r] \notin Ids
              /\ \A s \in Requests : s # r => id[s] # id[r]

Inv ==
    /\ TypeOK
    /\ Requested
    /\ OnTrack
    /\ Workspaces
    /\ Locks
    /\ Named
    /\ Keys

-----------------------------------------------------------------------------

\* The rows of the data script: one for each code, numbered apart.
LEMMA SeedRows ==
    ASSUME Init
    PROVE  /\ nextId \in Nat \ {0}
           /\ users \subseteq UserRows
           /\ userRoles \subseteq RoleRows
           /\ \A u \in users : u.id < nextId
           /\ \A u, v \in users : u.id = v.id \/ u.code = v.code => u = v
  <1>1. Cardinality(DOMAIN SeedRoles) \in Nat
    BY RolesAssumption, FS_CardinalityType
  <1>2. PICK number \in [DOMAIN SeedRoles -> 1..Cardinality(DOMAIN SeedRoles)] :
          /\ \A c, d \in DOMAIN SeedRoles : number[c] = number[d] => c = d
          /\ users = {[id |-> number[c], code |-> c, by |-> Script] :
                        c \in DOMAIN SeedRoles}
          /\ userRoles = UNION {{[id |-> number[c], role |-> x, by |-> Script] :
                                   x \in SeedRoles[c]} : c \in DOMAIN SeedRoles}
    BY DEF Init
  <1>3. /\ DOMAIN SeedRoles \subseteq Codes
        /\ \A c \in DOMAIN SeedRoles : SeedRoles[c] \subseteq Roles
    BY RolesAssumption
  <1>4. \A c \in DOMAIN SeedRoles :
          number[c] \in Nat /\ number[c] < Cardinality(DOMAIN SeedRoles) + 1
    BY <1>1, <1>2
  <1>5. users \subseteq UserRows /\ userRoles \subseteq RoleRows
    BY <1>2, <1>3, <1>4 DEF UserRows, RoleRows, Writers
  <1>6. /\ nextId = Cardinality(DOMAIN SeedRoles) + 1
        /\ \A u \in users : u.id < Cardinality(DOMAIN SeedRoles) + 1
    BY <1>2, <1>4 DEF Init
  <1>7. \A u, v \in users : u.id = v.id \/ u.code = v.code => u = v
    BY <1>2
  <1>. QED
    BY <1>1, <1>5, <1>6, <1>7

LEMMA InitInv == Init => Inv
  <1>. SUFFICES ASSUME Init PROVE Inv
    OBVIOUS
  <1>1. TypeOK
    BY SeedRows DEF Init, TypeOK, NoRows, Steps, Answers
  <1>2. Requested /\ OnTrack /\ Workspaces /\ Locks /\ Named
    BY DEF Init, NoRows, Requested, OnTrack, Workspaces, Inserted, Updated, Deleted,
           Locks, Named
  <1>3. Keys
    BY SeedRows DEF Init, Keys, Inserted
  <1>. QED
    BY <1>1, <1>2, <1>3 DEF Inv

\* A call that ends without a commit leaves the tables as they are.
LEMMA RollbackInv ==
    ASSUME Inv, NEW r \in Requests, pc[r] # "new",
           \/ \E a \in Answers : Rollback(r, a)
           \/ /\ removed[r] = {} /\ wrote[r] = {}
              /\ \E a \in Answers : Answer(r, a)
              /\ UNCHANGED <<tables, workspace, req, id>>
    PROVE  Inv'
  <1>. USE DEF Inv
  <1>1. /\ UNCHANGED <<users, userRoles, nextId, req, id>>
        /\ pc' = [pc EXCEPT ![r] = "done"]
        /\ wrote' = [wrote EXCEPT ![r] = {}]
        /\ removed' = [removed EXCEPT ![r] = {}]
        /\ wroteRoles' \in [Requests -> SUBSET RoleRows]
        /\ removedRoles' \in [Requests -> SUBSET RoleRows]
        /\ answer' \in [Requests -> Answers]
    BY DEF Rollback, Answer, tables, workspace, TypeOK
  <1>2. TypeOK'
    BY <1>1 DEF TypeOK, Steps
  <1>3. Requested' /\ OnTrack' /\ Named'
    BY <1>1 DEF TypeOK, Requested, OnTrack, Named
  <1>4. Workspaces' /\ Locks' /\ Keys'
    BY <1>1 DEF TypeOK, Workspaces, Inserted, Updated, Deleted, Row, Locks, Keys, Ids
  <1>. QED
    BY <1>2, <1>3, <1>4

LEMMA ReceiveInv ==
    ASSUME Inv, NEW r \in Requests, NEW q \in Request, Receive(r, q)
    PROVE  Inv'
  <1>. USE DEF Inv
  <1>1. /\ pc[r] = "new"
        /\ UNCHANGED <<users, userRoles, nextId, id, wrote, removed, wroteRoles,
                       removedRoles, answer>>
        /\ req' = [req EXCEPT ![r] = q]
        /\ pc' = [pc EXCEPT ![r] = "lookup"]
    BY DEF Receive, Goto, tables, workspace
  <1>2. TypeOK' /\ Requested' /\ OnTrack' /\ Named'
    BY <1>1 DEF TypeOK, Steps, Requested, OnTrack, Named
  <1>3. Workspaces' /\ Locks' /\ Keys'
    BY <1>1 DEF TypeOK, Workspaces, Inserted, Updated, Deleted, Row, Locks, Keys, Ids
  <1>. QED
    BY <1>2, <1>3

LEMMA LookupInv ==
    ASSUME Inv, NEW r \in Requests, LookupFinds(r) \/ LookupFindsNone(r)
    PROVE  Inv'
  <1>. USE DEF Inv
  <1>1. CASE LookupFinds(r)
    <2>1. PICK u \in WithCode(req[r].code) : id' = [id EXCEPT ![r] = u.id]
      BY <1>1 DEF LookupFinds
    <2>2. /\ pc[r] = "lookup" /\ req[r] \in Request /\ req[r].op # "insert"
          /\ UNCHANGED <<users, userRoles, nextId, req, wrote, removed, wroteRoles,
                         removedRoles, answer>>
          /\ pc' = [pc EXCEPT ![r] = AfterLookup(req[r].op)]
      BY <1>1 DEF LookupFinds, Goto, tables, workspace, Requested
    <2>3. req[r].op \in {"update", "delete", "byCode"}
      BY <2>2 DEF Request
    <2>4. \/ req[r].op = "update" /\ AfterLookup(req[r].op) = "updateUser"
          \/ req[r].op = "delete" /\ AfterLookup(req[r].op) = "deleteRoles"
          \/ req[r].op = "byCode" /\ AfterLookup(req[r].op) = "readRoles"
      BY <2>3 DEF AfterLookup
    <2>5. u \in users /\ u.code = req[r].code /\ u.id \in Nat
      BY <2>1 DEF WithCode, TypeOK, UserRows
    <2>6. TypeOK' /\ Requested' /\ OnTrack'
      BY <2>1, <2>2, <2>4, <2>5 DEF TypeOK, Steps, Requested, OnTrack
    <2>7. Workspaces' /\ Locks'
      BY <2>1, <2>2, <2>4 DEF TypeOK, Workspaces, Inserted, Updated, Deleted, Row, Locks, Ids
    <2>8. Named'
      BY <2>1, <2>2, <2>4, <2>5 DEF TypeOK, Named, Keys
    <2>9. Keys'
      BY <2>1, <2>2, <2>4, <2>5 DEF TypeOK, Keys, Inserted, Ids
    <2>. QED
      BY <2>6, <2>7, <2>8, <2>9
  <1>2. CASE LookupFindsNone(r) /\ req[r].op # "insert"
    <2>1. removed[r] = {} /\ wrote[r] = {}
      BY <1>2 DEF LookupFindsNone, Workspaces, Inserted, Updated, Deleted
    <2>. QED
      BY <1>2, <2>1, RollbackInv DEF LookupFindsNone, Answers
  <1>3. CASE LookupFindsNone(r) /\ req[r].op = "insert"
    <2>1. /\ pc[r] = "lookup"
          /\ UNCHANGED <<users, userRoles, nextId, id, req, wrote, removed, wroteRoles,
                         removedRoles, answer>>
          /\ pc' = [pc EXCEPT ![r] = "insertUser"]
      BY <1>3 DEF LookupFindsNone, Goto, tables, workspace
    <2>2. TypeOK' /\ Requested' /\ OnTrack' /\ Named'
      BY <1>3, <2>1 DEF TypeOK, Steps, Requested, OnTrack, Named
    <2>3. Workspaces' /\ Locks' /\ Keys'
      BY <1>3, <2>1 DEF TypeOK, Workspaces, Inserted, Updated, Deleted, Row, Locks, Keys, Ids
    <2>. QED
      BY <2>2, <2>3
  <1>. QED
    BY <1>1, <1>2, <1>3

\* The key is above every other.
LEMMA InsertUserInv ==
    ASSUME Inv, NEW r \in Requests, InsertUser(r)
    PROVE  Inv'
  <1>. USE DEF Inv
  <1>1. /\ pc[r] = "insertUser" /\ req[r] \in Request /\ req[r].op = "insert"
        /\ id' = [id EXCEPT ![r] = nextId]
        /\ nextId' = nextId + 1
        /\ wrote' = [wrote EXCEPT ![r] =
                       {[id |-> nextId, code |-> req[r].code, by |-> r]}]
        /\ pc' = [pc EXCEPT ![r] = "insertRoles"]
        /\ UNCHANGED <<users, userRoles, req, removed, wroteRoles, removedRoles, answer>>
    BY DEF InsertUser, Goto, OnTrack, Requested
  <1>2. req[r].code \in Codes /\ nextId \in Nat
    BY <1>1 DEF Request, TypeOK
  <1>3. {[id |-> nextId, code |-> req[r].code, by |-> r]} \subseteq UserRows
    BY <1>2 DEF UserRows, Writers
  <1>4. TypeOK'
    BY <1>1, <1>2, <1>3 DEF TypeOK, Steps
  <1>5. Requested' /\ OnTrack' /\ Named'
    BY <1>1 DEF TypeOK, Requested, OnTrack, Named
  <1>6. Workspaces' /\ Locks'
    BY <1>1 DEF TypeOK, Workspaces, Inserted, Updated, Deleted, Row, Locks, Ids
  <1>7. Keys'
    <2>1. \A u \in users : u.id \in Nat
      BY DEF TypeOK, UserRows
    <2>2. \A s \in Requests : id[s] \in Nat
      BY DEF TypeOK
    <2>. QED
      BY <1>1, <1>2, <2>1, <2>2 DEF TypeOK, Keys, Inserted, Ids
  <1>. QED
    BY <1>4, <1>5, <1>6, <1>7

\* A row is changed by one transaction at a time.
LEMMA ChangeRowInv ==
    ASSUME Inv, NEW r \in Requests, UpdateUser(r) \/ DeleteUser(r)
    PROVE  Inv'
  <1>. USE DEF Inv
  <1>1. CASE id[r] \notin Ids
    BY <1>1, RollbackInv DEF UpdateUser, DeleteUser, Answers
  <1>2. CASE id[r] \in Ids
    <2>1. /\ req[r] \in Request
          /\ \A s \in Requests : s # r => id[r] \notin removed[s]
          /\ UNCHANGED <<users, userRoles, nextId, id, req, wroteRoles, removedRoles, answer>>
          /\ removed' = [removed EXCEPT ![r] = {id[r]}]
      BY <1>2 DEF UpdateUser, DeleteUser, RowsLockedFor, Goto, tables, Requested
    <2>2. \/ /\ pc[r] = "updateUser" /\ req[r].op = "update"
             /\ pc' = [pc EXCEPT ![r] = "deleteRoles"]
             /\ wrote' = [wrote EXCEPT ![r] = {Row(r)}]
          \/ /\ pc[r] = "deleteUser" /\ req[r].op = "delete"
             /\ pc' = [pc EXCEPT ![r] = "commit"]
             /\ wrote' = wrote
      BY <1>2 DEF UpdateUser, DeleteUser, Goto, OnTrack, Row
    <2>3. Row(r) \in UserRows
      BY <2>1 DEF Row, UserRows, Writers, Request, TypeOK
    <2>4. TypeOK' /\ Requested' /\ OnTrack' /\ Named'
      BY <2>1, <2>2, <2>3 DEF TypeOK, Steps, Requested, OnTrack, Named
    <2>5. Workspaces'
      BY <2>1, <2>2 DEF TypeOK, Workspaces, Inserted, Updated, Deleted, Row
    <2>6. Locks'
      BY <1>2, <2>1 DEF TypeOK, Locks, Ids
    <2>7. Keys'
      BY <2>1, <2>2 DEF TypeOK, Keys, Inserted, Ids
    <2>. QED
      BY <2>4, <2>5, <2>6, <2>7
  <1>. QED
    BY <1>1, <1>2

LEMMA RolesInv ==
    ASSUME Inv, NEW r \in Requests, DeleteRoles(r) \/ InsertRoles(r)
    PROVE  Inv'
  <1>. USE DEF Inv
  <1>1. CASE InsertRoles(r) /\ ~(req[r].roles \subseteq Roles)
    BY <1>1, RollbackInv DEF InsertRoles, Answers
  <1>2. CASE DeleteRoles(r) \/ req[r].roles \subseteq Roles
    <2>1. /\ UNCHANGED <<users, userRoles, nextId, id, req, wrote, removed, answer>>
          /\ wroteRoles' \in [Requests -> SUBSET RoleRows]
          /\ removedRoles' \in [Requests -> SUBSET RoleRows]
      BY <1>2 DEF DeleteRoles, InsertRoles, Goto, tables, RolesOf, RoleRows, Writers, TypeOK
    <2>2. \/ /\ pc[r] = "deleteRoles" /\ req[r].op = "update"
             /\ pc' = [pc EXCEPT ![r] = "insertRoles"]
          \/ /\ pc[r] = "deleteRoles" /\ req[r].op = "delete"
             /\ pc' = [pc EXCEPT ![r] = "deleteUser"]
          \/ /\ pc[r] = "insertRoles" /\ req[r].op \in {"insert", "update"}
             /\ pc' = [pc EXCEPT ![r] = "commit"]
      BY <1>2 DEF DeleteRoles, InsertRoles, Goto, AfterDeleteRoles, OnTrack
    <2>3. TypeOK' /\ Requested' /\ OnTrack' /\ Named'
      BY <2>1, <2>2 DEF TypeOK, Steps, Requested, OnTrack, Named
    <2>4. Workspaces' /\ Locks' /\ Keys'
      BY <2>1, <2>2 DEF TypeOK, Workspaces, Inserted, Updated, Deleted, Row, Locks, Keys, Ids
    <2>. QED
      BY <2>3, <2>4
  <1>. QED
    BY <1>1, <1>2

\* What a commit does to USER_TABLE.
Committed(r) == {u \in users : u.id \notin removed[r]} \cup wrote[r]

\* A commit adds the row of an insert, replaces the row of an update by one with
\* the same userId and code, or takes the row of a delete away.
LEMMA CommitCases ==
    ASSUME Inv, NEW r \in Requests, Commit(r)
    PROVE  /\ users' = Committed(r)
           /\ Row(r) \in UserRows
           /\ \/ /\ Inserted(r) /\ id[r] \notin Ids
                 /\ Committed(r) = users \cup {Row(r)}
              \/ \E old \in users :
                   /\ old.id = id[r] /\ old.code = req[r].code
                   /\ removed[r] = {id[r]}
                   /\ \A u \in users : u.id = id[r] <=> u = old
                   /\ \/ Updated(r) /\ Committed(r) = (users \ {old}) \cup {Row(r)}
                      \/ Deleted(r) /\ Committed(r) = users \ {old}
  <1>. USE DEF Inv
  <1>1. pc[r] = "commit" /\ req[r] \in Request /\ users' = Committed(r)
    BY DEF Commit, Requested, Committed
  <1>2. Row(r) \in UserRows
    BY <1>1 DEF Row, UserRows, Writers, Request, TypeOK
  <1>3. CASE req[r].op = "insert"
    BY <1>1, <1>2, <1>3 DEF Workspaces, Inserted, Updated, Deleted, Committed, Keys
  <1>4. CASE req[r].op \in {"update", "delete"}
    <2>1. removed[r] = {id[r]}
      BY <1>1, <1>4 DEF Workspaces, Updated, Deleted
    <2>2. PICK old \in users : old.id = id[r]
      BY <2>1 DEF Locks, Ids
    <2>3. /\ old.code = req[r].code
          /\ \A u \in users : u.id = id[r] <=> u = old
      BY <1>1, <1>4, <2>2 DEF Named, Keys
    <2>4. \/ Updated(r) /\ Committed(r) = (users \ {old}) \cup {Row(r)}
          \/ Deleted(r) /\ Committed(r) = users \ {old}
      BY <1>1, <1>4, <2>1, <2>3 DEF Workspaces, Inserted, Updated, Deleted, Committed
    <2>. QED
      BY <1>1, <1>2, <2>1, <2>2, <2>3, <2>4
  <1>. QED
    BY <1>1, <1>3, <1>4 DEF OnTrack

LEMMA CommitInv ==
    ASSUME Inv, NEW r \in Requests, Commit(r)
    PROVE  Inv'
  <1>. USE DEF Inv
  <1>1. /\ pc[r] = "commit" /\ req[r] \in Request
        /\ UNCHANGED <<nextId, id, req>>
        /\ pc' = [pc EXCEPT ![r] = "done"]
        /\ wrote' = [wrote EXCEPT ![r] = {}]
        /\ removed' = [removed EXCEPT ![r] = {}]
        /\ wroteRoles' = [wroteRoles EXCEPT ![r] = {}]
        /\ removedRoles' = [removedRoles EXCEPT ![r] = {}]
        /\ userRoles' \subseteq RoleRows
        /\ answer' \in [Requests -> Answers]
    BY DEF Commit, Answer, Answers, Requested, TypeOK
  <1>2. Row(r).id = id[r] /\ Row(r).code = req[r].code
    BY DEF Row
  <1>3. users' \subseteq UserRows
    BY CommitCases DEF Committed, Workspaces, TypeOK
  <1>4. TypeOK' /\ Requested' /\ OnTrack'
    BY <1>1, <1>3 DEF TypeOK, Steps, Requested, OnTrack
  <1>5. Workspaces'
    BY <1>1 DEF TypeOK, Workspaces, Inserted, Updated, Deleted, Row
  <1>6. ASSUME NEW u \in users'
        PROVE  \/ u \in users /\ u.id \notin removed[r]
               \/ u = Row(r) /\ Inserted(r)
               \/ u = Row(r) /\ Updated(r) /\ removed[r] = {id[r]}
    <2>1. u \in Committed(r)
      BY CommitCases
    <2>2. CASE u \in wrote[r]
      <3>1. u = Row(r) /\ (Inserted(r) \/ Updated(r))
        BY <2>2 DEF Workspaces
      <3>2. Updated(r) => removed[r] = {id[r]}
        BY DEF Workspaces
      <3>. QED
        BY <3>1, <3>2
    <2>. QED
      BY <2>1, <2>2 DEF Committed
  <1>7. Locks'
    <2>1. ASSUME NEW s \in Requests, s # r, NEW i \in removed[s]
          PROVE  i \in Ids'
      <3>1. PICK u \in users : u.id = i
        BY <2>1 DEF Locks, Ids
      <3>2. i \notin removed[r]
        BY <2>1 DEF Locks
      <3>. QED
        BY <3>1, <3>2, CommitCases DEF Committed, Ids
    <2>. QED
      BY <1>1, <2>1 DEF TypeOK, Locks
  <1>8. Named'
    <2>. SUFFICES ASSUME NEW s \in Requests, s # r,
                         pc[s] \notin {"new", "lookup", "done"}, req[s].op # "insert",
                         NEW u \in users', u.id = id[s]
                  PROVE  u.code = req[s].code
      BY <1>1 DEF Named, TypeOK
    <2>1. CASE u \in users
      BY <2>1 DEF Named
    <2>2. CASE u = Row(r) /\ Inserted(r)
      BY <1>2, <2>2 DEF Keys
    <2>3. CASE u = Row(r) /\ Updated(r)
      <3>1. PICK old \in users : old.id = id[r] /\ old.code = req[r].code
        BY <2>3, CommitCases DEF Inserted, Updated
      <3>. QED
        BY <1>2, <2>3, <3>1 DEF Named
    <2>. QED
      BY <1>6, <2>1, <2>2, <2>3
  <1>9. Keys'
    <2>1. \A u, v \in users' : u.id = v.id => u = v
      <3>1. CASE Inserted(r) /\ id[r] \notin Ids /\ users' = users \cup {Row(r)}
        BY <1>2, <3>1 DEF Keys, Ids
      <3>2. CASE \E old \in users : /\ \A u \in users : u.id = id[r] <=> u = old
                                    /\ users' \subseteq (users \ {old}) \cup {Row(r)}
        BY <1>2, <3>2 DEF Keys
      <3>. QED
        BY <3>1, <3>2, CommitCases
    <2>2. \A u \in users' : u.id < nextId
      BY <1>2, <1>6 DEF Keys
    <2>3. ASSUME NEW s \in Requests, Inserted(s), s # r
          PROVE  id[s] \notin Ids'
      BY <1>2, <1>6, <2>3 DEF Keys, Ids
    <2>. QED
      BY <1>1, <2>1, <2>2, <2>3 DEF TypeOK, Keys, Inserted
  <1>. QED
    BY <1>4, <1>5, <1>7, <1>8, <1>9

LEMMA NextInv == Inv /\ [Next]_vars => Inv'
  <1>. SUFFICES ASSUME Inv, [Next]_vars PROVE Inv'
    OBVIOUS
  <1>1. ASSUME NEW r \in Requests,
               \/ LookupRefuses(r) \/ LookupIsAmbiguous(r) \/ LockTimesOut(r)
               \/ StatementFails(r)
        PROVE  Inv'
    BY <1>1, RollbackInv DEF LookupRefuses, LookupIsAmbiguous, LockTimesOut, Waits,
         StatementFails, Answers
  <1>2. ASSUME NEW r \in Requests, ReadRoles(r) PROVE Inv'
    <2>1. removed[r] = {} /\ wrote[r] = {}
      BY <1>2 DEF ReadRoles, Inv, Workspaces, Inserted, Updated, Deleted
    <2>. QED
      BY <1>2, <2>1, RollbackInv DEF ReadRoles, Answers
  <1>3. CASE UNCHANGED vars
    BY <1>3 DEF vars, tables, workspace, Inv, TypeOK, Requested, OnTrack, Workspaces,
         Inserted, Updated, Deleted, Row, Locks, Ids, Named, Keys
  <1>. QED
    BY <1>1, <1>2, <1>3, ReceiveInv, LookupInv, InsertUserInv, ChangeRowInv, RolesInv,
       CommitInv DEF Next, Handle

LEMMA SpecInv == Spec => []Inv
  BY InitInv, NextInv, PTL DEF Spec

-----------------------------------------------------------------------------
\* Theorems.

\* The tables and the transactions have the values the code gives them.
THEOREM TypeCorrect == Spec => []TypeOK
  <1>1. Inv => TypeOK
    BY DEF Inv
  <1>. QED
    BY <1>1, SpecInv, PTL

\* A user that is deleted stays deleted: an update that had looked it up finds
\* no row, and one that had changed the row keeps the delete waiting.
THEOREM DeletedUsersStayDeleted == Spec => DeletedForGood
  <1>1. Inv /\ [Next]_vars =>
          [\A u \in users' : u.id \in Ids \/
             \E r \in Requests : /\ pc[r] = "commit"
                                 /\ req[r].op = "insert"
                                 /\ id[r] = u.id]_vars
    <2>. SUFFICES ASSUME Inv, Next, NEW u \in users', u.id \notin Ids
                  PROVE  \E r \in Requests : /\ pc[r] = "commit"
                                             /\ req[r].op = "insert"
                                             /\ id[r] = u.id
      OBVIOUS
    <2>1. u \notin users
      BY DEF Ids
    <2>2. PICK r \in Requests : Commit(r)
      BY <2>1 DEF Next, Handle, Receive, LookupFinds, LookupFindsNone, LookupRefuses,
           LookupIsAmbiguous, InsertUser, UpdateUser, DeleteRoles, InsertRoles, DeleteUser,
           ReadRoles, LockTimesOut, StatementFails, Rollback, tables
    <2>3. u = Row(r) /\ u.id = id[r]
      <3>1. u \in Committed(r)
        BY <2>2, CommitCases
      <3>2. u \in wrote[r]
        BY <2>1, <3>1 DEF Committed
      <3>3. wrote[r] \subseteq {Row(r)}
        BY DEF Inv, Workspaces
      <3>. QED
        BY <3>2, <3>3 DEF Row
    <2>4. Inserted(r)
      BY <2>2, <2>3, CommitCases DEF Ids
    <2>. QED
      BY <2>2, <2>3, <2>4 DEF Inserted, Commit
  <1>. QED
    BY <1>1, SpecInv, PTL DEF Spec, DeletedForGood

-----------------------------------------------------------------------------
\* How many users a code names.

\* The inserts of c that have looked c up and found nobody.
Passed(c) ==
    {r \in Inserting(c) : pc[r] \in {"insertUser", "insertRoles", "commit"}}

\* The users a code names, with those that are about to be added, are no more
\* than the inserts that run at once.
Bounded ==
    \A c \in Codes :
      /\ Cardinality(Inserting(c)) <= InsertsInFlight
      /\ IsFiniteSet(WithCode(c))
      /\ Cardinality(Passed(c)) + Cardinality(WithCode(c)) <= InsertsInFlight

BoundInv == Inv /\ Bounded

\* One element more.
LEMMA OneMore ==
    ASSUME NEW S, IsFiniteSet(S), NEW x
    PROVE  /\ IsFiniteSet(S \cup {x})
           /\ Cardinality(S) \in Nat
           /\ Cardinality(S \cup {x}) \in Nat
           /\ Cardinality(S \cup {x}) <= Cardinality(S) + 1
  <1>1. Cardinality(S) \in Nat
    BY FS_CardinalityType
  <1>2. /\ IsFiniteSet(S \cup {x})
        /\ \/ Cardinality(S \cup {x}) = Cardinality(S)
           \/ Cardinality(S \cup {x}) = Cardinality(S) + 1
    BY FS_AddElement
  <1>. QED
    BY <1>1, <1>2

LEMMA FiniteRequests ==
    ASSUME NEW c
    PROVE  /\ IsFiniteSet(Inserting(c)) /\ Cardinality(Inserting(c)) \in Nat
           /\ IsFiniteSet(Passed(c)) /\ Cardinality(Passed(c)) \in Nat
           /\ Cardinality(Passed(c)) <= Cardinality(Inserting(c))
  BY RolesAssumption, FS_Subset, FS_CardinalityType DEF Inserting, Passed

LEMMA InitBounded == Init => BoundInv
  <1>. SUFFICES ASSUME Init, NEW c \in Codes
                PROVE  /\ Cardinality(Inserting(c)) <= InsertsInFlight
                       /\ IsFiniteSet(WithCode(c))
                       /\ Cardinality(Passed(c)) + Cardinality(WithCode(c)) <= InsertsInFlight
    BY InitInv DEF BoundInv, Bounded
  <1>1. Inserting(c) = {} /\ Passed(c) = {}
    BY DEF Init, Inserting, Passed
  <1>2. IsFiniteSet(WithCode(c)) /\ Cardinality(WithCode(c)) \in 0..1
    <2>1. CASE WithCode(c) = {}
      BY <2>1, FS_EmptySet
    <2>2. CASE WithCode(c) # {}
      <3>1. PICK u \in WithCode(c) : TRUE
        BY <2>2
      <3>2. WithCode(c) = {u}
        BY <3>1, SeedRows DEF WithCode
      <3>3. IsFiniteSet({u}) /\ Cardinality({u}) = 1
        BY FS_Singleton
      <3>. QED
        BY <3>2, <3>3
    <2>. QED
      BY <2>1, <2>2
  <1>. QED
    BY <1>1, <1>2, FS_EmptySet, InsertsAssumption

\* A step that adds nobody to the inserts that passed, nor to the table.
LEMMA NoMoreBounded ==
    ASSUME BoundInv, NEW c \in Codes,
           Passed(c)' \subseteq Passed(c), WithCode(c)' \subseteq WithCode(c)
    PROVE  /\ IsFiniteSet(WithCode(c)')
           /\ Cardinality(Passed(c)') + Cardinality(WithCode(c)') <= InsertsInFlight
  <1>1. /\ IsFiniteSet(WithCode(c)') /\ Cardinality(WithCode(c)) \in Nat
        /\ Cardinality(WithCode(c)') \in Nat
        /\ Cardinality(WithCode(c)') <= Cardinality(WithCode(c))
    BY FS_Subset, FS_CardinalityType DEF BoundInv, Bounded
  <1>2. /\ Cardinality(Passed(c)) \in Nat /\ Cardinality(Passed(c)') \in Nat
        /\ Cardinality(Passed(c)') <= Cardinality(Passed(c))
    BY FiniteRequests, FS_Subset, FS_CardinalityType
  <1>. QED
    BY <1>1, <1>2, InsertsAssumption DEF BoundInv, Bounded

\* No step but Receive starts an insert.
LEMMA InsertingBounded ==
    ASSUME BoundInv, NEW c \in Codes, Inserting(c)' \subseteq Inserting(c)
    PROVE  Cardinality(Inserting(c)') <= InsertsInFlight
  <1>1. /\ Cardinality(Inserting(c)') \in Nat
        /\ Cardinality(Inserting(c)') <= Cardinality(Inserting(c))
    BY FiniteRequests, FS_Subset, FS_CardinalityType
  <1>. QED
    BY <1>1, FiniteRequests, InsertsAssumption DEF BoundInv, Bounded

LEMMA ReceiveBounded ==
    ASSUME BoundInv, NEW r \in Requests, NEW q \in Request, Receive(r, q)
    PROVE  Bounded'
  <1>. SUFFICES ASSUME NEW c \in Codes
                PROVE  /\ Cardinality(Inserting(c)') <= InsertsInFlight
                       /\ IsFiniteSet(WithCode(c)')
                       /\ Cardinality(Passed(c)') + Cardinality(WithCode(c)')
                            <= InsertsInFlight
    BY DEF Bounded
  <1>1. /\ pc[r] = "new" /\ UNCHANGED users
        /\ req' = [req EXCEPT ![r] = q] /\ pc' = [pc EXCEPT ![r] = "lookup"]
        /\ pc \in [Requests -> Steps] /\ DOMAIN req = Requests
    BY DEF Receive, Goto, tables, BoundInv, Inv, TypeOK
  <1>2. Passed(c)' \subseteq Passed(c) /\ WithCode(c)' = WithCode(c)
    BY <1>1 DEF Passed, Inserting, WithCode
  <1>3. CASE q.op = "insert" /\ q.code = c
    <2>1. Inserting(c)' = Inserting(c) \cup {r} /\ r \notin Inserting(c)
      BY <1>1, <1>3 DEF Inserting
    <2>2. Cardinality(Inserting(c)') = Cardinality(Inserting(c)) + 1
      BY <2>1, FiniteRequests, FS_AddElement
    <2>3. Cardinality(Inserting(c)) < InsertsInFlight
      BY <1>3 DEF Receive
    <2>. QED
      BY <1>2, <2>2, <2>3, NoMoreBounded, FiniteRequests, InsertsAssumption
  <1>4. CASE ~(q.op = "insert" /\ q.code = c)
    <2>1. Inserting(c)' \subseteq Inserting(c)
      BY <1>1, <1>4 DEF Inserting
    <2>. QED
      BY <1>2, <2>1, NoMoreBounded, InsertingBounded
  <1>. QED
    BY <1>3, <1>4

\* Only an insert that finds nobody passes its lookup.
LEMMA PassBounded ==
    ASSUME BoundInv, NEW r \in Requests, LookupFindsNone(r), req[r].op = "insert"
    PROVE  Bounded'
  <1>. SUFFICES ASSUME NEW c \in Codes
                PROVE  /\ Cardinality(Inserting(c)') <= InsertsInFlight
                       /\ IsFiniteSet(WithCode(c)')
                       /\ Cardinality(Passed(c)') + Cardinality(WithCode(c)')
                            <= InsertsInFlight
    BY DEF Bounded
  <1>1. /\ pc[r] = "lookup" /\ WithCode(req[r].code) = {} /\ UNCHANGED <<users, req>>
        /\ pc' = [pc EXCEPT ![r] = "insertUser"] /\ pc \in [Requests -> Steps]
    BY DEF LookupFindsNone, Goto, tables, BoundInv, Inv, TypeOK
  <1>2. Inserting(c)' = Inserting(c) /\ WithCode(c)' = WithCode(c)
    BY <1>1 DEF Inserting, WithCode
  <1>3. CASE c = req[r].code
    <2>1. WithCode(c)' = {}
      BY <1>1, <1>2, <1>3
    <2>2. /\ Cardinality(Passed(c)') \in Nat
          /\ Cardinality(Passed(c)') <= Cardinality(Inserting(c)')
      <3>1. IsFiniteSet(Inserting(c)') /\ Passed(c)' \subseteq Inserting(c)'
        BY <1>2, FiniteRequests DEF Passed
      <3>. QED
        BY <3>1, FS_Subset, FS_CardinalityType
    <2>. QED
      BY <1>2, <2>1, <2>2, FiniteRequests, FS_EmptySet, InsertsAssumption, InsertingBounded
  <1>4. CASE c # req[r].code
    <2>1. Passed(c)' \subseteq Passed(c)
      BY <1>1, <1>4 DEF Passed, Inserting
    <2>. QED
      BY <1>2, <2>1, NoMoreBounded, InsertingBounded
  <1>. QED
    BY <1>3, <1>4

\* A commit turns an insert that passed into a user, replaces a user by one of
\* the same code, or removes one.
LEMMA CommitBounded ==
    ASSUME BoundInv, NEW r \in Requests, Commit(r)
    PROVE  Bounded'
  <1>. SUFFICES ASSUME NEW c \in Codes
                PROVE  /\ Cardinality(Inserting(c)') <= InsertsInFlight
                       /\ IsFiniteSet(WithCode(c)')
                       /\ Cardinality(Passed(c)') + Cardinality(WithCode(c)')
                            <= InsertsInFlight
    BY DEF Bounded
  <1>1. /\ pc[r] = "commit" /\ UNCHANGED req
        /\ pc' = [pc EXCEPT ![r] = "done"] /\ pc \in [Requests -> Steps]
        /\ Inv
    BY DEF Commit, Answer, BoundInv, Inv, TypeOK
  <1>2. Inserting(c)' \subseteq Inserting(c) /\ Passed(c)' \subseteq Passed(c) \ {r}
    BY <1>1 DEF Inserting, Passed
  <1>3. Row(r).code = req[r].code /\ Row(r).id = id[r]
    BY DEF Row
  <1>4. IsFiniteSet(WithCode(c)) /\ Cardinality(WithCode(c)) \in Nat
    BY FS_CardinalityType DEF BoundInv, Bounded
  <1>5. CASE c = req[r].code /\ Inserted(r) /\ users' = users \cup {Row(r)}
    <2>1. WithCode(c)' = WithCode(c) \cup {Row(r)}
      BY <1>3, <1>5 DEF WithCode
    <2>2. /\ IsFiniteSet(WithCode(c)') /\ Cardinality(WithCode(c)') \in Nat
          /\ Cardinality(WithCode(c)') <= Cardinality(WithCode(c)) + 1
      BY <1>4, <2>1, OneMore
    <2>3. r \in Passed(c)
      BY <1>1, <1>5 DEF Passed, Inserting, Inserted
    <2>4. /\ Cardinality(Passed(c)') \in Nat /\ Cardinality(Passed(c)) \in Nat
          /\ Cardinality(Passed(c)') <= Cardinality(Passed(c)) - 1
      <3>1. /\ IsFiniteSet(Passed(c) \ {r})
            /\ Cardinality(Passed(c) \ {r}) = Cardinality(Passed(c)) - 1
        BY <2>3, FiniteRequests, FS_RemoveElement
      <3>. QED
        BY <1>2, <3>1, FiniteRequests, FS_Subset, FS_CardinalityType
    <2>. QED
      BY <1>2, <1>4, <2>2, <2>4, InsertingBounded, InsertsAssumption DEF BoundInv, Bounded
  <1>6. ASSUME NEW old \in users, c = req[r].code, old.code = c,
               users' = (users \ {old}) \cup {Row(r)}
        PROVE  /\ Cardinality(Inserting(c)') <= InsertsInFlight
               /\ IsFiniteSet(WithCode(c)')
               /\ Cardinality(Passed(c)') + Cardinality(WithCode(c)') <= InsertsInFlight
    <2>1. WithCode(c)' = (WithCode(c) \ {old}) \cup {Row(r)} /\ old \in WithCode(c)
      BY <1>3, <1>6 DEF WithCode
    <2>2. /\ IsFiniteSet(WithCode(c) \ {old})
          /\ Cardinality(WithCode(c) \ {old}) = Cardinality(WithCode(c)) - 1
      BY <1>4, <2>1, FS_RemoveElement
    <2>3. /\ IsFiniteSet(WithCode(c)') /\ Cardinality(WithCode(c)') \in Nat
          /\ Cardinality(WithCode(c)') <= Cardinality(WithCode(c) \ {old}) + 1
      BY <2>1, <2>2, OneMore
    <2>4. /\ Cardinality(Passed(c)') \in Nat /\ Cardinality(Passed(c)) \in Nat
          /\ Cardinality(Passed(c)') <= Cardinality(Passed(c))
      BY <1>2, FiniteRequests, FS_Subset, FS_CardinalityType
    <2>. QED
      BY <1>2, <1>4, <2>2, <2>3, <2>4, InsertingBounded, InsertsAssumption
         DEF BoundInv, Bounded
  <1>7. CASE WithCode(c)' \subseteq WithCode(c)
    BY <1>2, <1>7, NoMoreBounded, InsertingBounded
  <1>8. \/ c = req[r].code /\ Inserted(r) /\ users' = users \cup {Row(r)}
        \/ \E old \in users : /\ c = req[r].code /\ old.code = c
                              /\ users' = (users \ {old}) \cup {Row(r)}
        \/ WithCode(c)' \subseteq WithCode(c)
    <2>1. CASE Inserted(r) /\ users' = users \cup {Row(r)}
      BY <1>3, <2>1 DEF WithCode
    <2>2. ASSUME NEW old \in users, old.code = req[r].code,
                 users' = (users \ {old}) \cup {Row(r)}
          PROVE  \/ c = req[r].code
                 \/ WithCode(c)' \subseteq WithCode(c)
      BY <1>3, <2>2 DEF WithCode
    <2>3. ASSUME NEW old \in users, users' = users \ {old}
          PROVE  WithCode(c)' \subseteq WithCode(c)
      BY <2>3 DEF WithCode
    <2>. QED
      BY <1>1, <2>1, <2>2, <2>3, CommitCases
  <1>. QED
    BY <1>5, <1>6, <1>7, <1>8

\* Every other step leaves the users alone, and passes no lookup.
LEMMA OthersBounded ==
    ASSUME BoundInv, UNCHANGED users,
           \A s \in Requests :
             /\ pc'[s] \notin {"new", "done"} =>
                  pc[s] \notin {"new", "done"} /\ req'[s] = req[s]
             /\ pc'[s] \in {"insertUser", "insertRoles", "commit"} /\ req[s].op = "insert" =>
                  pc[s] \in {"insertUser", "insertRoles", "commit"}
    PROVE  Bounded'
  <1>1. ASSUME NEW c \in Codes
        PROVE  /\ Inserting(c)' \subseteq Inserting(c)
               /\ Passed(c)' \subseteq Passed(c)
               /\ WithCode(c)' = WithCode(c)
    BY DEF Inserting, Passed, WithCode
  <1>. QED
    BY <1>1, NoMoreBounded, InsertingBounded DEF Bounded

LEMMA NextBounded == BoundInv /\ [Next]_vars => BoundInv'
  <1>. SUFFICES ASSUME BoundInv, [Next]_vars PROVE Bounded'
    BY NextInv DEF BoundInv
  <1>1. ASSUME NEW r \in Requests,
               \/ LookupFinds(r) \/ (LookupFindsNone(r) /\ req[r].op # "insert")
               \/ LookupRefuses(r) \/ LookupIsAmbiguous(r) \/ InsertUser(r)
               \/ UpdateUser(r) \/ DeleteRoles(r) \/ InsertRoles(r) \/ DeleteUser(r)
               \/ ReadRoles(r) \/ LockTimesOut(r) \/ StatementFails(r)
        PROVE  Bounded'
    <2>1. UNCHANGED <<users, req>>
      BY <1>1 DEF LookupFinds, LookupFindsNone, LookupRefuses, LookupIsAmbiguous, InsertUser,
           UpdateUser, DeleteRoles, InsertRoles, DeleteUser, ReadRoles, LockTimesOut,
           StatementFails, Rollback, tables
    <2>2. /\ pc[r] \notin {"new", "done"}
          /\ \E step : pc' = [pc EXCEPT ![r] = step]
      BY <1>1 DEF LookupFinds, LookupFindsNone, LookupRefuses, LookupIsAmbiguous, InsertUser,
           UpdateUser, DeleteRoles, InsertRoles, DeleteUser, ReadRoles, LockTimesOut, Waits,
           StatementFails, Rollback, Goto, Answer
    <2>3. pc'[r] \in {"insertUser", "insertRoles", "commit"} /\ req[r].op = "insert" =>
            pc[r] \in {"insertUser", "insertRoles", "commit"}
      <3>. req[r] \in Request /\ pc \in [Requests -> Steps]
        BY <2>2 DEF BoundInv, Inv, Requested, TypeOK
      <3>. QED
        BY <1>1 DEF LookupFinds, LookupFindsNone, LookupRefuses, LookupIsAmbiguous,
             InsertUser, UpdateUser, DeleteRoles, InsertRoles, DeleteUser, ReadRoles,
             LockTimesOut, StatementFails, Rollback, Goto, Answer, AfterDeleteRoles,
             BoundInv, Inv, OnTrack
    <2>. QED
      BY <2>1, <2>2, <2>3, OthersBounded DEF BoundInv, Inv, TypeOK
  <1>2. CASE UNCHANGED vars
    BY <1>2, OthersBounded DEF vars, tables
  <1>3. ASSUME NEW r \in Requests, LookupFindsNone(r) /\ req[r].op = "insert"
        PROVE  Bounded'
    BY <1>3, PassBounded
  <1>4. ASSUME NEW r \in Requests, Commit(r)
        PROVE  Bounded'
    BY <1>4, CommitBounded
  <1>5. ASSUME NEW r \in Requests, NEW q \in Request, Receive(r, q)
        PROVE  Bounded'
    BY <1>5, ReceiveBounded
  <1>6. ASSUME NEW r \in Requests, Handle(r) \/ StatementFails(r)
        PROVE  Bounded'
    <2>1. CASE LookupFindsNone(r)
      BY <1>1, <1>3, <2>1
    <2>2. CASE Commit(r)
      BY <1>4, <2>2
    <2>3. CASE ~LookupFindsNone(r) /\ ~Commit(r)
      BY <1>1, <1>6, <2>3 DEF Handle
    <2>. QED
      BY <2>1, <2>2, <2>3
  <1>. QED
    BY <1>2, <1>5, <1>6 DEF Next

\* However inserts race, a code names no more users than inserts of it run at
\* once.
THEOREM DuplicatesAreBounded == Spec => []DuplicateBound
  <1>1. BoundInv => DuplicateBound
    <2>. SUFFICES ASSUME BoundInv, NEW c \in Codes
                  PROVE  Cardinality(WithCode(c)) <= InsertsInFlight
      BY DEF DuplicateBound
    <2>. QED
      BY FiniteRequests, FS_CardinalityType, InsertsAssumption DEF BoundInv, Bounded
  <1>. QED
    BY <1>1, InitBounded, NextBounded, PTL DEF Spec

\* If the administrators insert one user of a code at a time, a code names one
\* user, whatever else they do at once.
THEOREM CodesAreUnique ==
    ASSUME InsertsInFlight = 1
    PROVE  Spec => []UniqueCodes
  <1>1. BoundInv => UniqueCodes
    <2>. SUFFICES ASSUME BoundInv, NEW u \in users, NEW v \in users, u.code = v.code
                  PROVE  u = v
      BY DEF UniqueCodes
    <2>1. u.code \in Codes
      BY DEF BoundInv, Inv, TypeOK, UserRows
    <2>2. IsFiniteSet(WithCode(u.code)) /\ Cardinality(WithCode(u.code)) <= 1
      BY <2>1, FiniteRequests, FS_CardinalityType DEF BoundInv, Bounded
    <2>3. {u, v} \subseteq WithCode(u.code)
      BY DEF WithCode
    <2>4. ASSUME u # v PROVE FALSE
      <3>1. Cardinality({u, v}) = 2
        <4>1. IsFiniteSet({u}) /\ Cardinality({u}) = 1
          BY FS_Singleton
        <4>2. v \notin {u}
          BY <2>4
        <4>3. Cardinality({u} \cup {v}) = Cardinality({u}) + 1
          BY <4>1, <4>2, FS_AddElement
        <4>4. {u, v} = {u} \cup {v}
          OBVIOUS
        <4>. QED
          BY <4>1, <4>3, <4>4
      <3>2. Cardinality({u, v}) <= Cardinality(WithCode(u.code))
        BY <2>2, <2>3, FS_Subset
      <3>. QED
        BY <2>2, <3>1, <3>2, FS_CardinalityType
    <2>. QED
      BY <2>4
  <1>. QED
    BY <1>1, InitBounded, NextBounded, PTL DEF Spec


-----------------------------------------------------------------------------
\* The roles of a user are of one writer.  The row of the user is what protects
\* them: an update changes the row before it touches the roles, and a delete,
\* which takes the roles first, must have the row to commit.

\* The rows that the transaction of r inserts into USER_ROLE_TABLE.
RoleRowsBy(r) == {[id |-> id[r], role |-> x, by |-> r] : x \in req[r].roles}

\* A transaction works on the roles of the user it works on.  Once an update
\* has removed them nobody else changes them, because it has the row of the user;
\* and an insert finds none.
RoleWorkOf(r) ==
    /\ wroteRoles[r] = IF pc[r] = "commit" /\ req[r].op \in {"insert", "update"}
                         THEN RoleRowsBy(r) ELSE {}
    /\ \A row \in removedRoles[r] : row.id = id[r]
    /\ removedRoles[r] # {} => pc[r] \in {"insertRoles", "deleteUser", "commit"}
    /\ req[r].op = "insert" => removedRoles[r] = {}
    /\ req[r].op = "update" /\ pc[r] \in {"insertRoles", "commit"} =>
         removedRoles[r] = RolesOf(id[r])
    /\ Inserted(r) => RolesOf(id[r]) = {}
    /\ \A u \in users : u.by = r => pc[r] = "done"

RoleWork ==
    /\ \A r \in Requests : RoleWorkOf(r)
    /\ \A row \in userRoles : row.id < nextId

OneWriterInv == Inv /\ RoleWork /\ RolesOfOneWriter

\* The rows of the data script are apart, and its writer makes no request.
LEMMA InitRoles == Init => OneWriterInv
  <1>. SUFFICES ASSUME Init PROVE RoleWork /\ RolesOfOneWriter
    BY InitInv DEF OneWriterInv
  <1>1. PICK number \in [DOMAIN SeedRoles -> 1..Cardinality(DOMAIN SeedRoles)] :
          /\ \A c, d \in DOMAIN SeedRoles : number[c] = number[d] => c = d
          /\ users = {[id |-> number[c], code |-> c, by |-> Script] :
                        c \in DOMAIN SeedRoles}
          /\ userRoles = UNION {{[id |-> number[c], role |-> x, by |-> Script] :
                                   x \in SeedRoles[c]} : c \in DOMAIN SeedRoles}
    BY DEF Init
  <1>2. \A u \in users : u.by = Script
    BY <1>1
  <1>3. \A row \in userRoles : row.id < nextId
    <2>1. Cardinality(DOMAIN SeedRoles) \in Nat
      BY RolesAssumption, FS_CardinalityType
    <2>2. \A c \in DOMAIN SeedRoles : number[c] < nextId
      BY <1>1, <2>1 DEF Init
    <2>. QED
      BY <1>1, <2>2
  <1>4. RoleWork
    BY <1>2, <1>3, RolesAssumption DEF Init, NoRows, RoleWork, RoleWorkOf, Inserted
  <1>5. ASSUME NEW u \in users
        PROVE  RolesOf(u.id) = {[id |-> u.id, role |-> x, by |-> Script] :
                                  x \in SeedRoles[u.code]}
    <2>1. PICK c \in DOMAIN SeedRoles : u = [id |-> number[c], code |-> c, by |-> Script]
      BY <1>1, <1>5
    <2>2. u.id = number[c] /\ u.code = c
      BY <2>1
    <2>3. ASSUME NEW row \in RolesOf(u.id)
          PROVE  row \in {[id |-> u.id, role |-> x, by |-> Script] : x \in SeedRoles[c]}
      <3>1. row \in userRoles /\ row.id = number[c]
        BY <2>2, <2>3 DEF RolesOf
      <3>2. PICK d \in DOMAIN SeedRoles :
              row \in {[id |-> number[d], role |-> x, by |-> Script] : x \in SeedRoles[d]}
        BY <1>1, <3>1
      <3>3. d = c
        BY <1>1, <3>1, <3>2
      <3>. QED
        BY <2>2, <3>2, <3>3
    <2>4. ASSUME NEW x \in SeedRoles[c]
          PROVE  [id |-> u.id, role |-> x, by |-> Script] \in RolesOf(u.id)
      BY <1>1, <2>2, <2>4 DEF RolesOf
    <2>. QED
      BY <2>2, <2>3, <2>4
  <1>6. RolesOfOneWriter
    BY <1>2, <1>5 DEF RolesOfOneWriter
  <1>. QED
    BY <1>4, <1>6

\* The other requests have no part in a step.
Alone(r) ==
    \A s \in Requests : s # r =>
      /\ pc'[s] = pc[s] /\ req'[s] = req[s] /\ id'[s] = id[s]
      /\ wroteRoles'[s] = wroteRoles[s] /\ removedRoles'[s] = removedRoles[s]

\* A step that commits nothing.
LEMMA PrivateRoles ==
    ASSUME OneWriterInv, NEW r \in Requests, UNCHANGED <<users, userRoles>>,
           nextId' = nextId \/ nextId' = nextId + 1,
           pc[r] # "done", pc[r] # "new" => req'[r] = req[r],
           Alone(r), RoleWorkOf(r)'
    PROVE  RoleWork' /\ RolesOfOneWriter'
  <1>. USE DEF OneWriterInv
  <1>1. \A u \in users : u.by # r
    BY DEF RoleWork, RoleWorkOf
  <1>2. \A row \in userRoles : row.id < nextId'
    <2>1. \A row \in userRoles : row.id \in Nat
      BY DEF Inv, TypeOK, RoleRows
    <2>2. nextId \in Nat
      BY DEF Inv, TypeOK
    <2>. QED
      BY <2>1, <2>2 DEF RoleWork
  <1>3. RoleWork'
    <2>1. ASSUME NEW s \in Requests, s # r
          PROVE  RoleWorkOf(s)'
      <3>1. /\ pc'[s] = pc[s] /\ req'[s] = req[s] /\ id'[s] = id[s]
            /\ wroteRoles'[s] = wroteRoles[s] /\ removedRoles'[s] = removedRoles[s]
        BY <2>1 DEF Alone
      <3>2. /\ RoleRowsBy(s)' = RoleRowsBy(s) /\ RolesOf(id[s])' = RolesOf(id[s])
            /\ Inserted(s)' = Inserted(s)
        BY <3>1 DEF RoleRowsBy, RolesOf, Inserted
      <3>. QED
        BY <3>1, <3>2 DEF RoleWork, RoleWorkOf
    <2>. QED
      BY <1>2, <2>1 DEF RoleWork
  <1>4. \A u \in users : u.by # Script => u.by \in Requests /\ u.by # r
    BY <1>1 DEF Inv, TypeOK, UserRows, Writers
  <1>5. RolesOfOneWriter'
    BY <1>4 DEF RolesOfOneWriter, RolesOf, Alone
  <1>. QED
    BY <1>3, <1>5

LEMMA RollbackRoles ==
    ASSUME OneWriterInv, NEW r \in Requests, pc[r] \notin {"new", "done"},
           \/ \E a : Rollback(r, a)
           \/ /\ pc[r] \notin {"insertRoles", "deleteUser", "commit"}
              /\ \E a : Answer(r, a)
              /\ UNCHANGED <<tables, workspace, req, id>>
    PROVE  RoleWork' /\ RolesOfOneWriter'
  <1>1. /\ UNCHANGED <<users, userRoles, nextId, req, id>>
        /\ pc' = [pc EXCEPT ![r] = "done"]
        /\ wroteRoles' \in {wroteRoles, [wroteRoles EXCEPT ![r] = {}]}
        /\ removedRoles' \in {removedRoles, [removedRoles EXCEPT ![r] = {}]}
    BY DEF Rollback, Answer, tables, workspace
  <1>2. wroteRoles'[r] = {} /\ removedRoles'[r] = {}
    BY DEF Rollback, Answer, tables, workspace, OneWriterInv, RoleWork, RoleWorkOf, Inv, TypeOK
  <1>3. /\ pc \in [Requests -> Steps] /\ DOMAIN req = Requests /\ nextId \in Nat
        /\ DOMAIN wroteRoles = Requests /\ DOMAIN removedRoles = Requests
    BY DEF OneWriterInv, Inv, TypeOK
  <1>8. Alone(r)
    BY <1>1, <1>2, <1>3 DEF Alone
  <1>9. \A u \in users : u.by # r
    BY <1>1 DEF OneWriterInv, RoleWork, RoleWorkOf
  <1>10. RoleWorkOf(r)'
    BY <1>1, <1>2, <1>3, <1>9 DEF RoleWorkOf, Inserted, RolesOf
  <1>. QED
    BY <1>1, <1>3, <1>8, <1>10, PrivateRoles

LEMMA ReceiveRoles ==
    ASSUME OneWriterInv, NEW r \in Requests, NEW q \in Request, Receive(r, q)
    PROVE  RoleWork' /\ RolesOfOneWriter'
  <1>1. /\ pc[r] = "new"
        /\ UNCHANGED <<users, userRoles, nextId, id, wroteRoles, removedRoles>>
        /\ req' = [req EXCEPT ![r] = q] /\ pc' = [pc EXCEPT ![r] = "lookup"]
    BY DEF Receive, Goto, tables, workspace
  <1>2. wroteRoles[r] = {} /\ removedRoles[r] = {}
    BY <1>1 DEF OneWriterInv, RoleWork, RoleWorkOf
  <1>3. pc \in [Requests -> Steps] /\ DOMAIN req = Requests /\ nextId \in Nat
    BY DEF OneWriterInv, Inv, TypeOK
  <1>8. Alone(r)
    BY <1>1, <1>2, <1>3 DEF Alone
  <1>9. \A u \in users : u.by # r
    BY <1>1 DEF OneWriterInv, RoleWork, RoleWorkOf
  <1>10. RoleWorkOf(r)'
    BY <1>1, <1>2, <1>3, <1>9 DEF RoleWorkOf, Inserted, RolesOf
  <1>. QED
    BY <1>1, <1>3, <1>8, <1>10, PrivateRoles

\* The statements before the roles are looked at.
LEMMA FirstStatementsRoles ==
    ASSUME OneWriterInv, NEW r \in Requests,
           \/ LookupFinds(r)
           \/ LookupFindsNone(r) /\ req[r].op = "insert"
           \/ InsertUser(r)
           \/ UpdateUser(r) /\ id[r] \in Ids
    PROVE  RoleWork' /\ RolesOfOneWriter'
  <1>1. /\ UNCHANGED <<users, userRoles, req, wroteRoles, removedRoles>>
        /\ pc[r] \in {"lookup", "insertUser", "updateUser"}
        /\ \E step \in {"insertUser", "updateUser", "deleteRoles", "readRoles", "insertRoles"} :
             /\ pc' = [pc EXCEPT ![r] = step]
             /\ step = "insertRoles" => req[r].op = "insert" /\ id'[r] = nextId
    <2>1. req[r].op # "insert" /\ pc[r] # "new" => req[r].op \in {"update", "delete", "byCode"}
      BY DEF OneWriterInv, Inv, Requested, Request
    <2>2. pc[r] = "insertUser" => req[r].op = "insert"
      BY DEF OneWriterInv, Inv, OnTrack
    <2>. QED
      BY <2>1, <2>2 DEF LookupFinds, LookupFindsNone, InsertUser, UpdateUser, AfterLookup,
           Goto, tables, workspace, OneWriterInv, Inv, TypeOK
  <1>2. wroteRoles[r] = {} /\ removedRoles[r] = {}
    BY <1>1 DEF OneWriterInv, RoleWork, RoleWorkOf
  <1>3. /\ nextId' = nextId \/ nextId' = nextId + 1
        /\ \A s \in Requests : s # r => id'[s] = id[s]
        /\ pc \in [Requests -> Steps] /\ DOMAIN req = Requests
    BY DEF LookupFinds, LookupFindsNone, InsertUser, UpdateUser, tables, OneWriterInv, Inv,
           TypeOK
  <1>4. RolesOf(nextId) = {}
    BY DEF OneWriterInv, RoleWork, RoleWorkOf, RolesOf, Inv, TypeOK, RoleRows
  <1>8. Alone(r)
    BY <1>1, <1>2, <1>3, <1>4 DEF Alone
  <1>9. \A u \in users : u.by # r
    BY <1>1 DEF OneWriterInv, RoleWork, RoleWorkOf
  <1>10. RoleWorkOf(r)'
    <2>1. PICK step \in {"insertUser", "updateUser", "deleteRoles", "readRoles", "insertRoles"} :
            /\ pc' = [pc EXCEPT ![r] = step]
            /\ step = "insertRoles" => req[r].op = "insert" /\ id'[r] = nextId
      BY <1>1
    <2>2. pc'[r] = step /\ wroteRoles'[r] = {} /\ removedRoles'[r] = {} /\ req'[r] = req[r]
      BY <1>1, <1>2, <1>3, <2>1
    <2>3. Inserted(r)' => RolesOf(id[r])' = {}
      BY <1>1, <1>4, <2>1, <2>2 DEF Inserted, RolesOf
    <2>. QED
      BY <1>1, <1>9, <2>1, <2>2, <2>3 DEF RoleWorkOf
  <1>. QED
    BY <1>1, <1>3, <1>8, <1>10, PrivateRoles

LEMMA DeleteRolesRoles ==
    ASSUME OneWriterInv, NEW r \in Requests, DeleteRoles(r)
    PROVE  RoleWork' /\ RolesOfOneWriter'
  <1>1. /\ UNCHANGED <<users, userRoles, nextId, id, req, wroteRoles>>
        /\ pc[r] = "deleteRoles"
        /\ pc' = [pc EXCEPT ![r] = AfterDeleteRoles(req[r].op)]
        /\ removedRoles' = [removedRoles EXCEPT ![r] = RolesOf(id[r])]
    BY DEF DeleteRoles, Goto, tables
  <1>2. \/ req[r].op = "update" /\ AfterDeleteRoles(req[r].op) = "insertRoles"
        \/ req[r].op = "delete" /\ AfterDeleteRoles(req[r].op) = "deleteUser"
    BY <1>1 DEF OneWriterInv, Inv, OnTrack, AfterDeleteRoles
  <1>3. wroteRoles[r] = {} /\ \A row \in RolesOf(id[r]) : row.id = id[r]
    BY <1>1 DEF OneWriterInv, RoleWork, RoleWorkOf, RolesOf
  <1>4. /\ pc \in [Requests -> Steps] /\ DOMAIN req = Requests /\ nextId \in Nat
        /\ DOMAIN removedRoles = Requests
    BY DEF OneWriterInv, Inv, TypeOK
  <1>8. Alone(r)
    BY <1>1, <1>2, <1>3, <1>4 DEF Alone
  <1>9. \A u \in users : u.by # r
    BY <1>1 DEF OneWriterInv, RoleWork, RoleWorkOf
  <1>10. RoleWorkOf(r)'
    BY <1>1, <1>2, <1>3, <1>4, <1>9 DEF RoleWorkOf, Inserted, RolesOf
  <1>. QED
    BY <1>1, <1>3, <1>8, <1>10, PrivateRoles

LEMMA InsertRolesRoles ==
    ASSUME OneWriterInv, NEW r \in Requests, InsertRoles(r), req[r].roles \subseteq Roles
    PROVE  RoleWork' /\ RolesOfOneWriter'
  <1>1. /\ UNCHANGED <<users, userRoles, nextId, id, req, removedRoles>>
        /\ pc[r] = "insertRoles"
        /\ pc' = [pc EXCEPT ![r] = "commit"]
        /\ wroteRoles' = [wroteRoles EXCEPT ![r] = RoleRowsBy(r)]
    BY DEF InsertRoles, Goto, tables, RoleRowsBy
  <1>2. req[r].op \in {"insert", "update"}
    BY <1>1 DEF OneWriterInv, Inv, OnTrack
  <1>3. /\ pc \in [Requests -> Steps] /\ DOMAIN req = Requests /\ nextId \in Nat
        /\ DOMAIN wroteRoles = Requests
    BY DEF OneWriterInv, Inv, TypeOK
  <1>4. /\ \A row \in removedRoles[r] : row.id = id[r]
        /\ req[r].op = "insert" => removedRoles[r] = {} /\ RolesOf(id[r]) = {}
        /\ req[r].op = "update" => removedRoles[r] = RolesOf(id[r])
    BY <1>1 DEF OneWriterInv, RoleWork, RoleWorkOf, Inserted
  <1>5. RoleRowsBy(r)' = RoleRowsBy(r)
    BY <1>1 DEF RoleRowsBy
  <1>8. Alone(r)
    BY <1>1, <1>2, <1>3, <1>4, <1>5 DEF Alone
  <1>9. \A u \in users : u.by # r
    BY <1>1 DEF OneWriterInv, RoleWork, RoleWorkOf
  <1>10. RoleWorkOf(r)'
    BY <1>1, <1>2, <1>3, <1>4, <1>5, <1>9 DEF RoleWorkOf, Inserted, RolesOf
  <1>. QED
    BY <1>1, <1>3, <1>8, <1>10, PrivateRoles

LEMMA DeleteUserRoles ==
    ASSUME OneWriterInv, NEW r \in Requests, DeleteUser(r), id[r] \in Ids
    PROVE  RoleWork' /\ RolesOfOneWriter'
  <1>1. /\ UNCHANGED <<users, userRoles, nextId, id, req, wroteRoles, removedRoles>>
        /\ pc[r] = "deleteUser" /\ req[r].op = "delete"
        /\ pc' = [pc EXCEPT ![r] = "commit"]
    BY DEF DeleteUser, Goto, tables, OneWriterInv, Inv, OnTrack
  <1>2. wroteRoles[r] = {} /\ \A row \in removedRoles[r] : row.id = id[r]
    BY <1>1 DEF OneWriterInv, RoleWork, RoleWorkOf
  <1>3. pc \in [Requests -> Steps] /\ DOMAIN req = Requests /\ nextId \in Nat
    BY DEF OneWriterInv, Inv, TypeOK
  <1>8. Alone(r)
    BY <1>1, <1>2, <1>3 DEF Alone
  <1>9. \A u \in users : u.by # r
    BY <1>1 DEF OneWriterInv, RoleWork, RoleWorkOf
  <1>10. RoleWorkOf(r)'
    BY <1>1, <1>2, <1>3, <1>9 DEF RoleWorkOf, Inserted, RolesOf
  <1>. QED
    BY <1>1, <1>3, <1>8, <1>10, PrivateRoles

\* A commit changes the roles of one user only, and gives it those of its own
\* request.
LEMMA CommitRoles ==
    ASSUME OneWriterInv, NEW r \in Requests, Commit(r)
    PROVE  RoleWork' /\ RolesOfOneWriter'
  <1>. USE DEF OneWriterInv
  <1>1. /\ pc[r] = "commit" /\ UNCHANGED <<nextId, req, id>>
        /\ pc' = [pc EXCEPT ![r] = "done"] /\ pc \in [Requests -> Steps]
        /\ wroteRoles' = [wroteRoles EXCEPT ![r] = {}] /\ DOMAIN wroteRoles = Requests
        /\ removedRoles' = [removedRoles EXCEPT ![r] = {}] /\ DOMAIN removedRoles = Requests
        /\ userRoles' = (userRoles \ removedRoles[r]) \cup wroteRoles[r]
        /\ req[r].op \in {"insert", "update", "delete"}
    BY DEF Commit, Answer, Inv, OnTrack, TypeOK
  <1>2. /\ \A row \in removedRoles[r] \cup wroteRoles[r] : row.id = id[r]
        /\ \A row \in wroteRoles[r] : row.by = r
    BY <1>1 DEF RoleWork, RoleWorkOf, RoleRowsBy
  <1>3. ASSUME NEW i, i # id[r]
        PROVE  RolesOf(i)' = RolesOf(i)
    BY <1>1, <1>2, <1>3 DEF RolesOf
  <1>4. req[r].op \in {"insert", "update"} => RolesOf(id[r])' = RoleRowsBy(r)
    <2>. SUFFICES ASSUME req[r].op \in {"insert", "update"}
                  PROVE  RolesOf(id[r])' = RoleRowsBy(r)
      OBVIOUS
    <2>1. RolesOf(id[r]) = removedRoles[r] /\ wroteRoles[r] = RoleRowsBy(r)
      BY <1>1 DEF RoleWork, RoleWorkOf, Inserted
    <2>2. \A row \in RoleRowsBy(r) : row.id = id[r]
      BY DEF RoleRowsBy
    <2>. QED
      BY <1>1, <2>1, <2>2 DEF RolesOf
  <1>5. ASSUME NEW u \in users'
        PROVE  \/ u \in users /\ u.id # id[r]
               \/ u = Row(r) /\ req[r].op \in {"insert", "update"}
    <2>1. u \in Committed(r)
      BY <1>5, CommitCases
    <2>2. CASE u \in wrote[r]
      BY <2>2 DEF Inv, Workspaces, Inserted, Updated
    <2>3. CASE u \in users /\ u.id \notin removed[r]
      <3>1. u.id # id[r]
        <4>1. CASE req[r].op = "insert"
          BY <1>1, <2>3, <4>1 DEF Inv, Keys, Inserted, Ids
        <4>2. CASE req[r].op \in {"update", "delete"}
          BY <1>1, <2>3, <4>2 DEF Inv, Workspaces, Updated, Deleted
        <4>. QED
          BY <1>1, <4>1, <4>2
      <3>. QED
        BY <2>3, <3>1
    <2>. QED
      BY <2>1, <2>2, <2>3 DEF Committed
  <1>6. RolesOfOneWriter'
    <2>. SUFFICES ASSUME NEW u \in users'
                  PROVE  RolesOf(u.id)' =
                           {[id |-> u.id, role |-> x, by |-> u.by] :
                              x \in IF u.by = Script THEN SeedRoles[u.code] ELSE req[u.by].roles}
      BY <1>1 DEF RolesOfOneWriter
    <2>1. CASE u \in users /\ u.id # id[r]
      BY <1>3, <2>1 DEF RolesOfOneWriter
    <2>2. CASE u = Row(r) /\ req[r].op \in {"insert", "update"}
      <3>1. u.id = id[r] /\ u.by = r /\ r # Script
        BY <2>2, RolesAssumption DEF Row
      <3>2. RolesOf(u.id)' = RolesOf(id[r])'
        BY <1>1, <3>1 DEF RolesOf
      <3>. QED
        BY <1>4, <2>2, <3>1, <3>2 DEF RoleRowsBy
    <2>. QED
      BY <1>5, <2>1, <2>2
  <1>7. ASSUME NEW s \in Requests, s # r
        PROVE  RoleWorkOf(s)'
    <2>1. /\ pc'[s] = pc[s] /\ req'[s] = req[s] /\ id'[s] = id[s]
          /\ wroteRoles'[s] = wroteRoles[s] /\ removedRoles'[s] = removedRoles[s]
          /\ RoleRowsBy(s)' = RoleRowsBy(s) /\ Inserted(s)' = Inserted(s)
      BY <1>1, <1>7 DEF RoleRowsBy, Inserted
    <2>2. req[s].op = "update" /\ pc[s] \in {"insertRoles", "commit"} => id[s] # id[r]
      <3>. SUFFICES ASSUME req[s].op = "update", pc[s] \in {"insertRoles", "commit"},
                           id[s] = id[r]
                    PROVE  FALSE
        OBVIOUS
      <3>1. removed[s] = {id[s]}
        BY DEF Inv, Workspaces, Updated
      <3>2. req[r].op = "insert" => id[s] # id[r]
        BY <1>1, <1>7 DEF Inv, Keys, Inserted
      <3>3. req[r].op \in {"update", "delete"} => removed[r] = {id[r]}
        BY <1>1 DEF Inv, Workspaces, Updated, Deleted
      <3>. QED
        BY <1>1, <1>7, <3>1, <3>2, <3>3 DEF Inv, Locks
    <2>3. Inserted(s) => id[s] # id[r]
      BY <1>7 DEF Inv, Keys
    <2>4. id[s] # id[r] => RolesOf(id[s])' = RolesOf(id[s])
      BY <1>1, <1>2, <2>1 DEF RolesOf
    <2>5. \A u \in users' : u.by = s => pc'[s] = "done"
      BY <1>5, <1>7, <2>1 DEF Row, RoleWork, RoleWorkOf
    <2>. QED
      BY <2>1, <2>2, <2>3, <2>4, <2>5 DEF RoleWork, RoleWorkOf
  <1>8. \A row \in userRoles' : row.id < nextId
    BY <1>1, <1>2 DEF RoleWork, Inv, Keys
  <1>9. RoleWork'
    <2>1. RoleWorkOf(r)'
      BY <1>1 DEF RoleWorkOf, Inserted
    <2>. QED
      BY <1>1, <1>7, <1>8, <2>1 DEF RoleWork
  <1>. QED
    BY <1>6, <1>9

LEMMA NextRoles == OneWriterInv /\ [Next]_vars => OneWriterInv'
  <1>. SUFFICES ASSUME OneWriterInv, [Next]_vars PROVE RoleWork' /\ RolesOfOneWriter'
    BY NextInv DEF OneWriterInv
  <1>1. ASSUME NEW r \in Requests,
               \/ LookupRefuses(r) \/ LookupIsAmbiguous(r) \/ LockTimesOut(r)
               \/ StatementFails(r) \/ ReadRoles(r)
               \/ (LookupFindsNone(r) /\ req[r].op # "insert")
               \/ (UpdateUser(r) /\ id[r] \notin Ids)
               \/ (DeleteUser(r) /\ id[r] \notin Ids)
               \/ (InsertRoles(r) /\ ~(req[r].roles \subseteq Roles))
        PROVE  RoleWork' /\ RolesOfOneWriter'
    <2>1. CASE ReadRoles(r) \/ (LookupFindsNone(r) /\ req[r].op # "insert")
      BY <2>1, RollbackRoles DEF ReadRoles, LookupFindsNone
    <2>2. CASE LookupRefuses(r) \/ LookupIsAmbiguous(r) \/ LockTimesOut(r) \/ StatementFails(r)
      <3>1. pc[r] \notin {"new", "done"} /\ \E a : Rollback(r, a)
        BY <2>2 DEF LookupRefuses, LookupIsAmbiguous, LockTimesOut, Waits, StatementFails
      <3>. QED
        BY <3>1, RollbackRoles
    <2>3. CASE \/ (UpdateUser(r) /\ id[r] \notin Ids)
               \/ (DeleteUser(r) /\ id[r] \notin Ids)
               \/ (InsertRoles(r) /\ ~(req[r].roles \subseteq Roles))
      <3>1. pc[r] \notin {"new", "done"} /\ \E a : Rollback(r, a)
        BY <2>3 DEF UpdateUser, DeleteUser, InsertRoles
      <3>. QED
        BY <3>1, RollbackRoles
    <2>. QED
      BY <1>1, <2>1, <2>2, <2>3
  <1>2. CASE UNCHANGED vars
    <2>1. UNCHANGED <<users, userRoles, nextId, req, pc, id, wroteRoles, removedRoles>>
      BY <1>2 DEF vars, tables, workspace
    <2>2. ASSUME NEW r \in Requests
          PROVE  RoleWorkOf(r)' = RoleWorkOf(r)
      BY <2>1 DEF RoleWorkOf, RoleRowsBy, RolesOf, Inserted
    <2>3. RolesOfOneWriter' = RolesOfOneWriter
      BY <2>1 DEF RolesOfOneWriter, RolesOf
    <2>. QED
      BY <2>1, <2>2, <2>3 DEF OneWriterInv, RoleWork
  <1>3. ASSUME NEW r \in Requests, LookupFinds(r) \/ LookupFindsNone(r) \/ InsertUser(r)
        PROVE  RoleWork' /\ RolesOfOneWriter'
    BY <1>1, <1>3, FirstStatementsRoles
  <1>4. ASSUME NEW r \in Requests, UpdateUser(r) \/ DeleteUser(r)
        PROVE  RoleWork' /\ RolesOfOneWriter'
    BY <1>1, <1>4, FirstStatementsRoles, DeleteUserRoles
  <1>5. ASSUME NEW r \in Requests, DeleteRoles(r) \/ InsertRoles(r)
        PROVE  RoleWork' /\ RolesOfOneWriter'
    BY <1>1, <1>5, DeleteRolesRoles, InsertRolesRoles
  <1>6. ASSUME NEW r \in Requests, Handle(r) \/ StatementFails(r)
        PROVE  RoleWork' /\ RolesOfOneWriter'
    <2>1. CASE LookupFinds(r) \/ LookupFindsNone(r) \/ InsertUser(r)
      BY <1>3, <2>1
    <2>2. CASE UpdateUser(r) \/ DeleteUser(r) \/ DeleteRoles(r) \/ InsertRoles(r)
      BY <1>4, <1>5, <2>2
    <2>3. CASE Commit(r)
      BY <2>3, CommitRoles
    <2>4. CASE \/ LookupRefuses(r) \/ LookupIsAmbiguous(r) \/ LockTimesOut(r)
               \/ StatementFails(r) \/ ReadRoles(r)
      BY <1>1, <2>4
    <2>. QED
      BY <1>6, <2>1, <2>2, <2>3, <2>4 DEF Handle
  <1>. QED
    BY <1>2, <1>6, ReceiveRoles DEF Next

\* The roles of a user are all of the call that wrote the user last: updates and
\* deletes that run at once never leave a mixture.
THEOREM RolesAreNotMixed == Spec => []RolesOfOneWriter
  <1>1. OneWriterInv => RolesOfOneWriter
    BY DEF OneWriterInv
  <1>. QED
    BY <1>1, InitRoles, NextRoles, PTL DEF Spec

=============================================================================
