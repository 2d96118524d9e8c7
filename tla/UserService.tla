----------------------------- MODULE UserService ------------------------------
(***************************************************************************)
(* The user-service: UserServiceImpl behind UserController, over the H2    *)
(* tables USER_TABLE and USER_ROLE_TABLE.  Insert, update and delete are   *)
(* transactions (READ_COMMITTED); one action is one statement.  A statement *)
(* that changes a row waits while another transaction has changed it, and  *)
(* fails when the wait is too long; rows a transaction inserts or removes  *)
(* are its own affair until it commits.                                    *)
(*                                                                         *)
(* The names and the locale of a user are abstracted to the request that   *)
(* wrote them; schema: userId is the key, userIdentifier is NOT unique and *)
(* USER_ROLE_TABLE has no constraint.                                      *)
(***************************************************************************)
EXTENDS Integers, FiniteSets

CONSTANTS
    Requests,         \* the REST calls of a behaviour, each made once
    Codes,            \* user identifiers
    Roles,            \* the role codes of ROLE_TABLE
    RoleLists,        \* the sets of role codes calls may carry, known or not
    SeedRoles,        \* for each user of the data script, its roles
    InsertsInFlight   \* inserts of one code that run at once, at most

Script == "script"                    \* wrote the rows of the data script
Writers == Requests \cup {Script}

ASSUME RolesAssumption ==
    /\ IsFiniteSet(Requests) /\ Script \notin Requests
    /\ IsFiniteSet(DOMAIN SeedRoles)
    /\ \E C \in SUBSET Codes : SeedRoles \in [C -> SUBSET Roles]

ASSUME InsertsAssumption == InsertsInFlight \in Nat \ {0}

Request ==
    [op : {"insert", "update"}, code : Codes, roles : RoleLists]
      \cup [op : {"delete", "byCode"}, code : Codes]

NoRequest == [op |-> "none"]

VARIABLES
    users,      \* USER_TABLE as committed: [id, code, by]
    userRoles,  \* USER_ROLE_TABLE as committed: [id, role, by]
    nextId,     \* the auto_increment of userId
    req,        \* what each request asks
    pc,         \* its next statement
    id,         \* the userId it works on, 0 for none
    wrote,      \* the USER_TABLE rows its transaction wrote
    removed,    \* the ids of the USER_TABLE rows it replaced or removed
    wroteRoles, removedRoles,   \* the same of USER_ROLE_TABLE, by row
    answer

tables == <<users, userRoles, nextId>>
workspace == <<wrote, removed, wroteRoles, removedRoles>>
vars == <<tables, workspace, req, pc, id, answer>>

Ids == {u.id : u \in users}
RolesOf(i) == {row \in userRoles : row.id = i}

Steps == {"new", "lookup", "insertUser", "updateUser", "deleteRoles",
          "insertRoles", "deleteUser", "readRoles", "commit", "done"}

Answers == {"none", "success", "alreadyExists", "userNotFound", "http500"}

UserRows == [id : Nat, code : Codes, by : Writers]
RoleRows == [id : Nat, role : Roles, by : Writers]

TypeOK ==
    /\ users \subseteq UserRows
    /\ userRoles \subseteq RoleRows
    /\ nextId \in Nat
    /\ req \in [Requests -> Request \cup {NoRequest}]
    /\ pc \in [Requests -> Steps]
    /\ id \in [Requests -> Nat]
    /\ wrote \in [Requests -> SUBSET UserRows]
    /\ removed \in [Requests -> SUBSET Nat]
    /\ wroteRoles \in [Requests -> SUBSET RoleRows]
    /\ removedRoles \in [Requests -> SUBSET RoleRows]
    /\ answer \in [Requests -> Answers]

NoRows == [r \in Requests |-> {}]

\* The data script numbers its users from 1.
Init ==
    /\ \E number \in [DOMAIN SeedRoles -> 1..Cardinality(DOMAIN SeedRoles)] :
         /\ \A c, d \in DOMAIN SeedRoles : number[c] = number[d] => c = d
         /\ users = {[id |-> number[c], code |-> c, by |-> Script] :
                       c \in DOMAIN SeedRoles}
         /\ userRoles = UNION {{[id |-> number[c], role |-> x, by |-> Script] :
                                  x \in SeedRoles[c]} : c \in DOMAIN SeedRoles}
    /\ nextId = Cardinality(DOMAIN SeedRoles) + 1
    /\ req = [r \in Requests |-> NoRequest]
    /\ pc = [r \in Requests |-> "new"]
    /\ id = [r \in Requests |-> 0]
    /\ wrote = NoRows
    /\ removed = NoRows
    /\ wroteRoles = NoRows
    /\ removedRoles = NoRows
    /\ answer = [r \in Requests |-> "none"]

-----------------------------------------------------------------------------
\* Control of one request.

Goto(r, step) ==
    /\ pc' = [pc EXCEPT ![r] = step]
    /\ UNCHANGED answer

Answer(r, a) ==
    /\ pc' = [pc EXCEPT ![r] = "done"]
    /\ answer' = [answer EXCEPT ![r] = a]

\* The transaction is rolled back and the controller answers.
Rollback(r, a) ==
    /\ Answer(r, a)
    /\ wrote' = [wrote EXCEPT ![r] = {}]
    /\ removed' = [removed EXCEPT ![r] = {}]
    /\ wroteRoles' = [wroteRoles EXCEPT ![r] = {}]
    /\ removedRoles' = [removedRoles EXCEPT ![r] = {}]
    /\ UNCHANGED <<tables, req, id>>

Inserting(c) ==
    {r \in Requests : /\ pc[r] \notin {"new", "done"}
                      /\ req[r].op = "insert"
                      /\ req[r].code = c}

\* A REST call arrives.  The bound stands for the administrators, who rarely
\* create the same user at once; the service itself sets no limit.
Receive(r, q) ==
    /\ pc[r] = "new"
    /\ q.op = "insert" => Cardinality(Inserting(q.code)) < InsertsInFlight
    /\ req' = [req EXCEPT ![r] = q]
    /\ Goto(r, "lookup")
    /\ UNCHANGED <<tables, workspace, id>>

-----------------------------------------------------------------------------
\* Statements.

RowsLockedFor(r) == UNION {removed[s] : s \in Requests \ {r}}
RoleRowsLockedFor(r) == UNION {removedRoles[s] : s \in Requests \ {r}}

WithCode(c) == {u \in users : u.code = c}

AfterLookup(op) ==
    CASE op = "update" -> "updateUser"
      [] op = "delete" -> "deleteRoles"
      [] op = "byCode" -> "readRoles"

\* retrieveUserByCode of the DAO: queryForObject, which fails when two users
\* have the code.
LookupFinds(r) ==
    /\ pc[r] = "lookup"
    /\ req[r].op # "insert"
    /\ Cardinality(WithCode(req[r].code)) = 1
    /\ \E u \in WithCode(req[r].code) : id' = [id EXCEPT ![r] = u.id]
    /\ Goto(r, AfterLookup(req[r].op))
    /\ UNCHANGED <<tables, workspace, req>>

\* No such user: an insert goes on; retrieveUserByCode answers an empty body.
LookupFindsNone(r) ==
    /\ pc[r] = "lookup"
    /\ WithCode(req[r].code) = {}
    /\ IF req[r].op = "insert" THEN Goto(r, "insertUser")
                               ELSE Answer(r, "userNotFound")
    /\ UNCHANGED <<tables, workspace, req, id>>

\* Variant: the insert does not mind that the user exists.
LookupRefuses_Never(r) ==
    /\ pc[r] = "lookup"
    /\ req[r].op = "insert"
    /\ Cardinality(WithCode(req[r].code)) = 1
    /\ Goto(r, "insertUser")
    /\ UNCHANGED <<tables, workspace, req, id>>

\* An insert of a user that exists is refused.
LookupRefuses(r) ==
    /\ pc[r] = "lookup"
    /\ req[r].op = "insert"
    /\ Cardinality(WithCode(req[r].code)) = 1
    /\ Rollback(r, "alreadyExists")

LookupIsAmbiguous(r) ==
    /\ pc[r] = "lookup"
    /\ Cardinality(WithCode(req[r].code)) > 1
    /\ Rollback(r, "http500")

\* The key is taken at once and is not given back by a rollback.
InsertUser(r) ==
    /\ pc[r] = "insertUser"
    /\ id' = [id EXCEPT ![r] = nextId]
    /\ nextId' = nextId + 1
    /\ wrote' = [wrote EXCEPT ![r] =
                   {[id |-> nextId, code |-> req[r].code, by |-> r]}]
    /\ Goto(r, "insertRoles")
    /\ UNCHANGED <<users, userRoles, removed, wroteRoles, removedRoles, req>>

\* Variant: the update does not wait for a row another transaction changed.
UpdateUser_NoWait(r) ==
    /\ pc[r] = "updateUser"
    /\ IF id[r] \in Ids
         THEN /\ removed' = [removed EXCEPT ![r] = {id[r]}]
              /\ wrote' = [wrote EXCEPT ![r] =
                             {[id |-> id[r], code |-> req[r].code, by |-> r]}]
              /\ Goto(r, "deleteRoles")
              /\ UNCHANGED <<tables, wroteRoles, removedRoles, req, id>>
         ELSE Rollback(r, "http500")

\* UPDATE of one row: the row waits for the transaction that has changed it.
UpdateUser(r) ==
    /\ pc[r] = "updateUser"
    /\ id[r] \notin RowsLockedFor(r)
    /\ IF id[r] \in Ids
         THEN /\ removed' = [removed EXCEPT ![r] = {id[r]}]
              /\ wrote' = [wrote EXCEPT ![r] =
                             {[id |-> id[r], code |-> req[r].code, by |-> r]}]
              /\ Goto(r, "deleteRoles")
              /\ UNCHANGED <<tables, wroteRoles, removedRoles, req, id>>
         ELSE Rollback(r, "http500")

AfterDeleteRoles(op) == IF op = "update" THEN "insertRoles" ELSE "deleteUser"

\* DELETE of the committed role rows of the user.
DeleteRoles(r) ==
    /\ pc[r] = "deleteRoles"
    /\ RolesOf(id[r]) \cap RoleRowsLockedFor(r) = {}
    /\ removedRoles' = [removedRoles EXCEPT ![r] = RolesOf(id[r])]
    /\ Goto(r, AfterDeleteRoles(req[r].op))
    /\ UNCHANGED <<tables, wrote, removed, wroteRoles, req, id>>

\* Variant: a role code that is not in ROLE_TABLE is inserted all the same.
InsertRoles_Unchecked(r) ==
    /\ pc[r] = "insertRoles"
    /\ wroteRoles' = [wroteRoles EXCEPT ![r] =
         {[id |-> id[r], role |-> x, by |-> r] : x \in req[r].roles}]
    /\ Goto(r, "commit")
    /\ UNCHANGED <<tables, wrote, removed, removedRoles, req, id>>

\* insertListRolesUser: one INSERT for each role; a code that is not in
\* ROLE_TABLE has no id, and the whole transaction fails.
InsertRoles(r) ==
    /\ pc[r] = "insertRoles"
    /\ IF req[r].roles \subseteq Roles
         THEN /\ wroteRoles' = [wroteRoles EXCEPT ![r] =
                   {[id |-> id[r], role |-> x, by |-> r] : x \in req[r].roles}]
              /\ Goto(r, "commit")
              /\ UNCHANGED <<tables, wrote, removed, removedRoles, req, id>>
         ELSE Rollback(r, "http500")

\* DELETE of the user row.
DeleteUser(r) ==
    /\ pc[r] = "deleteUser"
    /\ id[r] \notin RowsLockedFor(r)
    /\ IF id[r] \in Ids
         THEN /\ removed' = [removed EXCEPT ![r] = {id[r]}]
              /\ Goto(r, "commit")
              /\ UNCHANGED <<tables, wrote, wroteRoles, removedRoles, req, id>>
         ELSE Rollback(r, "http500")

Commit(r) ==
    /\ pc[r] = "commit"
    /\ users' = {u \in users : u.id \notin removed[r]} \cup wrote[r]
    /\ userRoles' = (userRoles \ removedRoles[r]) \cup wroteRoles[r]
    /\ wrote' = [wrote EXCEPT ![r] = {}]
    /\ removed' = [removed EXCEPT ![r] = {}]
    /\ wroteRoles' = [wroteRoles EXCEPT ![r] = {}]
    /\ removedRoles' = [removedRoles EXCEPT ![r] = {}]
    /\ Answer(r, "success")
    /\ UNCHANGED <<nextId, req, id>>

\* retrieveListRolesByUser, the second query of retrieveUserByCode, outside
\* any transaction.
ReadRoles(r) ==
    /\ pc[r] = "readRoles"
    /\ Answer(r, "success")
    /\ UNCHANGED <<tables, workspace, req, id>>

Waits(r) ==
    \/ pc[r] \in {"updateUser", "deleteUser"} /\ id[r] \in RowsLockedFor(r)
    \/ pc[r] = "deleteRoles" /\ RolesOf(id[r]) \cap RoleRowsLockedFor(r) # {}

\* Variant: a statement that gives up is tried again in the same transaction.
LockTimesOut_Retries(r) == Waits(r) /\ UNCHANGED vars

\* H2 gives up a statement that waits too long for a row, and the call fails.
LockTimesOut(r) ==
    /\ Waits(r)
    /\ Rollback(r, "http500")

\* A statement fails: no connection, a value too long for its column.
StatementFails(r) ==
    /\ pc[r] \notin {"new", "done"}
    /\ Rollback(r, "http500")

Handle(r) ==
    \/ LookupFinds(r)
    \/ LookupFindsNone(r)
    \/ LookupRefuses(r)
    \/ LookupIsAmbiguous(r)
    \/ InsertUser(r)
    \/ UpdateUser(r)
    \/ DeleteRoles(r)
    \/ InsertRoles(r)
    \/ DeleteUser(r)
    \/ Commit(r)
    \/ ReadRoles(r)
    \/ LockTimesOut(r)

Next ==
    \/ \E r \in Requests, q \in Request : Receive(r, q)
    \/ \E r \in Requests : Handle(r) \/ StatementFails(r)

Spec == Init /\ [][Next]_vars

\* A thread that can go on does; a wait for a row ends, at the latest, when
\* the lock times out.
LiveSpec == Spec /\ \A r \in Requests : WF_vars(Handle(r))

-----------------------------------------------------------------------------
\* Properties.

\* A code names one user, at most: what insertUser looks it up for, and what
\* every later lookup relies on.
UniqueCodes == \A u, v \in users : u.code = v.code => u = v

\* However inserts race, a code names no more users than inserts of it run at
\* once: the lookup lets nobody pass once one of them is committed.
DuplicateBound == \A c \in Codes : Cardinality(WithCode(c)) <= InsertsInFlight

\* The roles of a user are those of the call that wrote the rest of the user:
\* updates that race leave the result of one of them, never a mixture.
RolesOfOneWriter ==
    \A u \in users :
      RolesOf(u.id) =
        {[id |-> u.id, role |-> x, by |-> u.by] :
           x \in IF u.by = Script THEN SeedRoles[u.code] ELSE req[u.by].roles}

\* No role is left to a user that is deleted.
NoOrphanRoles == \A row \in userRoles : row.id \in Ids

\* An id appears in the table by the commit of the insert that took it, and
\* in no other way: an update that had looked a user up does not bring it back
\* after a delete.
DeletedForGood ==
    [][\A u \in users' : u.id \in Ids \/
         \E r \in Requests : /\ pc[r] = "commit"
                             /\ req[r].op = "insert"
                             /\ id[r] = u.id]_vars

\* Every call is answered, although updates and deletes of one user can wait
\* for each other's rows.
EveryCallAnswered == \A r \in Requests : pc[r] = "lookup" ~> pc[r] = "done"

=============================================================================
