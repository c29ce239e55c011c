-------------------------- MODULE RoleServiceProofs --------------------------
(***************************************************************************)
(* Proofs about RoleService, for every set of users, roles and slots.      *)
(***************************************************************************)
EXTENDS RoleService, TLAPS

\* A nullable is empty or holds one value of its set.
LEMMA OptMembers ==
    ASSUME NEW S
    PROVE  /\ {} \in Opt(S)
           /\ \A x \in S : {x} \in Opt(S)
  BY DEF Opt

\* What a request names.
LEMMA TaskFields ==
    ASSUME NEW t \in Task
    PROVE  /\ t.op \in {"assign", "remove", "read"}
           /\ t.user \in Users
           /\ t.role \in RoleNames
  BY CatalogAssumption DEF Task

\* The two ways a step ends keep the slot variables typed.
LEMMA FinishTyped ==
    ASSUME TypeOK, NEW s \in Slots, NEW code \in Status, Finish(s, code)
    PROVE  /\ task' \in [Slots -> Task]
           /\ pc' \in [Slots -> PC]
           /\ found' \in [Slots -> BOOLEAN]
           /\ rows' \in [Slots -> SUBSET Catalog]
           /\ answer' \in [Slots -> Status]
  BY DEF TypeOK, Finish, PC

\* Going on to another await keeps the slots typed.
LEMMA GotoTyped ==
    ASSUME TypeOK, NEW s \in Slots, NEW next \in PC, Goto(s, next)
    PROVE  /\ task' \in [Slots -> Task]
           /\ pc' \in [Slots -> PC]
           /\ answer' \in [Slots -> Status]
  BY DEF TypeOK, Goto

\* A DEL, done or failed, keeps the cache typed.
LEMMA DelTyped ==
    ASSUME TypeOK, NEW u \in Users, Del(u)
    PROVE  /\ roleCache' \in [Users -> Opt(SUBSET Catalog)]
           /\ emailCache' \in [Users -> Opt(Catalog)]
  BY OptMembers DEF TypeOK, Del

\* The types at the start.
LEMMA InitTyped == Init => TypeOK
<1> SUFFICES ASSUME Init PROVE TypeOK
  OBVIOUS
<1>1. [op |-> "read", user |-> CHOOSE u \in Users : TRUE, role |-> DefaultRole] \in Task
  BY UsersAssumption DEF Task
<1>2. {} \in Opt(Catalog) /\ {} \in Opt(SUBSET Catalog)
  BY OptMembers
<1> QED
  BY <1>1, <1>2 DEF Init, TypeOK, PC, Status

\* Committing the pending writes keeps the tables typed.
LEMMA ApplyTyped ==
    ASSUME TypeOK, NEW s \in Slots, ApplyWrites(s), role(s) \in Catalog
    PROVE  /\ currentRole' \in [Users -> Opt(Catalog)]
           /\ userRoles' \in [Users -> SUBSET Catalog]
<1>1. {role(s)} \in Opt(Catalog)
  BY OptMembers
<1>2. user(s) \in Users
  BY TaskFields DEF TypeOK, user
<1>3. currentRole' \in [Users -> Opt(Catalog)]
  BY <1>1, <1>2 DEF TypeOK, ApplyWrites
<1>4. userRoles' \in [Users -> SUBSET Catalog]
  BY <1>2 DEF TypeOK, ApplyWrites
<1> QED
  BY <1>3, <1>4

-----------------------------------------------------------------------------
\* The inductive invariant.

\* The handler a slot runs is the one its request asked for, and what the
\* handler has already looked up still holds: roles are never taken out of
\* the catalog.  PendingWritesApplicable alone is not inductive: it needs to
\* know that the role about to be written came out of find_role_by_name.
ControlAt(s, at) ==
    /\ at \in {"select_email", "update", "del_update", "del_email", "insert", "del_insert"}
         => op(s) = "assign" /\ role(s) \in Active
    /\ at \in {"delete", "del_remove"} => op(s) = "remove" /\ role(s) \in Catalog
    /\ at \in {"cache_get", "select", "cache_set"} => op(s) = "read"
    /\ at = "find_role" => op(s) \in {"assign", "remove"}
    /\ at = "commit" => /\ op(s) = "assign" => role(s) \in Active
                        /\ op(s) = "remove" => role(s) \in Catalog /\ found[s]

ControlOK == \A s \in Slots : ControlAt(s, pc[s])

Inv == TypeOK /\ ControlOK /\ PendingWritesApplicable

\* Outside the slot that takes a step nothing of the slots moves.
OthersStill(s) ==
    \A t \in Slots \ {s} : /\ pc'[t] = pc[t] /\ task'[t] = task[t]
                           /\ found'[t] = found[t]

\* An answer ends its slot's request and no other.
LEMMA FinishStill ==
    ASSUME TypeOK, NEW s \in Slots, NEW code, Finish(s, code)
    PROVE  OthersStill(s) /\ pc'[s] = "idle" /\ task' = task
  BY DEF TypeOK, Finish, OthersStill

\* Going on moves one slot and no other.
LEMMA GotoStill ==
    ASSUME TypeOK, NEW s \in Slots, NEW next, Goto(s, next), UNCHANGED found
    PROVE  OthersStill(s) /\ pc'[s] = next /\ task' = task
  BY DEF TypeOK, Goto, OthersStill

\* A step that leaves the tables alone and gives its slot no new pending
\* write keeps every pending write applicable.
LEMMA NoNewWrite ==
    ASSUME PendingWritesApplicable, NEW s \in Slots, OthersStill(s),
           UNCHANGED <<db, task>>,
           PendingRole(s)' => PendingRole(s),
           PendingInsert(s)' => PendingInsert(s),
           PendingDelete(s)' => PendingDelete(s)
    PROVE  PendingWritesApplicable'
<1>1. \A t \in Slots : /\ user(t)' = user(t) /\ role(t)' = role(t)
                       /\ PendingRole(t)' => PendingRole(t)
                       /\ PendingInsert(t)' => PendingInsert(t)
                       /\ PendingDelete(t)' => PendingDelete(t)
  BY DEF OthersStill, user, role, op, PendingRole, PendingInsert, PendingDelete
<1>2. UNCHANGED <<currentRole, userRoles>>
  BY DEF db
<1> QED
  BY <1>1, <1>2 DEF PendingWritesApplicable

\* The same for the control part: a finished slot has nothing to answer for.
LEMMA FinishControl ==
    ASSUME TypeOK, ControlOK, NEW s \in Slots, NEW code, Finish(s, code)
    PROVE  ControlOK'
<1>1. OthersStill(s) /\ pc'[s] = "idle" /\ task' = task
  BY FinishStill
<1> QED
  BY <1>1 DEF ControlOK, ControlAt, OthersStill, op, role

\* An answer gives up what its slot had pending and leaves the others' applicable.
LEMMA FinishPending ==
    ASSUME TypeOK, PendingWritesApplicable, NEW s \in Slots, NEW code,
           Finish(s, code), UNCHANGED db
    PROVE  PendingWritesApplicable'
<1>1. OthersStill(s) /\ pc'[s] = "idle" /\ task' = task
  BY FinishStill
<1>2. ~PendingRole(s)' /\ ~PendingInsert(s)' /\ ~PendingDelete(s)'
  BY <1>1 DEF PendingRole, PendingInsert, PendingDelete
<1> QED
  BY <1>1, <1>2, NoNewWrite

\* A slot that ends without touching the tables: all three parts at once.
LEMMA FinishInv ==
    ASSUME Inv, NEW s \in Slots, NEW code \in Status, Finish(s, code),
           UNCHANGED <<db, redis>>
    PROVE  Inv'
<1>1. TypeOK'
  BY FinishTyped DEF Inv, TypeOK, db, redis
<1>2. ControlOK'
  BY FinishControl DEF Inv
<1>3. PendingWritesApplicable'
  BY FinishPending DEF Inv
<1> QED
  BY <1>1, <1>2, <1>3 DEF Inv

\* A slot that moves on to its next await, with no change to the tables.
LEMMA GotoInv ==
    ASSUME Inv, NEW s \in Slots, NEW next \in PC, Goto(s, next),
           UNCHANGED <<db, found>>, ControlAt(s, next),
           rows' \in [Slots -> SUBSET Catalog],
           roleCache' \in [Users -> Opt(SUBSET Catalog)],
           emailCache' \in [Users -> Opt(Catalog)],
           PendingRole(s)' => PendingRole(s),
           PendingInsert(s)' => PendingInsert(s),
           PendingDelete(s)' => PendingDelete(s)
    PROVE  Inv'
<1>1. OthersStill(s) /\ pc'[s] = next /\ task' = task
  BY GotoStill DEF Inv
<1>2. TypeOK'
  BY GotoTyped DEF Inv, TypeOK, db
<1>3. ControlOK'
  BY <1>1 DEF Inv, ControlOK, ControlAt, OthersStill, op, role
<1>4. PendingWritesApplicable'
  BY <1>1, NoNewWrite DEF Inv
<1> QED
  BY <1>2, <1>3, <1>4 DEF Inv

\* Nothing is pending at the start.
LEMMA InitInv == Init => Inv
<1> SUFFICES ASSUME Init PROVE Inv
  OBVIOUS
<1>1. \A s \in Slots : pc[s] = "idle"
  BY DEF Init
<1>2. ControlOK
  BY <1>1 DEF ControlOK, ControlAt
<1>3. PendingWritesApplicable
  BY <1>1 DEF PendingWritesApplicable, PendingRole, PendingInsert, PendingDelete
<1> QED
  BY InitTyped, <1>2, <1>3 DEF Inv

-----------------------------------------------------------------------------
\* One lemma per action that does more than move its slot on.

\* A request comes in with nothing pending.
LEMMA ReceiveInv == ASSUME Inv, NEW s \in Slots, Receive(s) PROVE Inv'
<1> USE DEF Inv
<1>1. PICK t \in Task :
        /\ task' = [task EXCEPT ![s] = t]
        /\ pc' = [pc EXCEPT ![s] = IF t.op = "read" THEN "cache_get" ELSE "find_role"]
  BY DEF Receive
<1>2. TypeOK'
  BY <1>1 DEF Receive, TypeOK, PC, DbSteps, Status, db, redis
<1>3. /\ \A x \in Slots \ {s} : pc'[x] = pc[x] /\ task'[x] = task[x]
      /\ pc'[s] \in {"cache_get", "find_role"} /\ task'[s] = t
      /\ pc'[s] = "cache_get" <=> t.op = "read"
      /\ found' = found /\ currentRole' = currentRole /\ userRoles' = userRoles
  BY <1>1 DEF Receive, TypeOK, db
<1>4. ControlOK'
  BY <1>3, TaskFields DEF ControlOK, ControlAt, op, role
<1>5. \A x \in Slots :
        /\ PendingRole(x)' => x # s /\ PendingRole(x)
        /\ PendingInsert(x)' => x # s /\ PendingInsert(x)
        /\ PendingDelete(x)' => x # s /\ PendingDelete(x)
        /\ x # s => user(x)' = user(x) /\ role(x)' = role(x)
  BY <1>3 DEF PendingRole, PendingInsert, PendingDelete, op, user, role
<1>6. PendingWritesApplicable'
  BY <1>3, <1>5 DEF PendingWritesApplicable
<1> QED
  BY <1>2, <1>4, <1>6

\* The row lock on users makes the new pending write the only one of its user.
LEMMA UpdateUserInv == ASSUME Inv, NEW s \in Slots, UpdateUser(s) PROVE Inv'
<1> USE DEF Inv
<1>1. CASE currentRole[user(s)] = {} /\ Finish(s, 409)
  BY <1>1, FinishInv DEF UpdateUser, Status
<1>2. CASE currentRole[user(s)] # {} /\ Goto(s, "del_update") /\ UNCHANGED <<found, rows>>
  <2>1. OthersStill(s) /\ pc'[s] = "del_update" /\ task' = task
    BY <1>2, GotoStill
  <2>2. op(s) = "assign" /\ role(s) \in Active
    BY DEF UpdateUser, ControlOK, ControlAt
  <2>3. TypeOK'
    BY <1>2, GotoTyped DEF UpdateUser, TypeOK, PC, db, redis
  <2>4. ControlOK'
    BY <2>1, <2>2 DEF ControlOK, ControlAt, OthersStill, op, role
  <2>5. \A t \in Slots : /\ user(t)' = user(t) /\ role(t)' = role(t)
                         /\ PendingRole(t)' => t = s \/ PendingRole(t)
                         /\ PendingInsert(t)' => PendingInsert(t)
                         /\ PendingDelete(t)' => PendingDelete(t)
    BY <2>1, <2>2 DEF OthersStill, user, role, op, PendingRole, PendingInsert, PendingDelete
  <2>6. \A t \in Slots : user(t) = user(s) => ~PendingRole(t)
    BY DEF UpdateUser, UserRowLocked
  <2>7. PendingWritesApplicable'
    BY <1>2, <2>2, <2>5, <2>6 DEF PendingWritesApplicable, UpdateUser, db
  <2> QED
    BY <2>3, <2>4, <2>7
<1> QED
  BY <1>1, <1>2 DEF UpdateUser

\* The unique constraint and the row lock make the grant new.
LEMMA InsertGrantInv == ASSUME Inv, NEW s \in Slots, InsertGrant(s) PROVE Inv'
<1> USE DEF Inv
<1>1. CASE role(s) \in userRoles[user(s)] /\ Finish(s, 500)
  BY <1>1, FinishInv DEF InsertGrant, Status
<1>2. CASE role(s) \notin userRoles[user(s)] /\ Goto(s, "del_insert")
           /\ UNCHANGED <<found, rows>>
  <2>1. OthersStill(s) /\ pc'[s] = "del_insert" /\ task' = task
    BY <1>2, GotoStill
  <2>2. op(s) = "assign" /\ role(s) \in Active
    BY DEF InsertGrant, ControlOK, ControlAt
  <2>3. TypeOK'
    BY <1>2, GotoTyped DEF InsertGrant, TypeOK, PC, db, redis
  <2>4. ControlOK'
    BY <2>1, <2>2 DEF ControlOK, ControlAt, OthersStill, op, role
  <2>5. \A t \in Slots : /\ user(t)' = user(t) /\ role(t)' = role(t)
                         /\ PendingRole(t)' => PendingRole(t)
                         /\ PendingInsert(t)' => t = s \/ PendingInsert(t)
                         /\ PendingDelete(t)' => PendingDelete(t)
    BY <2>1, <2>2 DEF OthersStill, user, role, op, PendingRole, PendingInsert,
                      PendingDelete, InsertGrant
  <2>6. PendingWritesApplicable'
    BY <1>2, <2>2, <2>5 DEF PendingWritesApplicable, InsertGrant, db
  <2> QED
    BY <2>3, <2>4, <2>6
<1> QED
  BY <1>1, <1>2 DEF InsertGrant

\* The row lock makes the deleted row this transaction's alone.
LEMMA DeleteGrantInv == ASSUME Inv, NEW s \in Slots, DeleteGrant(s) PROVE Inv'
<1> USE DEF Inv
<1>1. /\ pc' = [pc EXCEPT ![s] = "del_remove"] /\ task' = task /\ answer' = answer
      /\ found' = [found EXCEPT ![s] = role(s) \in userRoles[user(s)]]
      /\ currentRole' = currentRole /\ userRoles' = userRoles
      /\ UNCHANGED <<redis, rows>>
  BY DEF DeleteGrant, Goto, db
<1>2. OthersStill(s) /\ pc'[s] = "del_remove" /\ found'[s] = (role(s) \in userRoles[user(s)])
  BY <1>1 DEF OthersStill, TypeOK
<1>3. op(s) = "remove" /\ role(s) \in Catalog
  BY DEF DeleteGrant, ControlOK, ControlAt
<1>4. TypeOK'
  <2>1. (role(s) \in userRoles[user(s)]) \in BOOLEAN
    OBVIOUS
  <2>2. found' \in [Slots -> BOOLEAN]
    BY <1>1, <2>1, ZenonT(20) DEF TypeOK
  <2> QED
    BY <1>1, <2>2 DEF TypeOK, PC, DbSteps, redis
<1>5. ControlOK'
  BY <1>1, <1>2, <1>3 DEF ControlOK, ControlAt, OthersStill, op, role
<1>6. \A t \in Slots :
        /\ user(t)' = user(t) /\ role(t)' = role(t)
        /\ PendingRole(t)' => PendingRole(t)
        /\ PendingInsert(t)' => PendingInsert(t)
        /\ PendingDelete(t)' => PendingDelete(t) \/ (t = s /\ role(s) \in userRoles[user(s)])
  BY <1>1, <1>2, <1>3 DEF OthersStill, user, role, op, PendingRole, PendingInsert, PendingDelete
<1>7. \A t \in Slots : user(t) = user(s) /\ role(t) = role(s) => ~PendingDelete(t)
  BY DEF DeleteGrant, GrantRowLocked
<1>8. PendingWritesApplicable'
  BY <1>1, <1>6, <1>7 DEF PendingWritesApplicable
<1> QED
  BY <1>4, <1>5, <1>8

\* SelectEmail writes "found", which no assign-side write depends on.
LEMMA SelectEmailInv == ASSUME Inv, NEW s \in Slots, SelectEmail(s) PROVE Inv'
<1> USE DEF Inv
<1>1. /\ pc' = [pc EXCEPT ![s] = "update"] /\ task' = task /\ answer' = answer
      /\ found' = [found EXCEPT ![s] = currentRole[user(s)] # {}]
      /\ UNCHANGED <<db, redis, rows>>
  BY DEF SelectEmail, Goto
<1>2. op(s) = "assign" /\ role(s) \in Active
  BY DEF SelectEmail, ControlOK, ControlAt
<1>3. OthersStill(s) /\ pc'[s] = "update"
  BY <1>1 DEF OthersStill, TypeOK
<1>4. TypeOK'
  <2>1. (currentRole[user(s)] # {}) \in BOOLEAN
    OBVIOUS
  <2>2. found' \in [Slots -> BOOLEAN]
    BY <1>1, <2>1, ZenonT(20) DEF TypeOK
  <2> QED
    BY <1>1, <2>2 DEF TypeOK, PC, DbSteps, db, redis
<1>5. ControlOK'
  BY <1>1, <1>2, <1>3 DEF ControlOK, ControlAt, OthersStill, op, role
<1>6. ~PendingRole(s)' /\ ~PendingInsert(s)' /\ ~PendingDelete(s)'
  BY <1>3 DEF PendingRole, PendingInsert, PendingDelete
<1>7. PendingWritesApplicable'
  BY <1>1, <1>3, <1>6, NoNewWrite
<1> QED
  BY <1>4, <1>5, <1>7

\* DELETE .. DEL: the key goes, then the rowcount decides.
LEMMA DelAfterDeleteInv == ASSUME Inv, NEW s \in Slots, DelAfterDelete(s) PROVE Inv'
<1> USE DEF Inv
<1>1. user(s) \in Users
  BY TaskFields DEF TypeOK, user
<1>2. /\ roleCache' \in [Users -> Opt(SUBSET Catalog)]
      /\ emailCache' \in [Users -> Opt(Catalog)]
  BY <1>1, DelTyped DEF DelAfterDelete
<1>3. op(s) = "remove" /\ role(s) \in Catalog
  BY DEF DelAfterDelete, ControlOK, ControlAt
<1>4. CASE found[s] /\ Goto(s, "commit") /\ UNCHANGED <<found, rows>>
  <2>1. OthersStill(s) /\ pc'[s] = "commit" /\ task' = task
    BY <1>4, GotoStill
  <2>2. PendingRole(s)' => PendingRole(s)
    BY <1>3, <2>1 DEF PendingRole, op
  <2>3. PendingInsert(s)' => PendingInsert(s)
    BY <1>3, <2>1 DEF PendingInsert, op
  <2>4. PendingDelete(s)' => PendingDelete(s)
    BY <1>3, <1>4, <2>1 DEF PendingDelete, op, DelAfterDelete
  <2>5. ControlAt(s, "commit")
    BY <1>3, <1>4 DEF ControlAt
  <2>6. "commit" \in PC /\ rows' \in [Slots -> SUBSET Catalog] /\ UNCHANGED <<db, found>>
    BY <1>4 DEF PC, DbSteps, TypeOK, DelAfterDelete
  <2> QED
    BY <1>2, <1>4, <2>2, <2>3, <2>4, <2>5, <2>6, GotoInv
<1>5. CASE ~found[s] /\ Finish(s, 404)
  <2>0. 404 \in Status
    BY DEF Status
  <2>1. TypeOK'
    BY <1>2, <1>5, <2>0, FinishTyped DEF TypeOK, DelAfterDelete, db
  <2>2. ControlOK'
    BY <1>5, FinishControl
  <2>3. PendingWritesApplicable'
    BY <1>5, FinishPending DEF DelAfterDelete
  <2> QED
    BY <2>1, <2>2, <2>3
<1> QED
  BY <1>4, <1>5 DEF DelAfterDelete

\* The commit makes the pending writes of one slot visible; the locks it held
\* are what keeps the other slots' writes applicable afterwards.
LEMMA CommitInv ==
    ASSUME Inv, NEW s \in Slots, NEW code \in Status, pc[s] = "commit",
           ApplyWrites(s), Finish(s, code), UNCHANGED redis
    PROVE  Inv'
<1> USE DEF Inv
<1>1. OthersStill(s) /\ pc'[s] = "idle" /\ task' = task
  BY FinishStill
<1>2. user(s) \in Users /\ role(s) \in RoleNames
      /\ op(s) \in {"assign", "remove", "read"}
  BY TaskFields DEF TypeOK, user, role, op
<1>3. /\ op(s) = "assign" => role(s) \in Active
      /\ op(s) = "remove" => role(s) \in Catalog /\ found[s]
  BY DEF ControlOK, ControlAt
<1>4. ControlOK'
  BY FinishControl
<1>5. \A t \in Slots \ {s} :
        /\ user(t)' = user(t) /\ role(t)' = role(t)
        /\ PendingRole(t)' = PendingRole(t)
        /\ PendingInsert(t)' = PendingInsert(t)
        /\ PendingDelete(t)' = PendingDelete(t)
  BY <1>1 DEF OthersStill, user, role, op, PendingRole, PendingInsert, PendingDelete
<1>6. ~PendingRole(s)' /\ ~PendingInsert(s)' /\ ~PendingDelete(s)'
  BY <1>1 DEF PendingRole, PendingInsert, PendingDelete
<1>7. \A t \in Slots \ {s} : PendingInsert(t) => PendingRole(t)
  BY DEF PendingInsert, PendingRole
<1>8. CASE op(s) = "assign"
  <2>1. PendingRole(s) /\ PendingInsert(s)
    BY <1>8 DEF PendingRole, PendingInsert
  <2>2. /\ currentRole' = [currentRole EXCEPT ![user(s)] = {role(s)}]
        /\ userRoles' = [userRoles EXCEPT ![user(s)] = @ \cup {role(s)}]
    BY <2>1 DEF ApplyWrites
  <2>3. TypeOK'
    BY <1>3, <1>8, ApplyTyped, FinishTyped, CatalogAssumption DEF TypeOK, redis
  <2>4. \A t \in Slots \ {s} : PendingRole(t) => user(t) # user(s)
    BY <2>1 DEF PendingWritesApplicable
  <2>5. \A u \in Users : /\ currentRole[u] # {} => currentRole'[u] # {}
                         /\ userRoles[u] \subseteq userRoles'[u]
                         /\ u # user(s) => userRoles'[u] = userRoles[u]
    BY <1>2, <2>2 DEF TypeOK
  <2>6. \A t \in Slots : user(t) \in Users
    BY TaskFields DEF TypeOK, user
  <2>7. PendingWritesApplicable'
    BY <1>5, <1>6, <1>7, <2>4, <2>5, <2>6 DEF PendingWritesApplicable
  <2> QED
    BY <1>4, <2>3, <2>7
<1>9. CASE op(s) = "remove"
  <2>1. ~PendingRole(s) /\ ~PendingInsert(s) /\ PendingDelete(s)
    BY <1>3, <1>9 DEF PendingRole, PendingInsert, PendingDelete
  <2>2. /\ currentRole' = currentRole
        /\ userRoles' = [userRoles EXCEPT ![user(s)] = @ \ {role(s)}]
    BY <2>1 DEF ApplyWrites
  <2>3. TypeOK'
    BY <1>3, <1>9, ApplyTyped, FinishTyped DEF TypeOK, redis
  <2>4. \A t \in Slots \ {s} :
          PendingDelete(t) /\ user(t) = user(s) => role(t) # role(s)
    BY <2>1 DEF PendingWritesApplicable
  <2>5. \A u \in Users : /\ userRoles'[u] \subseteq userRoles[u]
                         /\ u # user(s) => userRoles'[u] = userRoles[u]
                         /\ \A r : r \in userRoles[u] /\ r # role(s) => r \in userRoles'[u]
    BY <1>2, <2>2 DEF TypeOK
  <2>6. \A t \in Slots : user(t) \in Users
    BY TaskFields DEF TypeOK, user
  <2>7. PendingWritesApplicable'
    BY <1>5, <1>6, <2>2, <2>4, <2>5, <2>6 DEF PendingWritesApplicable
  <2> QED
    BY <1>4, <2>3, <2>7
<1>10. CASE op(s) = "read"
  <2>1. ~PendingRole(s) /\ ~PendingInsert(s) /\ ~PendingDelete(s)
    BY <1>10 DEF PendingRole, PendingInsert, PendingDelete
  <2>2. UNCHANGED db
    BY <2>1 DEF ApplyWrites, db
  <2> QED
    BY <2>2, FinishInv
<1> QED
  BY <1>2, <1>8, <1>9, <1>10

\* A restart rolls everything back: nothing is pending.
LEMMA CrashInv == ASSUME Inv, Crash PROVE Inv'
<1> USE DEF Inv
<1>1. \A s \in Slots : pc'[s] = "idle"
  BY DEF Crash
<1>2. TypeOK'
  BY DEF Crash, TypeOK, PC, Status, db, redis
<1>3. ControlOK'
  BY <1>1 DEF ControlOK, ControlAt
<1>4. PendingWritesApplicable'
  BY <1>1 DEF PendingWritesApplicable, PendingRole, PendingInsert, PendingDelete
<1> QED
  BY <1>2, <1>3, <1>4

\* A user more invalidates no pending write.
LEMMA RegisterInv == ASSUME Inv, NEW u \in Users, Register(u) PROVE Inv'
<1> USE DEF Inv
<1>1. {DefaultRole} \in Opt(Catalog)
  BY OptMembers, CatalogAssumption
<1>2. TypeOK'
  BY <1>1 DEF Register, TypeOK, redis, slots
<1>3. \A s \in Slots : /\ user(s)' = user(s) /\ role(s)' = role(s) /\ user(s) \in Users
                       /\ PendingRole(s)' = PendingRole(s)
                       /\ PendingInsert(s)' = PendingInsert(s)
                       /\ PendingDelete(s)' = PendingDelete(s)
  BY TaskFields
     DEF Register, TypeOK, slots, user, role, op, PendingRole, PendingInsert, PendingDelete
<1>4. \A v \in Users : currentRole[v] # {} => currentRole'[v] # {}
  BY DEF Register, TypeOK
<1>5. PendingWritesApplicable'
  BY <1>3, <1>4 DEF PendingWritesApplicable, Register
<1>6. ControlOK'
  BY DEF ControlOK, ControlAt, Register, slots, op, role
<1> QED
  BY <1>2, <1>5, <1>6

\* A step that leaves the tables and the slots alone, or none at all.
LEMMA ExpireInv == ASSUME Inv, NEW u \in Users, Expire(u) PROVE Inv'
<1> USE DEF Inv
<1>1. TypeOK'
  BY OptMembers DEF Expire, TypeOK, db, slots
<1>2. ControlOK' /\ PendingWritesApplicable'
  BY DEF Expire, db, slots, ControlOK, ControlAt, PendingWritesApplicable, op, user, role,
         PendingRole, PendingInsert, PendingDelete
<1> QED
  BY <1>1, <1>2

\* Nothing happens.
LEMMA StutterInv == ASSUME Inv, UNCHANGED vars PROVE Inv'
<1> USE DEF Inv
<1>1. TypeOK'
  BY DEF vars, db, redis, slots, TypeOK
<1>2. ControlOK' /\ PendingWritesApplicable'
  BY DEF vars, db, slots, ControlOK, ControlAt, PendingWritesApplicable, op, user, role,
         PendingRole, PendingInsert, PendingDelete
<1> QED
  BY <1>1, <1>2

-----------------------------------------------------------------------------
\* Every step keeps the invariant.

\* Every step of a handler.
LEMMA StepInv == ASSUME Inv, NEW s \in Slots, Step(s) PROVE Inv'
<1>1. user(s) \in Users
  BY TaskFields DEF Inv, TypeOK, user
<1>2. ControlAt(s, pc[s])
  BY DEF Inv, ControlOK
<1>3. TypeOK
  BY DEF Inv
<1>4. {200, 201, 204, 404, 409, 500} \subseteq Status
  BY DEF Status
<1>5. CASE CacheHit(s)
  BY <1>4, <1>5, FinishInv DEF CacheHit
<1>6. CASE CacheMiss(s)
  <2>1. ControlAt(s, "select")
    BY <1>2, <1>6 DEF CacheMiss, ControlAt
  <2>2. (PendingRole(s)' => PendingRole(s)) /\ (PendingInsert(s)' => PendingInsert(s))
        /\ (PendingDelete(s)' => PendingDelete(s))
    BY <1>3, <1>6, GotoStill DEF CacheMiss, PendingRole, PendingInsert, PendingDelete
  <2> QED
    BY <1>3, <1>6, <2>1, <2>2, GotoInv DEF CacheMiss, PC, DbSteps, redis, TypeOK
<1>7. CASE SelectRoles(s)
  <2>1. ControlAt(s, "cache_set")
    BY <1>2, <1>7 DEF SelectRoles, ControlAt
  <2>2. (PendingRole(s)' => PendingRole(s)) /\ (PendingInsert(s)' => PendingInsert(s))
        /\ (PendingDelete(s)' => PendingDelete(s))
    BY <1>3, <1>7, GotoStill DEF SelectRoles, PendingRole, PendingInsert, PendingDelete
  <2>3. rows' \in [Slots -> SUBSET Catalog]
    BY <1>1, <1>3, <1>7 DEF SelectRoles, TypeOK
  <2> QED
    BY <1>3, <1>7, <2>1, <2>2, <2>3, GotoInv DEF SelectRoles, PC, DbSteps, redis, TypeOK
<1>8. CASE CacheSet(s)
  <2>1. ControlAt(s, "commit")
    BY <1>2, <1>8 DEF CacheSet, ControlAt
  <2>2. op(s) = "read"
    BY <1>2, <1>8 DEF CacheSet, ControlAt
  <2>3. (PendingRole(s)' => PendingRole(s)) /\ (PendingInsert(s)' => PendingInsert(s))
        /\ (PendingDelete(s)' => PendingDelete(s))
    BY <2>2, <1>8 DEF CacheSet, Goto, PendingRole, PendingInsert, PendingDelete, op
  <2>4. roleCache' \in [Users -> Opt(SUBSET Catalog)]
    <3>1. {rows[s]} \in Opt(SUBSET Catalog)
      BY <1>3, OptMembers DEF TypeOK
    <3> QED
      BY <1>1, <1>3, <1>8, <3>1 DEF CacheSet, TypeOK
  <2> QED
    BY <1>3, <1>8, <2>1, <2>3, <2>4, GotoInv DEF CacheSet, PC, DbSteps, TypeOK
<1>9. CASE FindRole(s)
  <2>1. CASE Finish(s, 404) \/ Finish(s, 409)
    BY <1>4, <1>9, <2>1, FinishInv DEF FindRole
  <2>2. CASE /\ op(s) = "assign" /\ role(s) \in Active
             /\ Goto(s, "select_email") /\ UNCHANGED <<found, rows>>
    <3>1. ControlAt(s, "select_email")
      BY <2>2 DEF ControlAt
    <3>2. (PendingRole(s)' => PendingRole(s)) /\ (PendingInsert(s)' => PendingInsert(s))
          /\ (PendingDelete(s)' => PendingDelete(s))
      BY <1>3, <2>2, GotoStill DEF PendingRole, PendingInsert, PendingDelete
    <3> QED
      BY <1>3, <1>9, <2>2, <3>1, <3>2, GotoInv DEF FindRole, PC, DbSteps, redis, TypeOK
  <2>3. CASE /\ op(s) = "remove" /\ role(s) \in Catalog
             /\ Goto(s, "delete") /\ UNCHANGED <<found, rows>>
    <3>1. ControlAt(s, "delete")
      BY <2>3 DEF ControlAt
    <3>2. (PendingRole(s)' => PendingRole(s)) /\ (PendingInsert(s)' => PendingInsert(s))
          /\ (PendingDelete(s)' => PendingDelete(s))
      BY <1>3, <2>3, GotoStill DEF PendingRole, PendingInsert, PendingDelete
    <3> QED
      BY <1>3, <1>9, <2>3, <3>1, <3>2, GotoInv DEF FindRole, PC, DbSteps, redis, TypeOK
  <2> QED
    BY <1>9, <2>1, <2>2, <2>3 DEF FindRole
<1>10. CASE SelectEmail(s)
  BY <1>10, SelectEmailInv
<1>11. CASE UpdateUser(s)
  BY <1>11, UpdateUserInv
<1>12. CASE DelAfterUpdate(s)
  <2>1. op(s) = "assign" /\ role(s) \in Active
    BY <1>2, <1>12 DEF DelAfterUpdate, ControlAt
  <2>2. PICK next \in {"del_email", "insert"} : Goto(s, next)
    BY <1>12 DEF DelAfterUpdate
  <2>3. ControlAt(s, next)
    BY <2>1, <2>2 DEF ControlAt
  <2>4. (PendingRole(s)' => PendingRole(s)) /\ (PendingInsert(s)' => PendingInsert(s))
        /\ (PendingDelete(s)' => PendingDelete(s))
    <3>1. task' = task /\ pc'[s] = next
      BY <1>3, <1>12, <2>2, GotoStill DEF DelAfterUpdate
    <3> QED
      BY <1>12, <2>1, <2>2, <3>1
         DEF DelAfterUpdate, PendingRole, PendingInsert, PendingDelete, op
  <2>5. /\ roleCache' \in [Users -> Opt(SUBSET Catalog)]
        /\ emailCache' \in [Users -> Opt(Catalog)]
    BY <1>1, <1>3, <1>12, DelTyped DEF DelAfterUpdate
  <2>6. next \in PC /\ rows' \in [Slots -> SUBSET Catalog] /\ UNCHANGED <<db, found>>
    BY <1>3, <1>12, <2>2 DEF DelAfterUpdate, PC, DbSteps, TypeOK
  <2> QED
    BY <2>2, <2>3, <2>4, <2>5, <2>6, GotoInv
<1>13. CASE DelEmail(s)
  <2>1. op(s) = "assign" /\ role(s) \in Active
    BY <1>2, <1>13 DEF DelEmail, ControlAt
  <2>2. ControlAt(s, "insert")
    BY <2>1 DEF ControlAt
  <2>3. (PendingRole(s)' => PendingRole(s)) /\ (PendingInsert(s)' => PendingInsert(s))
        /\ (PendingDelete(s)' => PendingDelete(s))
    <3>1. task' = task /\ pc'[s] = "insert"
      BY <1>3, <1>13, GotoStill DEF DelEmail
    <3> QED
      BY <1>13, <2>1, <3>1 DEF DelEmail, PendingRole, PendingInsert, PendingDelete, op
  <2>4. emailCache' \in [Users -> Opt(Catalog)]
    BY <1>1, <1>3, <1>13, OptMembers DEF DelEmail, TypeOK
  <2>5. "insert" \in PC /\ rows' \in [Slots -> SUBSET Catalog]
        /\ roleCache' \in [Users -> Opt(SUBSET Catalog)] /\ UNCHANGED <<db, found>>
    BY <1>3, <1>13 DEF DelEmail, PC, DbSteps, TypeOK
  <2> QED
    BY <1>13, <2>2, <2>3, <2>4, <2>5, GotoInv DEF DelEmail
<1>14. CASE InsertGrant(s)
  BY <1>14, InsertGrantInv
<1>15. CASE DelAfterInsert(s)
  <2>1. op(s) = "assign" /\ role(s) \in Active
    BY <1>2, <1>15 DEF DelAfterInsert, ControlAt
  <2>2. ControlAt(s, "commit")
    BY <2>1 DEF ControlAt
  <2>3. (PendingRole(s)' => PendingRole(s)) /\ (PendingInsert(s)' => PendingInsert(s))
        /\ (PendingDelete(s)' => PendingDelete(s))
    <3>1. task' = task /\ pc'[s] = "commit"
      BY <1>3, <1>15, GotoStill DEF DelAfterInsert
    <3> QED
      BY <1>15, <2>1, <3>1 DEF DelAfterInsert, PendingRole, PendingInsert, PendingDelete, op
  <2>4. /\ roleCache' \in [Users -> Opt(SUBSET Catalog)]
        /\ emailCache' \in [Users -> Opt(Catalog)]
    BY <1>1, <1>3, <1>15, DelTyped DEF DelAfterInsert
  <2>5. "commit" \in PC /\ rows' \in [Slots -> SUBSET Catalog] /\ UNCHANGED <<db, found>>
    BY <1>3, <1>15 DEF DelAfterInsert, PC, DbSteps, TypeOK
  <2> QED
    BY <1>15, <2>2, <2>3, <2>4, <2>5, GotoInv DEF DelAfterInsert
<1>16. CASE DeleteGrant(s)
  BY <1>16, DeleteGrantInv
<1>17. CASE DelAfterDelete(s)
  BY <1>17, DelAfterDeleteInv
<1>18. CASE Commit(s)
  <2>1. SuccessCode[op(s)] \in Status
    BY <1>3, TaskFields DEF SuccessCode, Status, TypeOK, op
  <2> QED
    BY <1>18, <2>1, CommitInv DEF Commit
<1> QED
  BY <1>5, <1>6, <1>7, <1>8, <1>9, <1>10, <1>11, <1>12, <1>13, <1>14, <1>15, <1>16,
     <1>17, <1>18 DEF Step

\* Every step of the specification.
LEMMA NextInv == Inv /\ [Next]_vars => Inv'
<1> SUFFICES ASSUME Inv, [Next]_vars PROVE Inv'
  OBVIOUS
<1>1. ASSUME NEW s \in Slots, Receive(s) PROVE Inv'
  BY <1>1, ReceiveInv
<1>2. ASSUME NEW s \in Slots, Step(s) PROVE Inv'
  BY <1>2, StepInv
<1>3. ASSUME NEW s \in Slots, Fault(s) PROVE Inv'
  <2>1. 500 \in Status
    BY DEF Status
  <2>2. CASE CommitUnacknowledged(s)
    BY <2>1, <2>2, CommitInv DEF CommitUnacknowledged
  <2>3. CASE DbError(s)
    BY <2>1, <2>3, FinishInv DEF DbError
  <2>4. CASE PoolTimeout(s)
    BY <2>1, <2>4, FinishInv DEF PoolTimeout
  <2> QED
    BY <1>3, <2>2, <2>3, <2>4 DEF Fault
<1>4. CASE Crash
  BY <1>4, CrashInv
<1>5. ASSUME NEW u \in Users, Expire(u) \/ Register(u) PROVE Inv'
  BY <1>5, ExpireInv, RegisterInv
<1>6. CASE UNCHANGED vars
  BY <1>6, StutterInv
<1> QED
  BY <1>1, <1>2, <1>3, <1>4, <1>5, <1>6 DEF Next, ServiceNext

\* In every behaviour, with any number of requests in flight and any faults.
THEOREM InvHolds == Spec => []Inv
<1> QED
  BY InitInv, NextInv, PTL DEF Spec

\* The variables keep their types.
THEOREM TypeCorrect == Spec => []TypeOK
<1>1. Inv => TypeOK
  BY DEF Inv
<1> QED
  BY <1>1, InvHolds, PTL

\* No pending write of a transaction is ever overtaken by another transaction.
THEOREM PendingApplicable == Spec => []PendingWritesApplicable
<1>1. Inv => PendingWritesApplicable
  BY DEF Inv
<1> QED
  BY <1>1, InvHolds, PTL

-----------------------------------------------------------------------------
\* The service implements RoleAssignments.

\* What a commit does to the tables is one step of RoleAssignments or nothing.
LEMMA CommitRefines ==
    ASSUME Inv, NEW s \in Slots, pc[s] = "commit", ApplyWrites(s)
    PROVE  RA!Next \/ UNCHANGED db
<1>1. user(s) \in Users /\ op(s) \in {"assign", "remove", "read"}
  BY TaskFields DEF Inv, TypeOK, user, op
<1>2. ControlAt(s, "commit")
  BY DEF Inv, ControlOK
<1>3. CASE op(s) = "assign"
  <2>1. PendingRole(s) /\ PendingInsert(s)
    BY <1>3 DEF PendingRole, PendingInsert
  <2>2. role(s) \in Active /\ role(s) \notin userRoles[user(s)] /\ currentRole[user(s)] # {}
    BY <2>1 DEF Inv, PendingWritesApplicable
  <2>3. RA!Assign(user(s), role(s))
    BY <2>1, <2>2 DEF RA!Assign, ApplyWrites
  <2> QED
    BY <1>1, <2>2, <2>3 DEF RA!Next
<1>4. CASE op(s) = "remove"
  <2>1. ~PendingRole(s) /\ ~PendingInsert(s) /\ PendingDelete(s) /\ role(s) \in Catalog
    BY <1>2, <1>4 DEF PendingRole, PendingInsert, PendingDelete, ControlAt
  <2>2. role(s) \in userRoles[user(s)]
    BY <2>1 DEF Inv, PendingWritesApplicable
  <2>3. RA!Remove(user(s), role(s))
    BY <2>1, <2>2 DEF RA!Remove, ApplyWrites
  <2> QED
    BY <1>1, <2>1, <2>3 DEF RA!Next
<1>5. CASE op(s) = "read"
  BY <1>5 DEF ApplyWrites, PendingRole, PendingInsert, PendingDelete, db
<1> QED
  BY <1>1, <1>3, <1>4, <1>5

\* A COMMIT is one atomic step of RoleAssignments; every other step of the service is a stutter.
LEMMA StepRefines == Inv /\ [Next]_vars => [RA!Next]_RA!vars
<1> SUFFICES ASSUME Inv, [Next]_vars PROVE RA!Next \/ UNCHANGED db
  BY DEF db, RA!vars
<1>1. ASSUME NEW s \in Slots, Receive(s) PROVE UNCHANGED db
  BY <1>1 DEF Receive
<1>2. ASSUME NEW s \in Slots, Step(s) PROVE RA!Next \/ UNCHANGED db
  <2>1. CASE Commit(s)
    BY <2>1, CommitRefines DEF Commit
  <2>2. CASE ~Commit(s)
    BY <1>2, <2>2
       DEF Step, CacheHit, CacheMiss, SelectRoles, CacheSet, FindRole, SelectEmail, UpdateUser,
           DelAfterUpdate, DelEmail, InsertGrant, DelAfterInsert, DeleteGrant, DelAfterDelete, db
  <2> QED
    BY <2>1, <2>2
<1>3. ASSUME NEW s \in Slots, Fault(s) PROVE RA!Next \/ UNCHANGED db
  BY <1>3, CommitRefines DEF Fault, CommitUnacknowledged, DbError, PoolTimeout
<1>4. CASE Crash
  BY <1>4 DEF Crash
<1>5. ASSUME NEW u \in Users, Expire(u) PROVE UNCHANGED db
  BY <1>5 DEF Expire
<1>6. ASSUME NEW u \in Users, Register(u) PROVE RA!Next
  BY <1>6 DEF Register, RA!Register, RA!Next
<1>7. CASE UNCHANGED vars
  BY <1>7 DEF vars
<1> QED
  BY <1>1, <1>2, <1>3, <1>4, <1>5, <1>6, <1>7 DEF Next, ServiceNext

\* users.role_id and user_roles change only in the atomic steps of
\* RoleAssignments, whatever the interleaving and the faults.
THEOREM Refinement == Spec => RefinesAssignments
<1>1. Init => RA!Init
  BY DEF Init, RA!Init
<1> QED
  BY <1>1, StepRefines, InvHolds, PTL DEF Spec, RefinesAssignments, RA!Spec

-----------------------------------------------------------------------------
\* What the answers say.

\* A slot that does not change its answer has nothing to show for it, and a
\* step of one slot changes no other slot's answer.
LEMMA QuietTruthful ==
    ASSUME NEW s \in Slots, NEW t \in Slots, answer'[t] = answer[t]
    PROVE  AckTruthful(t)
  BY DEF AckTruthful

\* If the slot that is answered is told the truth, all are.
LEMMA OthersTruthful ==
    ASSUME Inv, NEW s \in Slots, NEW code, Finish(s, code), AckTruthful(s)
    PROVE  \A t \in Slots : AckTruthful(t)
<1>1. \A t \in Slots \ {s} : answer'[t] = answer[t]
  BY DEF Inv, TypeOK, Finish
<1> QED
  BY <1>1, QuietTruthful

\* What a request answers after its COMMIT has just become true.
LEMMA CommitTruthful ==
    ASSUME Inv, NEW s \in Slots, Commit(s)
    PROVE  \A t \in Slots : AckTruthful(t)
<1>1. user(s) \in Users /\ op(s) \in {"assign", "remove", "read"}
  BY TaskFields DEF Inv, TypeOK, user, op
<1>2. ControlAt(s, "commit") /\ pc[s] = "commit" /\ ApplyWrites(s)
  BY DEF Inv, ControlOK, Commit
<1>3. answer'[s] = SuccessCode[op(s)]
  BY DEF Commit, Finish, Inv, TypeOK
<1>4. CASE op(s) = "assign"
  <2>1. PendingRole(s) /\ PendingInsert(s)
    BY <1>2, <1>4 DEF PendingRole, PendingInsert
  <2>2. role(s) \notin userRoles[user(s)]
    BY <2>1 DEF Inv, PendingWritesApplicable
  <2>3. currentRole'[user(s)] = {role(s)} /\ role(s) \in userRoles'[user(s)]
    BY <1>1, <1>2, <2>1 DEF ApplyWrites, Inv, TypeOK
  <2> QED
    BY <1>3, <1>4, <2>2, <2>3, OthersTruthful DEF AckTruthful, SuccessCode, Commit
<1>5. CASE op(s) = "remove"
  <2>1. ~PendingRole(s) /\ ~PendingInsert(s) /\ PendingDelete(s)
    BY <1>2, <1>5 DEF PendingRole, PendingInsert, PendingDelete, ControlAt
  <2>2. role(s) \in userRoles[user(s)]
    BY <2>1 DEF Inv, PendingWritesApplicable
  <2>3. role(s) \notin userRoles'[user(s)]
    BY <1>1, <1>2, <2>1 DEF ApplyWrites, Inv, TypeOK
  <2> QED
    BY <1>3, <1>5, <2>2, <2>3, OthersTruthful DEF AckTruthful, SuccessCode, Commit
<1>6. CASE op(s) = "read"
  BY <1>3, <1>6, OthersTruthful DEF AckTruthful, SuccessCode, Commit
<1> QED
  BY <1>1, <1>4, <1>5, <1>6

\* A slot that ends without touching the tables may answer any error.
LEMMA FinishTruthful ==
    ASSUME Inv, NEW s \in Slots, NEW code \in {200, 404, 409, 500}, Finish(s, code),
           UNCHANGED db
    PROVE  \A t \in Slots : AckTruthful(t)
<1>1. answer'[s] = code
  BY DEF Finish, Inv, TypeOK
<1> QED
  BY <1>1, OthersTruthful DEF AckTruthful

\* Every step of the specification.
LEMMA NextTruthful == Inv /\ [Next]_vars => [\A s \in Slots : AckTruthful(s)]_vars
<1> SUFFICES ASSUME Inv, [Next]_vars PROVE \A t \in Slots : AckTruthful(t)
  OBVIOUS
<1>1. ASSUME NEW s \in Slots, Receive(s) PROVE \A t \in Slots : AckTruthful(t)
  BY <1>1 DEF Receive, Inv, TypeOK, AckTruthful
<1>2. ASSUME NEW s \in Slots, Step(s) PROVE \A t \in Slots : AckTruthful(t)
  <2>1. CASE Commit(s)
    BY <2>1, CommitTruthful
  <2>2. CASE \E code \in {200, 404, 409, 500} : Finish(s, code) /\ UNCHANGED db
    BY <2>2, FinishTruthful
  <2>3. CASE UNCHANGED answer
    BY <2>3, QuietTruthful
  <2> QED
    BY <1>2, <2>1, <2>2, <2>3
       DEF Step, CacheHit, CacheMiss, SelectRoles, CacheSet, FindRole, SelectEmail, UpdateUser,
           DelAfterUpdate, DelEmail, InsertGrant, DelAfterInsert, DeleteGrant,
           DelAfterDelete, Goto
<1>3. ASSUME NEW s \in Slots, Fault(s) PROVE \A t \in Slots : AckTruthful(t)
  <2>1. CASE CommitUnacknowledged(s)
    <3>1. answer'[s] = 500
      BY <2>1 DEF CommitUnacknowledged, Finish, Inv, TypeOK
    <3> QED
      BY <2>1, <3>1, OthersTruthful DEF CommitUnacknowledged, AckTruthful
  <2>2. CASE DbError(s) \/ PoolTimeout(s)
    BY <2>2, FinishTruthful DEF DbError, PoolTimeout
  <2> QED
    BY <1>3, <2>1, <2>2 DEF Fault
<1>4. CASE Crash
  BY <1>4 DEF Crash, AckTruthful
<1>5. ASSUME NEW u \in Users, Expire(u) \/ Register(u) PROVE \A t \in Slots : AckTruthful(t)
  BY <1>5, QuietTruthful DEF Expire, Register, slots
<1>6. CASE UNCHANGED vars
  BY <1>6, QuietTruthful DEF vars, slots
<1> QED
  BY <1>1, <1>2, <1>3, <1>4, <1>5, <1>6 DEF Next, ServiceNext

\* Every 201 is one new grant, every 204 one row gone, every 404 or 409 no
\* change, for any number of concurrent requests and any faults.
THEOREM AcksTruthful == Spec => AckedMeansCommitted
<1> QED
  BY NextTruthful, InvHolds, PTL DEF Spec, AckedMeansCommitted

-----------------------------------------------------------------------------
\* The service in its environment.

\* The service makes no users, deletes none, and only takes keys of the auth
\* service's cache away.
LEMMA ServiceKeepsUsers ==
    ASSUME Inv, ServiceNext
    PROVE  \A u \in Users : /\ currentRole'[u] # {} <=> currentRole[u] # {}
                            /\ emailCache'[u] \subseteq emailCache[u]
<1> USE DEF Inv
<1> DEFINE Kept == \A u \in Users : /\ currentRole'[u] # {} <=> currentRole[u] # {}
                                    /\ emailCache'[u] \subseteq emailCache[u]
<1>1. ASSUME NEW s \in Slots, ApplyWrites(s), UNCHANGED redis PROVE Kept
  <2>1. PendingRole(s) => currentRole[user(s)] # {}
    BY DEF PendingWritesApplicable
  <2> QED
    BY <1>1, <2>1 DEF ApplyWrites, redis, TypeOK
<1>2. CASE UNCHANGED <<db, redis>>
  BY <1>2 DEF db, redis
<1>3. ASSUME NEW s \in Slots,
             CacheSet(s) \/ DelAfterUpdate(s) \/ DelAfterInsert(s) \/ DelAfterDelete(s)
      PROVE  Kept
  BY <1>3 DEF CacheSet, DelAfterUpdate, DelAfterInsert, DelAfterDelete, Del, db
<1>4. ASSUME NEW s \in Slots, DelEmail(s) PROVE Kept
  BY <1>4 DEF DelEmail, db, TypeOK
<1>5. ASSUME NEW s \in Slots, Receive(s) \/ Step(s) \/ Fault(s) PROVE Kept
  BY <1>1, <1>2, <1>3, <1>4, <1>5
     DEF Receive, Step, Fault, CacheHit, CacheMiss, SelectRoles, FindRole, SelectEmail,
         UpdateUser, InsertGrant, DeleteGrant, Commit, CommitUnacknowledged, DbError, PoolTimeout
<1>6. ASSUME Crash PROVE Kept
  BY <1>2, <1>6 DEF Crash
<1> QED
  BY <1>5, <1>6 DEF ServiceNext

\* And whatever else happens to the shared tables and the auth service's keys,
\* the service notices nothing as long as no user disappears.
LEMMA OutsideInv ==
    ASSUME Inv, UNCHANGED <<userRoles, roleCache, slots>>,
           currentRole' \in [Users -> Opt(Catalog)],
           emailCache' \in [Users -> Opt(Catalog)],
           \A u \in Users : currentRole[u] # {} => currentRole'[u] # {}
    PROVE  Inv'
<1> USE DEF Inv
<1>1. UNCHANGED <<task, pc, found, rows, answer>>
  BY DEF slots
<1>2. TypeOK' /\ ControlOK'
  BY <1>1 DEF TypeOK, ControlOK, ControlAt, op, role
<1>3. \A s \in Slots : user(s) \in Users
  BY TaskFields DEF TypeOK, user
<1>4. PendingWritesApplicable'
  BY <1>1, <1>3 DEF PendingWritesApplicable, PendingRole, PendingInsert, PendingDelete,
                    op, user, role
<1> QED
  BY <1>2, <1>4
=============================================================================
