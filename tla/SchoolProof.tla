---------------------------- MODULE SchoolProof ----------------------------
(***************************************************************************)
(* Proofs about ClassRoll for any number of requests, students, teachers   *)
(* and classes, any cap and capacity, and any number of failures; and      *)
(* about BlogDiscourse for any comments, users, types of reactions,        *)
(* reporters, schools and requests, any threshold and number of mishaps.   *)
(***************************************************************************)
EXTENDS ClassRoll, BlogDiscourse, FiniteSetTheorems, FunctionTheorems, TLAPS

Enrolling(a) == admin[a].step \in {"user", "student", "undo"}

(* A request is about a class; enrolments and moves are of students,        *)
(* appointments of teachers.                                                *)
WhoType ==
    \A a \in Admins :
       /\ admin[a].step # "idle" => admin[a].class \in Classes
       /\ At(a, "auth") \/ Enrolling(a) \/ At(a, "move") => admin[a].who \in Students
       /\ admin[a].step \in {"unset", "set"} => admin[a].who \in Teachers

Typed == TypeOK /\ WhoType

(* An account is being enrolled by one request at most, who has not put    *)
(* the student on the roll yet; and a student on the roll is a user.       *)
Identity ==
    /\ \A s \in Students : Enrolled(s) => user[s] # "none"
    /\ \A a \in Admins : Enrolling(a) => admin[a].who \in auth
    /\ \A a \in Admins : At(a, "student") => ~Enrolled(admin[a].who)
    /\ \A a, b \in Admins : Enrolling(a) /\ Enrolling(b) /\ admin[a].who = admin[b].who => a = b

(* The students who are in a class or about to be, unless a class is        *)
(* crossed or a full one was not seen to be, never need more than its       *)
(* places.                                                                  *)
Coming(c) ==
    {s \in Students : \E a \in Admins :
        /\ \/ At(a, "auth") \/ At(a, "user") \/ At(a, "student")
           \/ At(a, "move") /\ Active(s)
        /\ admin[a].class = c /\ admin[a].who = s}
Room == \A c \in Classes \ (crossed \union unread) : Cardinality(ActiveIn(c) \union Coming(c)) <= Capacity

(* The lock is held through an appointment and by whoever gives it back;    *)
(* the former homeroom teacher is gone when the new one is set, unless the  *)
(* unset failed.                                                            *)
Appointing(a) == admin[a].step \in {"unset", "set"}
Locked ==
    \A c \in Classes \ unlocked, a \in Admins :
       /\ (Appointing(a) \/ At(a, "unlock")) /\ admin[a].class = c => lock[c] = a
       /\ At(a, "set") /\ admin[a].class = c /\ admin[a].homeroom /\ c \notin uncleared =>
             \A t \in Teachers : staff[c][t] # "homeroom"

(* A sync that nobody crosses works on the members as they are, but for     *)
(* users who have been deleted since, and when it is over the group has the *)
(* members.                                                                 *)
Gone == {s \in Students : user[s] = "none"}
Reading(c) == \E a \in Admins : At(a, "read") /\ admin[a].class = c
Alone(c) == \A a, b \in Admins : Syncing(a, c) /\ Syncing(b, c) => a = b
OnWay(a, c) ==
    /\ At(a, "add") => admin[a].members \ Gone = Members(c)
    /\ At(a, "list") => group[c] \intersect admin[a].members = Members(c)
    /\ At(a, "prune") => group[c] \ admin[a].members = Members(c)
Follows(c) == Reading(c) \/ \A a \in Admins : Syncing(a, c) => OnWay(a, c)
Settled(c) ==
    \/ Reading(c)
    \/ \E a \in Admins : Syncing(a, c)
    \/ group[c] = Members(c)
InStep == \A c \in Classes \ behind : Alone(c) /\ Follows(c) /\ Settled(c)

IInv == /\ Typed /\ Identity /\ NoOrphanAccount /\ CapKept /\ Room
        /\ Locked /\ OneHomeroom /\ InStep

-----------------------------------------------------------------------------
(* What the four ways to write a request's record make of it. *)
Steps == {"idle", "auth", "user", "student", "undo", "move", "unset", "set", "read", "add",
          "list", "prune", "unlock"}
People == Students \union Teachers
Same(a) == \A b \in Admins : b # a => admin'[b] = admin[b]
Keeps(a) == /\ admin'[a].who = admin[a].who /\ admin'[a].class = admin[a].class
            /\ admin'[a].homeroom = admin[a].homeroom

LEMMA GotoFacts ==
    ASSUME admin \in [Admins -> Row], NEW a \in Admins, NEW step \in Steps, Goto(a, step)
    PROVE  /\ admin' \in [Admins -> Row] /\ Same(a) /\ Keeps(a)
           /\ admin'[a].step = step /\ admin'[a].members = admin[a].members
<1>1. [admin[a] EXCEPT !.step = step] \in Row
  BY DEF Row, Steps
<1>2. admin' = [admin EXCEPT ![a] = [admin[a] EXCEPT !.step = step]]
  BY DEF Goto
<1>. QED  BY <1>1, <1>2 DEF Row, Same, Keeps

LEMMA TakeFacts ==
    ASSUME admin \in [Admins -> Row], NEW a \in Admins, NEW step \in Steps,
           NEW m \in SUBSET People,
           admin' = [admin EXCEPT ![a].step = step, ![a].members = m]
    PROVE  /\ admin' \in [Admins -> Row] /\ Same(a) /\ Keeps(a)
           /\ admin'[a].step = step /\ admin'[a].members = m
<1>1. [admin[a] EXCEPT !.step = step, !.members = m] \in Row
  BY DEF Row, Steps, People
<1>2. admin' = [admin EXCEPT ![a] = [admin[a] EXCEPT !.step = step, !.members = m]]
  OBVIOUS
<1>. QED  BY <1>1, <1>2 DEF Row, Same, Keeps

LEMMA RestFacts ==
    ASSUME admin \in [Admins -> Row], NEW a \in Admins, Rest(a)
    PROVE  /\ admin' \in [Admins -> Row] /\ Same(a)
           /\ admin'[a].step = "idle"
BY DEF Rest, Row, Idle, Same

LEMMA BeginFacts ==
    ASSUME admin \in [Admins -> Row], calls \in 0..MaxCalls,
           NEW a \in Admins, NEW step \in Steps, NEW p \in People, NEW c \in Classes,
           NEW lead \in BOOLEAN, Begin(a, step, p, c, lead)
    PROVE  /\ admin' \in [Admins -> Row] /\ Same(a) /\ calls' \in 0..MaxCalls
           /\ admin[a].step = "idle"
           /\ admin'[a] = [step |-> step, who |-> p, class |-> c, homeroom |-> lead, members |-> {}]
BY BoundsAssumption DEF Begin, Row, Idle, Same, Steps, People

LEMMA FailureFacts == failures \in 0..MaxFailures /\ Failure => failures' \in 0..MaxFailures
BY BoundsAssumption DEF Failure

(* A request ends through the lock or at once. *)
LEMMA LeaveFacts ==
    ASSUME admin \in [Admins -> Row], NEW a \in Admins, Leave(a)
    PROVE  /\ admin' \in [Admins -> Row] /\ Same(a)
           /\ admin'[a].step \in {"idle", "unlock"}
BY GotoFacts, RestFacts DEF Leave, Steps

-----------------------------------------------------------------------------
LEMMA MembersType == \A c : Members(c) \in SUBSET People
BY DEF Members, People

LEMMA TypeStep == Typed /\ [Next]_vars => TypeOK'
<1> SUFFICES ASSUME TypeOK, WhoType, [Next]_vars PROVE TypeOK'
  BY DEF Typed
<1> USE DEF TypeOK, accounts, classes, ghosts
<1>1. CASE UNCHANGED vars
  BY <1>1 DEF vars
<1>2. ASSUME NEW a \in Admins, NEW c \in Classes, NEW s \in Students, Enrol(a, s, c)
      PROVE  TypeOK'
  <2>1. admin' \in [Admins -> Row] /\ calls' \in 0..MaxCalls
    BY <1>2, BeginFacts DEF Enrol, Steps, People
  <2>. QED  BY <1>2, <2>1, FailureFacts DEF Enrol, Admit
<1>3. ASSUME NEW a \in Admins, NEW c \in Classes, NEW s \in Students, Move(a, s, c)
      PROVE  TypeOK'
  <2>1. admin' \in [Admins -> Row] /\ calls' \in 0..MaxCalls
    BY <1>3, BeginFacts DEF Move, Steps, People
  <2>. QED  BY <1>3, <2>1, FailureFacts DEF Move, Admit
<1>4. ASSUME NEW a \in Admins, NEW c \in Classes, NEW t \in Teachers, Dismiss(a, t, c)
      PROVE  TypeOK'
  <2>1. admin' \in [Admins -> Row] /\ calls' \in 0..MaxCalls
    BY <1>4, BeginFacts DEF Dismiss, Steps, People
  <2>. QED  BY <1>4, <2>1 DEF Dismiss
<1>5. ASSUME NEW a \in Admins, NEW c \in Classes, NEW t \in Teachers, NEW lead \in BOOLEAN,
             Appoint(a, t, c, lead)
      PROVE  TypeOK'
  <2>1. admin' \in [Admins -> Row] /\ calls' \in 0..MaxCalls
    BY <1>5, BoundsAssumption DEF Appoint, Begin, Row
  <2>. QED  BY <1>5, <2>1, FailureFacts DEF Appoint
<1>6. ASSUME NEW a \in Admins PROVE CreateAuth(a) => TypeOK'
  BY GotoFacts, RestFacts DEF CreateAuth, WhoType, At, Steps
<1>7. ASSUME NEW a \in Admins PROVE InsertUser(a) => TypeOK'
  BY GotoFacts DEF InsertUser, MakeUser, Steps
<1>8. ASSUME NEW a \in Admins PROVE InsertStudent(a) => TypeOK'
  BY GotoFacts DEF InsertStudent, MakeStudent, WhoType, At, Steps
<1>9. ASSUME NEW a \in Admins PROVE Undo(a) => TypeOK'
  BY RestFacts DEF Undo
<1>10. ASSUME NEW a \in Admins PROVE WriteMove(a) => TypeOK'
  BY GotoFacts, RestFacts DEF WriteMove, WhoType, At, Enrolled, Steps
<1>11. ASSUME NEW a \in Admins PROVE InsertFails(a) => TypeOK'
  BY GotoFacts, FailureFacts DEF InsertFails, MakeUser, MakeStudent, WhoType, At, Steps
<1>26. ASSUME NEW a \in Admins PROVE AuthFails(a) \/ UndoFails(a) => TypeOK'
  BY RestFacts, FailureFacts DEF AuthFails, UndoFails, WhoType, Enrolling, At
<1>27. ASSUME NEW a \in Admins PROVE UnsetFails(a) \/ AppointFails(a) => TypeOK'
  BY GotoFacts, LeaveFacts, FailureFacts DEF UnsetFails, AppointFails, WhoType, At, Steps
<1>12. ASSUME NEW a \in Admins, Unset(a) PROVE TypeOK'
  <2>1. admin' \in [Admins -> Row]
    BY <1>12, GotoFacts DEF Unset, Steps
  <2>. QED  BY <1>12, <2>1 DEF Unset
<1>13. ASSUME NEW a \in Admins, Set(a) PROVE TypeOK'
  <2>1. admin' \in [Admins -> Row]
    BY <1>13, GotoFacts DEF Set, Steps
  <2>. QED  BY <1>13, <2>1 DEF Set
<1>14. ASSUME NEW a \in Admins PROVE Unlock(a) => TypeOK'
  BY RestFacts DEF Unlock
<1>15. ASSUME NEW a \in Admins, ReadMembers(a) PROVE TypeOK'
  <2>1. admin' \in [Admins -> Row]
    BY <1>15, MembersType, TakeFacts DEF ReadMembers, Steps
  <2>. QED  BY <1>15, <2>1 DEF ReadMembers, WhoType, At
<1>16. ASSUME NEW a \in Admins, ReadFails(a) PROVE TypeOK'
  <2>1. PICK lost \in {Students, Teachers} :
             admin' = [admin EXCEPT ![a].step = "add",
                                    ![a].members = Members(admin[a].class) \ lost]
    BY <1>16 DEF ReadFails
  <2>2. Members(admin[a].class) \ lost \in SUBSET People
    BY MembersType
  <2>3. admin' \in [Admins -> Row]
    BY <2>1, <2>2, TakeFacts DEF Steps
  <2>. QED  BY <1>16, <2>3, FailureFacts DEF ReadFails, WhoType, At
<1>17. ASSUME NEW a \in Admins, AddMembers(a) PROVE TypeOK'
  <2>1. admin[a].class \in Classes /\ admin[a].members \subseteq People
    BY <1>17 DEF AddMembers, WhoType, At, Row, People
  <2>2. /\ group' \in [Classes -> SUBSET People]
        /\ behind' = behind \/ behind' = behind \union {admin[a].class}
        /\ Goto(a, "list") \/ Leave(a)
    BY <1>17, <2>1 DEF AddMembers, People
  <2>3. admin' \in [Admins -> Row]
    BY <2>2, GotoFacts, LeaveFacts DEF Steps
  <2>. QED  BY <1>17, <2>1, <2>2, <2>3 DEF AddMembers, People
<1>18. ASSUME NEW a \in Admins, ListStale(a) PROVE TypeOK'
  <2>1. group[admin[a].class] \ admin[a].members \in SUBSET People
    BY <1>18 DEF ListStale, WhoType, At, People
  <2>2. admin' \in [Admins -> Row]
    BY <1>18, <2>1, TakeFacts DEF ListStale, Steps
  <2>. QED  BY <1>18, <2>2 DEF ListStale
<1>19. ASSUME NEW a \in Admins PROVE Prune(a) => TypeOK'
  BY LeaveFacts DEF Prune
<1>20. ASSUME NEW a \in Admins PROVE SyncFails(a) => TypeOK'
  BY LeaveFacts, FailureFacts DEF SyncFails, WhoType, At
<1>21. ASSUME NEW a \in Admins, Dies(a) PROVE TypeOK'
  <2>1. admin[a].step # "idle" => admin[a].class \in Classes
    BY DEF WhoType
  <2>2. admin[a].step \in {"user", "student", "undo"} => admin[a].who \in Students
    BY DEF WhoType, Enrolling
  <2>. QED  BY <1>21, <2>1, <2>2, RestFacts, FailureFacts DEF Dies, Syncing, At
<1>22. ASSUME NEW s \in Students PROVE Deactivate(s) => TypeOK'
  BY BoundsAssumption DEF Deactivate
<1>23. ASSUME NEW s \in Students PROVE Reactivate(s) => TypeOK'
  BY BoundsAssumption DEF Reactivate
<1>24. ASSUME NEW s \in Students PROVE Remove(s) => TypeOK'
  BY BoundsAssumption DEF Remove
<1>25. ASSUME NEW c \in Classes PROVE LockExpires(c) => TypeOK'
  BY FailureFacts DEF LockExpires
<1>28. ASSUME NEW c \in Classes, NEW m \in People PROVE Withdraw(c, m) => TypeOK'
  BY BoundsAssumption DEF Withdraw
<1>. QED
  BY <1>1, <1>2, <1>3, <1>4, <1>5, <1>6, <1>7, <1>8, <1>9, <1>10, <1>11, <1>12, <1>13, <1>14,
     <1>15, <1>16, <1>17, <1>18, <1>19, <1>20, <1>21, <1>22, <1>23, <1>24, <1>25, <1>26, <1>27,
     <1>28
  DEF Next, Enrolment, Sync, People

(* A request keeps its person and its class to the end. *)
Onward(b) ==
    \/ admin'[b] = admin[b]
    \/ admin'[b].step = "idle"
    \/ /\ admin[b].step = "idle" /\ admin'[b].class \in Classes
       /\ \/ admin'[b].step \in {"auth", "move"} /\ admin'[b].who \in Students
          \/ admin'[b].step \in {"unset", "set"} /\ admin'[b].who \in Teachers
          \/ admin'[b].step = "read"
    \/ /\ admin[b].step # "idle" /\ Keeps(b)
       /\ \/ admin'[b].step \in {"read", "add", "list", "prune", "unlock"}
          \/ admin[b].step \in {"auth", "user", "student"} /\ Enrolling(b)'
          \/ admin[b].step = "unset" /\ admin'[b].step = "set"

LEMMA OnwardStep == Typed /\ [Next]_vars => \A b \in Admins : Onward(b)
<1> SUFFICES ASSUME TypeOK, [Next]_vars PROVE \A b \in Admins : Onward(b)
  BY DEF Typed
<1>0. admin \in [Admins -> Row] /\ calls \in 0..MaxCalls
  BY DEF TypeOK
<1> USE <1>0 DEF Onward, At, Same, Enrolling
<1>1. CASE UNCHANGED vars
  BY <1>1 DEF vars
<1>2. ASSUME NEW a \in Admins, NEW c \in Classes, NEW s \in Students, Enrol(a, s, c)
      PROVE  \A b \in Admins : Onward(b)
  BY <1>2 DEF Enrol, Begin, Idle, Row
<1>3. ASSUME NEW a \in Admins, NEW c \in Classes, NEW s \in Students, Move(a, s, c)
      PROVE  \A b \in Admins : Onward(b)
  BY <1>3 DEF Move, Begin, Idle, Row
<1>4. ASSUME NEW a \in Admins, NEW c \in Classes, NEW t \in Teachers, Dismiss(a, t, c)
      PROVE  \A b \in Admins : Onward(b)
  BY <1>4 DEF Dismiss, Begin, Idle, Row
<1>5. ASSUME NEW a \in Admins, NEW c \in Classes, NEW t \in Teachers, NEW lead \in BOOLEAN,
             Appoint(a, t, c, lead)
      PROVE  \A b \in Admins : Onward(b)
  BY <1>5 DEF Appoint, Begin, Idle, Row
<1>6. ASSUME NEW a \in Admins, CreateAuth(a) PROVE \A b \in Admins : Onward(b)
  BY <1>6, GotoFacts, RestFacts DEF CreateAuth, Steps
<1>7. ASSUME NEW a \in Admins, InsertUser(a) PROVE \A b \in Admins : Onward(b)
  BY <1>7, GotoFacts DEF InsertUser, Steps
<1>8. ASSUME NEW a \in Admins, InsertStudent(a) PROVE \A b \in Admins : Onward(b)
  BY <1>8, GotoFacts DEF InsertStudent, Steps
<1>9. ASSUME NEW a \in Admins, Undo(a) \/ UndoFails(a) \/ AuthFails(a) \/ Unlock(a) \/ Dies(a)
      PROVE  \A b \in Admins : Onward(b)
  BY <1>9, RestFacts DEF Undo, UndoFails, AuthFails, Unlock, Dies
<1>10. ASSUME NEW a \in Admins, WriteMove(a) PROVE \A b \in Admins : Onward(b)
  BY <1>10, GotoFacts, RestFacts DEF WriteMove, Steps
<1>11. ASSUME NEW a \in Admins, InsertFails(a) PROVE \A b \in Admins : Onward(b)
  BY <1>11, GotoFacts DEF InsertFails, Steps
<1>12. ASSUME NEW a \in Admins, Unset(a) \/ UnsetFails(a) PROVE \A b \in Admins : Onward(b)
  BY <1>12, GotoFacts DEF Unset, UnsetFails, Steps
<1>13. ASSUME NEW a \in Admins, Set(a) PROVE \A b \in Admins : Onward(b)
  BY <1>13, GotoFacts DEF Set, Steps
<1>14. ASSUME NEW a \in Admins, ReadMembers(a) \/ ReadFails(a) \/ ListStale(a)
      PROVE  \A b \in Admins : Onward(b)
  BY <1>14 DEF ReadMembers, ReadFails, ListStale, Row, Keeps
<1>15. ASSUME NEW a \in Admins, AddMembers(a) \/ Prune(a) \/ SyncFails(a) \/ AppointFails(a)
      PROVE  \A b \in Admins : Onward(b)
  BY <1>15, GotoFacts, RestFacts DEF AddMembers, Prune, SyncFails, AppointFails, Leave, Steps
<1>16. ASSUME NEW s \in Students, Deactivate(s) \/ Reactivate(s) \/ Remove(s)
      PROVE  \A b \in Admins : Onward(b)
  BY <1>16 DEF Deactivate, Reactivate, Remove
<1>17. ASSUME NEW c \in Classes, LockExpires(c) \/ \E m \in People : Withdraw(c, m)
       PROVE  \A b \in Admins : Onward(b)
  BY <1>17 DEF LockExpires, Withdraw
<1>. QED
  BY <1>1, <1>2, <1>3, <1>4, <1>5, <1>6, <1>7, <1>8, <1>9, <1>10, <1>11, <1>12, <1>13, <1>14,
     <1>15, <1>16, <1>17
  DEF Next, Enrolment, Sync, People

LEMMA TypedStep == Typed /\ [Next]_vars => Typed'
<1>1. Typed /\ [Next]_vars => TypeOK' /\ \A b \in Admins : Onward(b)
  BY TypeStep, OnwardStep
<1>. QED  BY <1>1 DEF Typed, TypeOK, WhoType, Onward, Keeps, Enrolling, At
-----------------------------------------------------------------------------
(* Steps that neither touch an account nor belong to an enrolment or move. *)
EnrolSteps == {"auth", "user", "student", "undo", "move"}
Aside ==
    /\ UNCHANGED <<auth, user, student, crossed, unread, stray>>
    /\ \A b \in Admins :
          \/ admin'[b] = admin[b]
          \/ admin[b].step \notin EnrolSteps /\ admin'[b].step \notin EnrolSteps

LEMMA AsideStep ==
    ASSUME Typed,
           \/ \E a \in Admins :
                 \/ \E c \in Classes, t \in Teachers :
                       Dismiss(a, t, c) \/ \E lead \in BOOLEAN : Appoint(a, t, c, lead)
                 \/ Unset(a) \/ UnsetFails(a) \/ Set(a) \/ AppointFails(a) \/ Unlock(a)
                 \/ Sync(a) \/ ReadFails(a) \/ SyncFails(a)
           \/ \E c \in Classes : LockExpires(c) \/ \E m \in People : Withdraw(c, m)
           \/ UNCHANGED vars
    PROVE  Aside
<1>0. admin \in [Admins -> Row] /\ calls \in 0..MaxCalls
  BY DEF Typed, TypeOK
<1> USE <1>0 DEF Aside, EnrolSteps, At, Same, accounts, ghosts
<1>1. ASSUME NEW a \in Admins, NEW c \in Classes, NEW t \in Teachers, Dismiss(a, t, c) PROVE Aside
  BY <1>1 DEF Dismiss, Begin, Idle, Row
<1>2. ASSUME NEW a \in Admins, NEW c \in Classes, NEW t \in Teachers, NEW lead \in BOOLEAN,
             Appoint(a, t, c, lead)
      PROVE  Aside
  BY <1>2 DEF Appoint, Begin, Idle, Row
<1>3. ASSUME NEW a \in Admins, Unset(a) \/ UnsetFails(a) \/ Set(a) \/ Unlock(a) PROVE Aside
  BY <1>3, GotoFacts, RestFacts DEF Unset, UnsetFails, Set, Unlock, Steps
<1>4. ASSUME NEW a \in Admins, Sync(a) PROVE Aside
  BY <1>4, GotoFacts, LeaveFacts DEF Sync, ReadMembers, AddMembers, ListStale, Prune, Row, Steps
<1>5. ASSUME NEW a \in Admins, ReadFails(a) \/ SyncFails(a) \/ AppointFails(a) PROVE Aside
  BY <1>5, LeaveFacts DEF ReadFails, SyncFails, AppointFails, Row
<1>6. CASE \E c \in Classes : LockExpires(c) \/ \E m \in People : Withdraw(c, m)
  BY <1>6 DEF LockExpires, Withdraw
<1>7. CASE UNCHANGED vars
  BY <1>7 DEF vars
<1>. QED  BY <1>1, <1>2, <1>3, <1>4, <1>5, <1>6, <1>7

(* A student on the roll is a user, one request enrols an account, and no   *)
(* account is without a users row but a stray one.                          *)
LEMMA IdentityStep == Typed /\ Identity /\ NoOrphanAccount /\ [Next]_vars
                        => Identity' /\ NoOrphanAccount'
<1> SUFFICES ASSUME Typed, Identity, NoOrphanAccount, [Next]_vars
             PROVE  Identity' /\ NoOrphanAccount'
  OBVIOUS
<1>0. admin \in [Admins -> Row] /\ calls \in 0..MaxCalls /\ auth \in SUBSET Students
      /\ user \in [Students -> {"none", "active", "inactive"}]
      /\ student \in [Students -> Classes \union {Nobody}]
  BY DEF Typed, TypeOK
<1>1. ASSUME Aside PROVE Identity' /\ NoOrphanAccount'
  <2>1. UNCHANGED <<auth, user, student, stray>>
    BY <1>1 DEF Aside
  <2>2. \A b \in Admins :
           admin[b].step \in EnrolSteps \/ admin'[b].step \in EnrolSteps => admin'[b] = admin[b]
    BY <1>1 DEF Aside
  <2>3. Identity'
    BY <2>1, <2>2 DEF EnrolSteps, Identity, Enrolled, Enrolling, At
  <2>4. NoOrphanAccount'
    BY <2>1, <2>2 DEF EnrolSteps, NoOrphanAccount
  <2>. QED  BY <2>3, <2>4
<1> USE <1>0 DEF Identity, NoOrphanAccount, Enrolled, Enrolling, At, Same
<1>2. ASSUME NEW a \in Admins, NEW c \in Classes, NEW s \in Students, Enrol(a, s, c) \/ Move(a, s, c)
      PROVE  Identity' /\ NoOrphanAccount'
  <2>1. /\ UNCHANGED <<auth, user, student, stray>> /\ Same(a)
        /\ admin[a].step = "idle" /\ admin'[a].step \in {"auth", "move"}
    BY <1>2 DEF Enrol, Move, Begin, Idle, Row, accounts
  <2>2. Identity'
    BY <2>1
  <2>3. NoOrphanAccount'
    BY <2>1
  <2>. QED  BY <2>2, <2>3
<1>3. ASSUME NEW a \in Admins, CreateAuth(a) PROVE Identity' /\ NoOrphanAccount'
  <2>1. Same(a) /\ auth' = auth \union {admin[a].who} /\ UNCHANGED <<user, student, stray>>
    BY <1>3, GotoFacts, RestFacts DEF CreateAuth, Steps, ghosts
  <2>2. CASE admin[a].who \in auth
    BY <1>3, <2>1, <2>2, RestFacts DEF CreateAuth
  <2>3. CASE admin[a].who \notin auth
    <3>1. /\ admin'[a].step = "user" /\ admin'[a].who = admin[a].who
          /\ admin[a].who \in Students
      BY <1>3, <2>3, GotoFacts DEF CreateAuth, Steps, Keeps, Typed, WhoType
    <3>2. Identity'
      BY <2>1, <2>3, <3>1
    <3>3. NoOrphanAccount'
      BY <2>1, <2>3, <3>1
    <3>. QED  BY <3>2, <3>3
  <2>. QED  BY <2>2, <2>3
<1>4. ASSUME NEW a \in Admins, InsertUser(a) PROVE Identity' /\ NoOrphanAccount'
  <2>1. /\ Same(a) /\ Keeps(a) /\ UNCHANGED <<auth, student, stray>>
        /\ admin[a].step = "user" /\ admin[a].who \in Students
        /\ \/ /\ user[admin[a].who] = "none" /\ admin'[a].step = "student"
              /\ user' = [user EXCEPT ![admin[a].who] = "active"]
           \/ admin'[a].step = "undo" /\ UNCHANGED user
    BY <1>4, GotoFacts DEF InsertUser, MakeUser, Steps, Typed, WhoType
  <2>2. \A s \in Students : user[s] # "none" => user'[s] # "none"
    BY <2>1
  <2>3. Identity'
    BY <2>1, <2>2 DEF Keeps
  <2>4. NoOrphanAccount'
    BY <2>1, <2>2 DEF Keeps
  <2>. QED  BY <2>3, <2>4
<1>5. ASSUME NEW a \in Admins, InsertStudent(a) PROVE Identity' /\ NoOrphanAccount'
  <2>1. /\ Same(a) /\ Keeps(a) /\ UNCHANGED <<auth, user, stray>>
        /\ admin[a].step = "student" /\ admin[a].who \in Students
        /\ \/ /\ user[admin[a].who] # "none" /\ admin'[a].step = "read"
              /\ student' = [student EXCEPT ![admin[a].who] = admin[a].class]
           \/ admin'[a].step = "undo" /\ UNCHANGED student
    BY <1>5, GotoFacts DEF InsertStudent, MakeStudent, Steps, Typed, WhoType
  <2>2. \A s \in Students : s # admin[a].who => student'[s] = student[s]
    BY <2>1
  <2>3. Identity'
    BY <2>1, <2>2 DEF Keeps
  <2>4. NoOrphanAccount'
    BY <2>1 DEF Keeps
  <2>. QED  BY <2>3, <2>4
<1>6. ASSUME NEW a \in Admins, Undo(a) PROVE Identity' /\ NoOrphanAccount'
  <2>1. /\ Same(a) /\ admin'[a].step = "idle" /\ auth' = auth \ {admin[a].who}
        /\ admin[a].step = "undo" /\ UNCHANGED <<user, student, stray>>
    BY <1>6, RestFacts DEF Undo, ghosts
  <2>2. Identity'
    BY <2>1
  <2>3. NoOrphanAccount'
    BY <2>1
  <2>. QED  BY <2>2, <2>3
<1>7. ASSUME NEW a \in Admins, WriteMove(a) PROVE Identity' /\ NoOrphanAccount'
  BY <1>7, GotoFacts, RestFacts DEF WriteMove, Steps, Keeps
<1>8. ASSUME NEW a \in Admins, InsertFails(a) PROVE Identity' /\ NoOrphanAccount'
  <2>1. /\ Same(a) /\ Keeps(a) /\ UNCHANGED <<auth, stray>> /\ admin'[a].step = "undo"
        /\ admin[a].step \in {"user", "student"} /\ admin[a].who \in Students
        /\ \/ UNCHANGED <<user, student>>
           \/ /\ user' = [user EXCEPT ![admin[a].who] = "active"]
              /\ UNCHANGED student
           \/ /\ admin[a].step = "student" /\ user[admin[a].who] # "none"
              /\ student' = [student EXCEPT ![admin[a].who] = admin[a].class]
              /\ UNCHANGED user
    BY <1>8, GotoFacts DEF InsertFails, MakeUser, MakeStudent, Steps, Typed, WhoType
  <2>2. /\ \A s \in Students : s # admin[a].who => student'[s] = student[s]
        /\ \A s \in Students : user[s] # "none" => user'[s] # "none"
    BY <2>1
  <2>3. Identity'
    BY <2>1, <2>2 DEF Keeps
  <2>4. NoOrphanAccount'
    BY <2>1, <2>2 DEF Keeps
  <2>. QED  BY <2>3, <2>4
<1>11. ASSUME NEW a \in Admins, AuthFails(a) PROVE Identity' /\ NoOrphanAccount'
  <2>1. /\ Same(a) /\ admin'[a].step = "idle" /\ UNCHANGED <<user, student>>
        /\ admin[a].step = "auth"
        /\ \/ UNCHANGED <<auth, stray>>
           \/ /\ auth' = auth \union {admin[a].who}
              /\ stray' = stray \union ({admin[a].who} \ auth)
    BY <1>11, RestFacts DEF AuthFails
  <2>2. Identity'
    BY <2>1
  <2>3. NoOrphanAccount'
    BY <2>1
  <2>. QED  BY <2>2, <2>3
<1>12. ASSUME NEW a \in Admins, UndoFails(a) PROVE Identity' /\ NoOrphanAccount'
  <2>1. /\ Same(a) /\ admin'[a].step = "idle" /\ UNCHANGED <<auth, user, student>>
        /\ admin[a].step = "undo" /\ stray' = stray \union {admin[a].who}
    BY <1>12, RestFacts DEF UndoFails, accounts
  <2>2. Identity'
    BY <2>1
  <2>3. NoOrphanAccount'
    BY <2>1
  <2>. QED  BY <2>2, <2>3
<1>9. ASSUME NEW a \in Admins, Dies(a) PROVE Identity' /\ NoOrphanAccount'
  BY <1>9, RestFacts DEF Dies, accounts
<1>10. ASSUME NEW s \in Students, Deactivate(s) \/ Reactivate(s) \/ Remove(s)
       PROVE  Identity' /\ NoOrphanAccount'
  BY <1>10 DEF Deactivate, Reactivate, Remove, Active, ghosts
<1>. QED
  BY <1>1, <1>2, <1>3, <1>4, <1>5, <1>6, <1>7, <1>8, <1>9, <1>10, <1>11, <1>12, AsideStep
  DEF Next, Enrolment, People

-----------------------------------------------------------------------------
(* The cap and the places. *)
ActiveStudents == {s \in Students : Active(s)}

LEMMA StudentsFinite ==
    ASSUME NEW S \in SUBSET Students
    PROVE  IsFiniteSet(S) /\ Cardinality(S) \in Nat
<1>1. IsFiniteSet(S)
  BY PeopleAssumption, FS_Subset
<1>. QED  BY <1>1, FS_CardinalityType

LEMMA AtMostOneMore ==
    ASSUME NEW S \in SUBSET Students, NEW T \in SUBSET Students, NEW x, T \subseteq S \union {x}
    PROVE  Cardinality(T) <= Cardinality(S) + 1
<1>1. IsFiniteSet(S) /\ Cardinality(S) \in Nat /\ Cardinality(T) \in Nat
  BY StudentsFinite
<1>2. /\ IsFiniteSet(S \union {x})
      /\ Cardinality(S \union {x}) = IF x \in S THEN Cardinality(S) ELSE Cardinality(S) + 1
  BY <1>1, FS_AddElement
<1>3. Cardinality(T) <= Cardinality(S \union {x})
  BY <1>2, FS_Subset
<1>4. Cardinality(S \union {x}) \in Nat
  BY <1>2, FS_CardinalityType
<1>. QED  BY <1>1, <1>2, <1>3, <1>4

(* Only the two steps that a trigger counts make one more student active.  *)
LEMMA ActiveGrows ==
    ASSUME Typed, Identity, [Next]_vars
    PROVE  \/ ActiveStudents' \subseteq ActiveStudents
           \/ UnderCap /\ \E x : ActiveStudents' \subseteq ActiveStudents \union {x}
<1>0. admin \in [Admins -> Row] /\ user \in [Students -> {"none", "active", "inactive"}]
      /\ student \in [Students -> Classes \union {Nobody}]
  BY DEF Typed, TypeOK
<1> DEFINE Goal == \/ ActiveStudents' \subseteq ActiveStudents
                   \/ UnderCap /\ \E x : ActiveStudents' \subseteq ActiveStudents \union {x}
<1>1. ASSUME UNCHANGED <<user, student>> PROVE Goal
  BY <1>1 DEF ActiveStudents, Active, Enrolled
<1>2. ASSUME NEW a \in Admins, InsertUser(a) PROVE Goal
  BY <1>0, <1>2 DEF InsertUser, MakeUser, Identity, ActiveStudents, Active, Enrolled
<1>3. ASSUME NEW a \in Admins, InsertStudent(a) PROVE Goal
  BY <1>0, <1>3 DEF InsertStudent, MakeStudent, ActiveStudents, Active, Enrolled
<1>9. ASSUME NEW a \in Admins, InsertFails(a) PROVE Goal
  <2>1. CASE UNCHANGED <<user, student>>
    BY <1>1, <2>1
  <2>2. CASE MakeUser(admin[a].who) /\ UNCHANGED student
    BY <1>0, <2>2 DEF MakeUser, Identity, ActiveStudents, Active, Enrolled
  <2>3. CASE MakeStudent(admin[a].who, admin[a].class) /\ UNCHANGED user
    BY <1>0, <2>3 DEF MakeStudent, ActiveStudents, Active, Enrolled
  <2>. QED  BY <1>9, <2>1, <2>2, <2>3 DEF InsertFails
<1>4. ASSUME NEW a \in Admins, WriteMove(a) PROVE Goal
  BY <1>0, <1>4 DEF WriteMove, ActiveStudents, Active, Enrolled
<1>5. ASSUME NEW s \in Students, Deactivate(s) \/ Remove(s) PROVE Goal
  BY <1>0, <1>5 DEF Deactivate, Remove, ActiveStudents, Active, Enrolled
<1>6. ASSUME NEW s \in Students, Reactivate(s) PROVE Goal
  BY <1>0, <1>6 DEF Reactivate, ActiveStudents, Active, Enrolled
<1>7. ASSUME NEW a \in Admins,
             \/ \E c \in Classes, s \in Students : Enrol(a, s, c) \/ Move(a, s, c)
             \/ CreateAuth(a) \/ AuthFails(a) \/ Undo(a) \/ UndoFails(a) \/ Dies(a)
      PROVE  UNCHANGED <<user, student>>
  BY <1>7 DEF Enrol, Move, CreateAuth, AuthFails, Undo, UndoFails, Dies, accounts
<1>8. Aside => UNCHANGED <<user, student>>
  BY DEF Aside
<1>. QED
  BY <1>1, <1>2, <1>3, <1>4, <1>5, <1>6, <1>7, <1>8, <1>9, AsideStep
  DEF Next, Enrolment, People

LEMMA CapStep == Typed /\ Identity /\ CapKept /\ [Next]_vars => CapKept'
<1> SUFFICES ASSUME Typed, Identity, CapKept, [Next]_vars PROVE Cardinality(ActiveStudents') <= Cap
  BY DEF CapKept, ActiveStudents
<1>1. ActiveStudents \in SUBSET Students /\ ActiveStudents' \in SUBSET Students
  BY DEF ActiveStudents
<1>2. /\ Cardinality(ActiveStudents) \in Nat /\ Cardinality(ActiveStudents') \in Nat
      /\ IsFiniteSet(ActiveStudents) /\ Cap \in Nat
  BY <1>1, StudentsFinite, BoundsAssumption
<1>3. CASE ActiveStudents' \subseteq ActiveStudents
  <2>1. Cardinality(ActiveStudents') <= Cardinality(ActiveStudents)
    BY <1>2, <1>3, FS_Subset
  <2>. QED  BY <1>2, <2>1 DEF CapKept, ActiveStudents
<1>4. CASE UnderCap /\ \E x : ActiveStudents' \subseteq ActiveStudents \union {x}
  <2>1. Cardinality(ActiveStudents') <= Cardinality(ActiveStudents) + 1
    BY <1>1, <1>4, AtMostOneMore
  <2>2. Cardinality(ActiveStudents) < Cap
    BY <1>4 DEF UnderCap, ActiveStudents
  <2>. QED  BY <1>2, <2>1, <2>2
<1>. QED  BY <1>3, <1>4, ActiveGrows

(* Who is in a class or about to be: unless an inactive student came back   *)
(* or another admission is under way, it is fewer or one for a free place.  *)
InClass(c, s) == Active(s) /\ student[s] = c
Takes(c, s) == InClass(c, s) \/ s \in Coming(c)
Fewer(c) == \A s \in Students : Takes(c, s)' => Takes(c, s)
OneComes(c) ==
    /\ Cardinality(ActiveIn(c)) < Capacity
    /\ \E x \in Students : \A s \in Students :
          Takes(c, s)' => s = x \/ InClass(c, s)

LEMMA PlacesTaken ==
    ASSUME Typed, Identity, [Next]_vars, NEW c \in Classes, c \notin (crossed \union unread)'
    PROVE  c \notin crossed \union unread /\ (Fewer(c) \/ OneComes(c))
<1>0. /\ admin \in [Admins -> Row] /\ user \in [Students -> {"none", "active", "inactive"}]
      /\ student \in [Students -> Classes \union {Nobody}]
      /\ crossed \in SUBSET Classes /\ unread \in SUBSET Classes
      /\ c \notin crossed' /\ c \notin unread'
  BY DEF Typed, TypeOK
<1> DEFINE Goal == c \notin crossed \union unread /\ (Fewer(c) \/ OneComes(c))
<1> USE DEF Same, At
<1>1. ASSUME Aside PROVE Goal
  BY <1>0, <1>1 DEF Aside, EnrolSteps, Fewer, Takes, InClass, Coming, Active, Enrolled
<1>2. ASSUME NEW a \in Admins, NEW d \in Classes, NEW s \in Students, Enrol(a, s, d) PROVE Goal
  <2>1. /\ UNCHANGED <<user, student>> /\ Same(a)
        /\ admin'[a].class = d /\ admin'[a].who = s /\ admin'[a].step = "auth"
    BY <1>0, <1>2 DEF Enrol, Begin, Row, accounts
  <2>2. CASE d = c
    <3>1. /\ ~Admitting(c) /\ Cardinality(ActiveIn(c)) < Capacity
          /\ c \notin crossed /\ c \notin unread
      BY <1>0, <1>2, <2>2 DEF Enrol, Admit
    <3>2. \A b \in Admins : admin[b].step \in {"auth", "user", "student", "move"}
                               => admin[b].class # c
      BY <3>1 DEF Admitting
    <3>3. \A u \in Coming(c)' : u = s
      BY <2>1, <3>2 DEF Coming
    <3>5. \A u \in Students : Takes(c, u)' => u = s \/ InClass(c, u)
      BY <2>1, <3>3 DEF Takes, InClass, Active, Enrolled
    <3>. QED  BY <3>1, <3>5 DEF OneComes
  <2>3. CASE d # c
    <3>1. c \notin crossed /\ c \notin unread
      BY <1>0, <1>2, <2>3 DEF Enrol, Admit
    <3>. QED  BY <2>1, <2>3, <3>1 DEF Fewer, Takes, InClass, Coming, Active, Enrolled
  <2>. QED  BY <2>2, <2>3
<1>3. ASSUME NEW a \in Admins, NEW d \in Classes, NEW s \in Students, Move(a, s, d) PROVE Goal
  <2>1. /\ UNCHANGED <<user, student>> /\ Same(a)
        /\ admin'[a].class = d /\ admin'[a].who = s /\ admin'[a].step = "move"
    BY <1>0, <1>3 DEF Move, Begin, Row, accounts
  <2>2. CASE d = c /\ student[s] # c
    <3>1. /\ ~Admitting(c) /\ Cardinality(ActiveIn(c)) < Capacity
          /\ c \notin crossed /\ c \notin unread
      BY <1>0, <1>3, <2>2 DEF Move, Admit
    <3>2. \A b \in Admins : admin[b].step \in {"auth", "user", "student", "move"}
                               => admin[b].class # c
      BY <3>1 DEF Admitting
    <3>3. \A u \in Coming(c)' : u = s
      BY <2>1, <3>2 DEF Coming
    <3>4. \A u \in Students : Takes(c, u)' => u = s \/ InClass(c, u)
      BY <2>1, <3>3 DEF Takes, InClass, Active, Enrolled
    <3>. QED  BY <3>1, <3>4 DEF OneComes
  <2>3. CASE d # c \/ student[s] = c
    <3>1. c \notin crossed /\ c \notin unread
      BY <1>0, <1>3, <2>3 DEF Move, Admit
    <3>. QED  BY <2>1, <2>3, <3>1 DEF Fewer, Takes, InClass, Coming, Active, Enrolled
  <2>. QED  BY <2>2, <2>3
<1>4. ASSUME NEW a \in Admins,
             CreateAuth(a) \/ AuthFails(a) \/ Undo(a) \/ UndoFails(a) \/ Dies(a)
      PROVE  Goal
  <2>1. /\ UNCHANGED <<user, student, crossed, unread>> /\ Same(a)
        /\ \/ admin'[a].step = "idle"
           \/ admin[a].step = "auth" /\ admin'[a].step = "user" /\ Keeps(a)
    BY <1>0, <1>4, GotoFacts, RestFacts
    DEF CreateAuth, AuthFails, Undo, UndoFails, Dies, Steps, accounts, ghosts
  <2>. QED  BY <1>0, <2>1 DEF Keeps, Fewer, Takes, InClass, Coming, Active, Enrolled
(* The users row makes nobody active, as there is no students row yet. *)
<1>5. ASSUME NEW a \in Admins, UNCHANGED <<student, crossed, unread>>, Same(a), Keeps(a),
             admin[a].step \in {"user", "student"}, admin'[a].step \in {"student", "undo"},
             admin[a].step = "user" \/ admin'[a].step = "undo",
             UNCHANGED user \/ MakeUser(admin[a].who)
      PROVE  Goal
  <2>1. \A s \in Students : Active(s)' => Active(s)
    BY <1>5, <1>0 DEF MakeUser, Identity, Active, Enrolled
  <2>. QED  BY <1>0, <1>5, <2>1 DEF Keeps, Fewer, Takes, InClass, Coming
(* The students row takes the place that was kept for it. *)
<1>6. ASSUME NEW a \in Admins, UNCHANGED <<user, unread>>, Same(a),
             admin[a].step = "student", admin[a].who \in Students,
             admin'[a].step \in {"read", "undo"}, MakeStudent(admin[a].who, admin[a].class)
      PROVE  Goal
  <2>1. /\ student' = [student EXCEPT ![admin[a].who] = admin[a].class]
        /\ c \notin crossed /\ ~Moving(admin[a].who, c)
    BY <1>0, <1>6 DEF MakeStudent
  <2>2. \A s \in Students : s # admin[a].who => student'[s] = student[s] /\ (Active(s)' <=> Active(s))
    BY <1>0, <1>6, <2>1 DEF Active, Enrolled
  <2>3. \A b \in Admins : admin[b].step = "move" /\ admin[b].class = c => admin[b].who # admin[a].who
    BY <2>1 DEF Moving
  <2>4. ASSUME NEW s \in Students, s # admin[a].who, Takes(c, s)' PROVE Takes(c, s)
    BY <1>6, <2>1, <2>2, <2>4 DEF Takes, InClass, Coming
  <2>5. ASSUME NEW s \in Students, s = admin[a].who, Takes(c, s)' PROVE Takes(c, s)
    BY <1>0, <1>6, <2>1, <2>3, <2>5 DEF Takes, InClass, Coming, Active, Enrolled
  <2>. QED  BY <1>0, <1>6, <2>1, <2>4, <2>5 DEF Fewer
<1>10. ASSUME NEW a \in Admins, InsertUser(a) PROVE Goal
  BY <1>0, <1>5, <1>10, GotoFacts DEF InsertUser, Steps
<1>11. ASSUME NEW a \in Admins, InsertStudent(a) PROVE Goal
  <2>1. admin[a].who \in Students /\ Same(a) /\ Keeps(a) /\ admin[a].step = "student"
        /\ UNCHANGED <<user, unread>>
    BY <1>0, <1>11, GotoFacts DEF InsertStudent, Typed, WhoType, Enrolling, Steps
  <2>2. \/ MakeStudent(admin[a].who, admin[a].class) /\ admin'[a].step = "read"
        \/ UNCHANGED <<student, crossed>> /\ admin'[a].step = "undo"
    BY <1>0, <1>11, GotoFacts DEF InsertStudent, Steps
  <2>. QED  BY <1>5, <1>6, <2>1, <2>2
<1>12. ASSUME NEW a \in Admins, InsertFails(a) PROVE Goal
  <2>1. admin[a].who \in Students /\ Same(a) /\ Keeps(a) /\ admin[a].step \in {"user", "student"}
        /\ admin'[a].step = "undo" /\ UNCHANGED unread
    BY <1>0, <1>12, GotoFacts DEF InsertFails, Typed, WhoType, Enrolling, Steps
  <2>2. \/ UNCHANGED <<user, student, crossed>>
        \/ MakeUser(admin[a].who) /\ UNCHANGED <<student, crossed>>
        \/ /\ admin[a].step = "student" /\ MakeStudent(admin[a].who, admin[a].class)
           /\ UNCHANGED user
    BY <1>12 DEF InsertFails
  <2>. QED  BY <1>5, <1>6, <2>1, <2>2
<1>7. ASSUME NEW a \in Admins, WriteMove(a) PROVE Goal
  <2>1. /\ UNCHANGED <<user, crossed, unread>> /\ Same(a)
        /\ admin[a].step = "move" /\ admin'[a].step \in {"read", "idle"}
        /\ admin[a].who \in Students
        /\ \/ UNCHANGED student
           \/ /\ Enrolled(admin[a].who)
              /\ student' = [student EXCEPT ![admin[a].who] = admin[a].class]
    BY <1>7, <1>0, GotoFacts, RestFacts DEF WriteMove, Steps, Typed, WhoType
  <2>2. \A s \in Students : Active(s)' => Active(s)
    BY <2>1, <1>0 DEF Active, Enrolled
  <2>3. ASSUME NEW s \in Students, Takes(c, s)' PROVE Takes(c, s)
    BY <1>0, <2>1, <2>2, <2>3 DEF Takes, InClass, Coming
  <2>. QED  BY <1>0, <2>1, <2>3 DEF Fewer
<1>8. ASSUME NEW s \in Students, Deactivate(s) \/ Remove(s) PROVE Goal
  <2>1. UNCHANGED <<admin, crossed, unread>>
    BY <1>8 DEF Deactivate, Remove, ghosts
  <2>2. \A u \in Students : Active(u)' => Active(u) /\ student'[u] = student[u]
    BY <1>8, <1>0 DEF Deactivate, Remove, Active, Enrolled
  <2>. QED  BY <1>0, <2>1, <2>2 DEF Fewer, Takes, InClass, Coming
<1>9. ASSUME NEW s \in Students, Reactivate(s) PROVE Goal
  <2>1. /\ UNCHANGED <<admin, student, unread>>
        /\ student[s] # c /\ ~Moving(s, c) /\ c \notin crossed
    BY <1>9, <1>0 DEF Reactivate
  <2>2. \A u \in Students : u # s => (Active(u)' <=> Active(u))
    BY <1>9, <1>0 DEF Reactivate, Active, Enrolled
  <2>3. ASSUME NEW u \in Students, Takes(c, u)' PROVE Takes(c, u)
    BY <2>1, <2>2, <2>3 DEF Takes, InClass, Coming, Moving
  <2>. QED  BY <1>0, <2>1, <2>3 DEF Fewer
<1>. QED
  BY <1>1, <1>2, <1>3, <1>4, <1>7, <1>8, <1>9, <1>10, <1>11, <1>12, AsideStep
  DEF Next, Enrolment, People

LEMMA RoomStep == Typed /\ Identity /\ Room /\ [Next]_vars => Room'
<1> SUFFICES ASSUME Typed, Identity, Room, [Next]_vars,
                    NEW c \in Classes, c \notin (crossed \union unread)'
             PROVE  Cardinality((ActiveIn(c) \union Coming(c))') <= Capacity
  BY DEF Room
<1> DEFINE Taken == ActiveIn(c) \union Coming(c)
<1>1. /\ Taken \in SUBSET Students /\ Taken' \in SUBSET Students
      /\ ActiveIn(c) \in SUBSET Students
  BY DEF ActiveIn, Coming
<1>2. \A s \in Students : (s \in Taken <=> Takes(c, s)) /\ (s \in Taken' <=> Takes(c, s)')
  BY DEF ActiveIn, Takes, InClass
<1>3. /\ Cardinality(Taken) \in Nat /\ Cardinality(Taken') \in Nat /\ IsFiniteSet(Taken)
      /\ Cardinality(ActiveIn(c)) \in Nat /\ Capacity \in Nat
  BY <1>1, StudentsFinite, BoundsAssumption
<1>4. c \notin crossed \union unread
  BY PlacesTaken
<1>5. CASE Fewer(c)
  <2>1. Taken' \subseteq Taken
    BY <1>1, <1>2, <1>5 DEF Fewer
  <2>2. Cardinality(Taken') <= Cardinality(Taken)
    BY <1>3, <2>1, FS_Subset
  <2>3. Cardinality(Taken) <= Capacity
    BY <1>4 DEF Room
  <2>. QED  BY <1>3, <2>2, <2>3
<1>6. CASE OneComes(c)
  <2>1. PICK x \in Students : \A s \in Students : Takes(c, s)' => s = x \/ InClass(c, s)
    BY <1>6 DEF OneComes
  <2>2. Taken' \subseteq ActiveIn(c) \union {x}
    BY <1>1, <1>2, <2>1 DEF InClass, ActiveIn
  <2>3. Cardinality(Taken') <= Cardinality(ActiveIn(c)) + 1
    BY <1>1, <2>2, AtMostOneMore
  <2>4. Cardinality(ActiveIn(c)) < Capacity
    BY <1>6 DEF OneComes
  <2>. QED  BY <1>3, <2>3, <2>4
<1>. QED  BY <1>5, <1>6, PlacesTaken

LEMMA RoomKeepsCapacity == Room => CapacityKept
<1> SUFFICES ASSUME Room, NEW c \in Classes, c \notin crossed \union unread
             PROVE  ~(Cardinality(ActiveIn(c)) > Capacity)
  BY DEF CapacityKept
<1>1. ActiveIn(c) \union Coming(c) \in SUBSET Students
  BY DEF ActiveIn, Coming
<1>2. Cardinality(ActiveIn(c)) <= Cardinality(ActiveIn(c) \union Coming(c))
  BY <1>1, StudentsFinite, FS_Subset
<1>3. /\ Cardinality(ActiveIn(c)) \in Nat /\ Cardinality(ActiveIn(c) \union Coming(c)) \in Nat
      /\ Capacity \in Nat
  BY <1>1, StudentsFinite, BoundsAssumption
<1>. QED  BY <1>2, <1>3 DEF Room
-----------------------------------------------------------------------------
(* The lock keeps the appointments of a class apart. *)
LEMMA LockedStep == Typed /\ Locked /\ OneHomeroom /\ [Next]_vars => Locked' /\ OneHomeroom'
<1> SUFFICES ASSUME Typed, Locked, OneHomeroom, [Next]_vars PROVE Locked' /\ OneHomeroom'
  OBVIOUS
<1>0. /\ admin \in [Admins -> Row] /\ lock \in [Classes -> Admins \union {Nobody}]
      /\ staff \in [Classes -> [Teachers -> {"no", "yes", "homeroom"}]]
      /\ unlocked \in SUBSET Classes /\ uncleared \in SUBSET Classes
  BY DEF Typed, TypeOK
<1> DEFINE Away == /\ UNCHANGED <<staff, lock, uncleared>> /\ unlocked \subseteq unlocked'
                   /\ \A b \in Admins : admin'[b] = admin[b]
                                       \/ admin'[b].step \notin {"unset", "set", "unlock"}
<1> USE DEF Locked, OneHomeroom, Appointing, At, Same
<1>1. ASSUME Away PROVE Locked' /\ OneHomeroom'
  BY <1>0, <1>1
<1>2. ASSUME NEW a \in Admins, NEW c \in Classes, NEW s \in Students, Enrol(a, s, c) \/ Move(a, s, c)
      PROVE  Away
  BY <1>0, <1>2 DEF Enrol, Move, Begin, Row, classes
<1>3. ASSUME NEW a \in Admins,
             \/ CreateAuth(a) \/ AuthFails(a) \/ InsertUser(a) \/ InsertStudent(a) \/ InsertFails(a)
             \/ Undo(a) \/ UndoFails(a) \/ WriteMove(a)
      PROVE  Away
  <2>1. UNCHANGED <<staff, lock, unlocked, uncleared>>
    BY <1>3 DEF CreateAuth, AuthFails, InsertUser, InsertStudent, InsertFails, Undo, UndoFails,
                WriteMove, classes, ghosts
  <2>2. Same(a) /\ admin'[a].step \in {"idle", "user", "student", "undo", "read"}
    BY <1>0, <1>3, GotoFacts, RestFacts
    DEF CreateAuth, AuthFails, InsertUser, InsertStudent, InsertFails, Undo, UndoFails, WriteMove,
        Steps
  <2>. QED  BY <2>1, <2>2
<1>4. ASSUME NEW a \in Admins, ReadMembers(a) \/ ReadFails(a) \/ ListStale(a) PROVE Away
  BY <1>0, <1>4 DEF ReadMembers, ReadFails, ListStale, Row, classes, ghosts
<1>5. ASSUME NEW a \in Admins, Dies(a) PROVE Away
  BY <1>0, <1>5, RestFacts DEF Dies, classes
<1>6. ASSUME NEW s \in Students, Deactivate(s) \/ Reactivate(s) \/ Remove(s) PROVE Away
  BY <1>6 DEF Deactivate, Reactivate, Remove, classes, ghosts
<1>7. CASE UNCHANGED vars
  BY <1>7 DEF vars, classes, ghosts
<1>8. ASSUME NEW a \in Admins, AddMembers(a) \/ Prune(a) \/ SyncFails(a) \/ AppointFails(a)
      PROVE  Locked' /\ OneHomeroom'
  <2>1. /\ UNCHANGED <<staff, lock, unlocked, uncleared>> /\ Same(a)
        /\ \/ admin'[a].step \in {"list", "idle"}
           \/ admin'[a].step = "unlock" /\ Keeps(a) /\ lock[admin[a].class] = a
    BY <1>0, <1>8, GotoFacts, RestFacts
    DEF AddMembers, Prune, SyncFails, AppointFails, Leave, Steps, classes, ghosts
  <2>. QED  BY <1>0, <2>1 DEF Keeps
<1>9. ASSUME NEW a \in Admins, Unset(a) PROVE Locked' /\ OneHomeroom'
  <2>1. /\ UNCHANGED <<lock, unlocked>> /\ Same(a) /\ Keeps(a)
        /\ admin[a].step = "unset" /\ admin'[a].step = "set" /\ admin[a].class \in Classes
        /\ uncleared' = uncleared \ {admin[a].class}
    BY <1>0, <1>9, GotoFacts DEF Unset, Steps, ghosts, Typed, WhoType
  <2>2. \A t \in Teachers : staff'[admin[a].class][t] # "homeroom"
    BY <1>0, <1>9, <2>1 DEF Unset
  <2>3. \A c \in Classes : c # admin[a].class => staff'[c] = staff[c]
    BY <1>0, <1>9 DEF Unset
  <2>. QED  BY <1>0, <2>1, <2>2, <2>3 DEF Keeps
<1>15. ASSUME NEW a \in Admins, UnsetFails(a) PROVE Locked' /\ OneHomeroom'
  <2>1. /\ UNCHANGED <<staff, lock, unlocked>> /\ Same(a) /\ Keeps(a)
        /\ admin[a].step = "unset" /\ admin'[a].step = "set"
        /\ uncleared' = uncleared \union {admin[a].class}
    BY <1>0, <1>15, GotoFacts DEF UnsetFails, Steps, classes
  <2>. QED  BY <1>0, <2>1 DEF Keeps
<1>10. ASSUME NEW a \in Admins, Set(a) PROVE Locked' /\ OneHomeroom'
  <2>1. /\ UNCHANGED <<lock, unlocked, uncleared>> /\ Same(a) /\ Keeps(a)
        /\ admin[a].step = "set" /\ admin'[a].step = "read" /\ admin[a].class \in Classes
        /\ admin[a].who \in Teachers
    BY <1>0, <1>10, GotoFacts DEF Set, Steps, ghosts, Typed, WhoType
  <2>2. \A t \in Teachers : t # admin[a].who => staff'[admin[a].class][t] = staff[admin[a].class][t]
    BY <1>0, <1>10, <2>1 DEF Set
  <2>3. ~admin[a].homeroom => staff'[admin[a].class][admin[a].who] = "yes"
    BY <1>0, <1>10, <2>1 DEF Set
  <2>4. \A c \in Classes : c # admin[a].class => staff'[c] = staff[c]
    BY <1>0, <1>10 DEF Set
  <2>5. Locked'
    BY <1>0, <2>1, <2>2, <2>3, <2>4 DEF Keeps
  <2>6. OneHomeroom'
    BY <1>0, <2>1, <2>2, <2>3, <2>4
  <2>. QED  BY <2>5, <2>6
<1>11. ASSUME NEW a \in Admins, Unlock(a) PROVE Locked' /\ OneHomeroom'
  <2>1. /\ UNCHANGED <<staff, unlocked, uncleared>> /\ Same(a) /\ admin'[a].step = "idle"
        /\ admin[a].step = "unlock" /\ lock' = [lock EXCEPT ![admin[a].class] = Nobody]
    BY <1>0, <1>11, RestFacts DEF Unlock, ghosts
  <2>. QED  BY <1>0, <2>1
<1>12. ASSUME NEW a \in Admins, NEW c \in Classes, NEW t \in Teachers, Dismiss(a, t, c)
       PROVE  Locked' /\ OneHomeroom'
  <2>1. /\ UNCHANGED <<lock, unlocked, uncleared>> /\ Same(a) /\ admin'[a].step = "read"
        /\ staff' = [staff EXCEPT ![c][t] = "no"]
    BY <1>0, <1>12 DEF Dismiss, Begin, Row, ghosts
  <2>2. \A d \in Classes, u \in Teachers : staff'[d][u] \in {staff[d][u], "no"}
    BY <1>0, <2>1
  <2>. QED  BY <1>0, <2>1, <2>2
<1>13. ASSUME NEW a \in Admins, NEW c \in Classes, NEW t \in Teachers, NEW lead \in BOOLEAN,
              Appoint(a, t, c, lead)
       PROVE  Locked' /\ OneHomeroom'
  <2>1. /\ UNCHANGED <<staff, uncleared>> /\ Same(a) /\ admin[a].step = "idle"
        /\ admin'[a].class = c /\ admin'[a].homeroom = lead
        /\ admin'[a].step = IF lead THEN "unset" ELSE "set"
        /\ unlocked \subseteq unlocked'
        /\ \A d \in Classes : d # c => lock'[d] = lock[d]
        /\ c \in unlocked' \/ (lock[c] = Nobody /\ lock'[c] = a)
    BY <1>0, <1>13 DEF Appoint, Begin, Idle, Row
  <2>2. \A b \in Admins : b # Nobody
    BY PeopleAssumption
  <2>. QED  BY <1>0, <2>1, <2>2
<1>14. ASSUME NEW c \in Classes, LockExpires(c) PROVE Locked' /\ OneHomeroom'
  BY <1>0, <1>14 DEF LockExpires
<1>16. ASSUME NEW c \in Classes, NEW m \in People, Withdraw(c, m) PROVE Away
  BY <1>16 DEF Withdraw
<1>. QED
  BY <1>1, <1>2, <1>3, <1>4, <1>5, <1>6, <1>7, <1>8, <1>9, <1>10, <1>11, <1>12, <1>13, <1>14,
     <1>15, <1>16
  DEF Next, Enrolment, Sync, People
-----------------------------------------------------------------------------
(* The groups. *)
(* The members of a class have a users row. *)
LEMMA MembersAreThere ==
    ASSUME Typed, Identity, NEW c \in Classes
    PROVE  Members(c) \intersect Gone = {}
BY PeopleAssumption DEF Members, Gone, Identity, Enrolled

(* Steps that are nothing to a class and its syncs. *)
ActsOn(b, c) == admin[b].step \in {"read", "add", "list", "prune"} /\ admin[b].class = c
Apart(c) ==
    /\ c \notin behind
    /\ Members(c)' = Members(c) /\ group'[c] = group[c] /\ Gone' = Gone
    /\ \A b \in Admins : admin'[b] = admin[b] \/ (~ActsOn(b, c) /\ ~ActsOn(b, c)')

LEMMA UntouchedStep ==
    ASSUME InStep, NEW c \in Classes, Apart(c)
    PROVE  (Alone(c) /\ Follows(c) /\ Settled(c))'
<1>1. \A b \in Admins : /\ Syncing(b, c)' <=> Syncing(b, c)
                        /\ Syncing(b, c)' => admin'[b] = admin[b]
  BY DEF Apart, ActsOn, Syncing
<1>2. Reading(c)' <=> Reading(c)
  BY DEF Apart, ActsOn, Reading, At
<1>3. Alone(c) /\ Follows(c) /\ Settled(c)
  BY DEF InStep, Apart
<1>4. \A b \in Admins : Syncing(b, c) /\ OnWay(b, c) => OnWay(b, c)'
  BY <1>1 DEF Apart, OnWay, At
<1>5. Alone(c)'
  BY <1>1, <1>3 DEF Alone
<1>6. Follows(c)'
  BY <1>1, <1>2, <1>3, <1>4 DEF Follows
<1>7. Settled(c)'
  BY <1>1, <1>2, <1>3 DEF Settled, Apart
<1>. QED  BY <1>5, <1>6, <1>7

LEMMA InStepStep ==
    ASSUME Typed, Identity, InStep, [Next]_vars
    PROVE  InStep'
<1> SUFFICES ASSUME NEW c \in Classes, c \notin behind'
             PROVE  (Alone(c) /\ Follows(c) /\ Settled(c))'
  BY DEF InStep
<1> DEFINE Goal == (Alone(c) /\ Follows(c) /\ Settled(c))'
<1>0. /\ admin \in [Admins -> Row] /\ behind \in SUBSET Classes
      /\ user \in [Students -> {"none", "active", "inactive"}]
      /\ student \in [Students -> Classes \union {Nobody}]
      /\ staff \in [Classes -> [Teachers -> {"no", "yes", "homeroom"}]]
      /\ group \in [Classes -> SUBSET People]
  BY DEF Typed, TypeOK, People
<1> USE DEF At, Same
<1>1. ASSUME Apart(c) PROVE Goal
  BY <1>1, UntouchedStep
<1>2. ASSUME NEW a \in Admins, NEW d \in Classes, NEW s \in Students, Enrol(a, s, d) \/ Move(a, s, d)
      PROVE  Apart(c)
  BY <1>0, <1>2 DEF Enrol, Move, Begin, Idle, Row, accounts, classes, Apart, ActsOn, Members, Gone
<1>3. ASSUME NEW a \in Admins, CreateAuth(a) \/ AuthFails(a) \/ Undo(a) \/ UndoFails(a)
      PROVE  Apart(c)
  BY <1>0, <1>3, GotoFacts, RestFacts
  DEF CreateAuth, AuthFails, Undo, UndoFails, Steps, accounts, classes, ghosts, Apart, ActsOn,
      Members, Gone
<1>4. ASSUME NEW s \in Students, Deactivate(s) \/ Reactivate(s) PROVE Apart(c)
  BY <1>0, <1>4
  DEF Deactivate, Reactivate, Active, classes, ghosts, Apart, ActsOn, Members, Gone
<1>5. ASSUME NEW d \in Classes, LockExpires(d) PROVE Apart(c)
  BY <1>5 DEF LockExpires, accounts, Apart, ActsOn, Members, Gone
<1>6. ASSUME UNCHANGED vars PROVE Apart(c)
  <2>1. UNCHANGED <<user, student, staff, group, behind, admin>>
    BY <1>6 DEF vars, accounts, classes, ghosts
  <2>2. Members(c)' = Members(c) /\ Gone' = Gone
    BY <2>1 DEF Members, Gone
  <2>. QED  BY <2>1, <2>2 DEF Apart
<1>7. ASSUME NEW a \in Admins, NEW d \in Classes, NEW t \in Teachers, NEW lead \in BOOLEAN,
             Appoint(a, t, d, lead)
      PROVE  Apart(c)
  BY <1>0, <1>7 DEF Appoint, Begin, Idle, Row, accounts, Apart, ActsOn, Members, Gone
<1>8. ASSUME NEW a \in Admins, Unset(a) \/ UnsetFails(a) \/ AppointFails(a) \/ Unlock(a)
      PROVE  Apart(c)
  <2>1. /\ Same(a) /\ admin[a].step \in {"unset", "set", "unlock"}
        /\ admin'[a].step \in {"set", "idle", "unlock"}
        /\ UNCHANGED <<user, student, group, behind>>
    BY <1>0, <1>8, GotoFacts, RestFacts, LeaveFacts
    DEF Unset, UnsetFails, AppointFails, Unlock, Steps, accounts, classes, ghosts
  <2>2. \A t \in Teachers : staff'[c][t] # "no" <=> staff[c][t] # "no"
    BY <1>0, <1>8 DEF Unset, UnsetFails, AppointFails, Unlock, classes
  <2>. QED  BY <2>1, <2>2 DEF Apart, ActsOn, Members, Gone
<1>10. ASSUME c \notin behind, Alone(c)', Reading(c)' PROVE Goal
  BY <1>10 DEF Follows, Settled
(* The steps that change the members of a class leave a request at "read". *)
<1>11. ASSUME c \notin behind, NEW a \in Admins, Same(a),
              admin[a].step \notin {"read", "add", "list", "prune"},
              admin'[a].step = "read", admin'[a].class = c
       PROVE  Goal
  <2>1. \A b \in Admins : Syncing(b, c)' => Syncing(b, c)
    BY <1>11 DEF Syncing
  <2>2. Alone(c)'
    BY <1>11, <2>1 DEF InStep, Alone
  <2>3. Reading(c)'
    BY <1>11 DEF Reading
  <2>. QED  BY <1>10, <1>11, <2>2, <2>3
<1>12. ASSUME c \notin behind, NEW a \in Admins, Same(a),
              admin[a].step \notin {"read", "add", "list", "prune"},
              admin'[a].step \notin {"read", "add", "list", "prune"} \/ admin'[a].class # c,
              Members(c)' = Members(c), UNCHANGED <<group, user>>
       PROVE  Goal
  BY <1>1, <1>12 DEF Apart, ActsOn, Gone
<1>13. ASSUME NEW a \in Admins, InsertStudent(a) PROVE Goal
  <2>1. /\ UNCHANGED <<user, group, staff, behind>> /\ Same(a) /\ Keeps(a)
        /\ admin[a].step = "student" /\ admin[a].who \in Students
        /\ \/ admin'[a].step = "undo" /\ UNCHANGED student
           \/ /\ admin'[a].step = "read"
              /\ student' = [student EXCEPT ![admin[a].who] = admin[a].class]
    BY <1>0, <1>13, GotoFacts
    DEF InsertStudent, MakeStudent, Steps, classes, Typed, WhoType, Enrolling
  <2>2. student[admin[a].who] = Nobody
    BY <2>1 DEF Identity, Enrolled
  <2>3. Members(c)' = Members(c) \/ (admin'[a].step = "read" /\ admin'[a].class = c)
    BY <1>0, <2>1, <2>2, PeopleAssumption DEF Members, Keeps
  <2>. QED  BY <1>11, <1>12, <2>1, <2>3
<1>14. ASSUME NEW a \in Admins, WriteMove(a) PROVE Goal
  <2>1. /\ UNCHANGED <<user, group, staff>> /\ Same(a) /\ c \notin behind
        /\ admin[a].step = "move" /\ admin[a].who \in Students
        /\ \/ admin'[a].step = "idle" /\ UNCHANGED student
           \/ /\ admin'[a].step = "read" /\ Keeps(a)
              /\ student[admin[a].who] \in {admin[a].class} \/ student[admin[a].who] # c
              /\ student' = [student EXCEPT ![admin[a].who] = admin[a].class]
    BY <1>0, <1>14, GotoFacts, RestFacts DEF WriteMove, Steps, classes, ghosts, Typed, WhoType
  <2>2. Members(c)' = Members(c) \/ (admin'[a].step = "read" /\ admin'[a].class = c)
    BY <1>0, <2>1 DEF Members, Keeps
  <2>. QED  BY <1>11, <1>12, <2>1, <2>2
<1>15. ASSUME NEW a \in Admins, Set(a) PROVE Goal
  <2>1. /\ UNCHANGED <<user, student, group, behind>> /\ Same(a) /\ Keeps(a)
        /\ admin[a].step = "set" /\ admin'[a].step = "read"
    BY <1>0, <1>15, GotoFacts DEF Set, Steps, accounts, ghosts
  <2>2. staff'[c] = staff[c] \/ admin[a].class = c
    BY <1>0, <1>15 DEF Set
  <2>3. Members(c)' = Members(c) \/ admin[a].class = c
    BY <2>1, <2>2 DEF Members
  <2>. QED  BY <1>11, <1>12, <2>1, <2>3 DEF Keeps
<1>16. ASSUME NEW a \in Admins, NEW d \in Classes, NEW t \in Teachers, Dismiss(a, t, d) PROVE Goal
  <2>1. /\ UNCHANGED <<user, student, group, behind>> /\ Same(a)
        /\ admin[a].step = "idle" /\ admin'[a].step = "read" /\ admin'[a].class = d
    BY <1>0, <1>16 DEF Dismiss, Begin, Idle, Row, accounts, ghosts
  <2>2. staff'[c] = staff[c] \/ d = c
    BY <1>0, <1>16 DEF Dismiss
  <2>3. Members(c)' = Members(c) \/ d = c
    BY <2>1, <2>2 DEF Members
  <2>. QED  BY <1>11, <1>12, <2>1, <2>3
(* The steps of a sync. *)
<1>17. ASSUME c \notin behind, NEW a \in Admins, Same(a), admin[a].class # c,
              Keeps(a) \/ admin'[a].step = "idle",
              group'[c] = group[c], UNCHANGED <<user, student, staff>>
       PROVE  Goal
  BY <1>1, <1>17 DEF Apart, ActsOn, Members, Gone, Keeps
<1>18. ASSUME NEW a \in Admins, ReadMembers(a) PROVE Goal
  <2>1. /\ Same(a) /\ Keeps(a) /\ UNCHANGED <<user, student, staff, group>>
        /\ admin[a].step = "read" /\ admin'[a].step = "add"
        /\ admin'[a].members = Members(admin[a].class)
    BY <1>0, <1>18 DEF ReadMembers, Row, Keeps, accounts, classes
  <2>2. CASE admin[a].class = c
    <3>1. \A b \in Admins : b # a => ~Syncing(b, c)
      BY <1>0, <1>18, <2>2 DEF ReadMembers, Others
    <3>2. \A b \in Admins : Syncing(b, c)' => b = a
      BY <2>1, <3>1 DEF Syncing
    <3>3. Syncing(a, c)'
      BY <2>1, <2>2 DEF Syncing, Keeps
    <3>4. Members(c)' = Members(c) /\ Gone' = Gone
      BY <2>1 DEF Members, Gone
    <3>5. OnWay(a, c)'
      BY <2>1, <2>2, <3>4, MembersAreThere DEF OnWay
    <3>. QED  BY <3>2, <3>3, <3>5 DEF Alone, Follows, Settled
  <2>3. CASE admin[a].class # c
    BY <1>0, <1>17, <1>18, <2>1, <2>3 DEF ReadMembers
  <2>. QED  BY <2>2, <2>3
<1>19. ASSUME NEW a \in Admins, ReadFails(a) \/ SyncFails(a) PROVE Goal
  <2>1. /\ Same(a) /\ (Keeps(a) \/ admin'[a].step = "idle")
        /\ UNCHANGED <<user, student, staff, group>>
        /\ c \notin behind /\ admin[a].class # c
    BY <1>0, <1>19, GotoFacts, RestFacts
    DEF ReadFails, SyncFails, Leave, Row, Steps, Keeps, accounts, classes
  <2>. QED  BY <1>17, <2>1
<1>20. ASSUME NEW a \in Admins, Dies(a) PROVE Goal
  <2>1. /\ Same(a) /\ admin'[a].step = "idle" /\ UNCHANGED <<user, student, staff, group>>
        /\ c \notin behind /\ (admin[a].class # c \/ ~ActsOn(a, c))
    BY <1>0, <1>20, RestFacts DEF Dies, Syncing, ActsOn, accounts, classes
  <2>. QED  BY <1>12, <1>17, <2>1 DEF ActsOn, Members
<1>21. ASSUME NEW a \in Admins, AddMembers(a) PROVE Goal
  <2>1. CASE admin[a].class # c
    <3>1. /\ Same(a) /\ (Keeps(a) \/ admin'[a].step = "idle")
          /\ UNCHANGED <<user, student, staff>> /\ group'[c] = group[c] /\ c \notin behind
      BY <1>0, <1>21, <2>1, GotoFacts, RestFacts DEF AddMembers, Leave, Steps, accounts
    <3>. QED  BY <1>17, <2>1, <3>1
  <2>2. CASE admin[a].class = c
    <3>1. /\ Same(a) /\ Keeps(a) /\ UNCHANGED <<user, student, staff, behind>>
          /\ group'[c] = group[c] \union admin[a].members /\ c \notin behind
          /\ admin[a].step = "add" /\ admin'[a].step = "list"
          /\ admin'[a].members = admin[a].members
      BY <1>0, <1>21, <2>2, GotoFacts DEF AddMembers, Steps, accounts
    <3>2. \A b \in Admins : Syncing(b, c)' <=> Syncing(b, c)
      BY <3>1 DEF Syncing, Keeps
    <3>3. Syncing(a, c) /\ Reading(c)' = Reading(c)
      BY <2>2, <3>1 DEF Syncing, Reading
    <3>4. Members(c)' = Members(c) /\ admin[a].members \intersect Gone = {}
      BY <1>0, <1>21, <2>2, <3>1 DEF Members, Gone, AddMembers
    <3>5. OnWay(a, c) => OnWay(a, c)'
      BY <3>1, <3>4 DEF OnWay
    <3>6. Alone(c) /\ Follows(c)
      BY <3>1 DEF InStep
    <3>. QED  BY <3>2, <3>3, <3>5, <3>6 DEF Alone, Follows, Settled
  <2>. QED  BY <2>1, <2>2
<1>22. ASSUME NEW a \in Admins, ListStale(a) PROVE Goal
  <2>1. /\ Same(a) /\ Keeps(a) /\ UNCHANGED <<user, student, staff, group>> /\ c \notin behind
        /\ admin[a].step = "list" /\ admin'[a].step = "prune"
        /\ admin'[a].members = group[admin[a].class] \ admin[a].members
    BY <1>0, <1>22 DEF ListStale, Row, Keeps, accounts, classes, ghosts
  <2>2. CASE admin[a].class # c
    BY <1>17, <2>1, <2>2
  <2>3. CASE admin[a].class = c
    <3>1. \A b \in Admins : Syncing(b, c)' <=> Syncing(b, c)
      BY <2>1 DEF Syncing, Keeps
    <3>2. Syncing(a, c) /\ (Reading(c)' <=> Reading(c))
      BY <2>1, <2>3 DEF Syncing, Reading
    <3>3. Members(c)' = Members(c)
      BY <2>1 DEF Members
    <3>4. OnWay(a, c) => OnWay(a, c)'
      BY <2>1, <2>3, <3>3 DEF OnWay
    <3>5. Alone(c) /\ Follows(c)
      BY <2>1 DEF InStep
    <3>. QED  BY <3>1, <3>2, <3>4, <3>5 DEF Alone, Follows, Settled
  <2>. QED  BY <2>2, <2>3
<1>23. ASSUME NEW a \in Admins, Prune(a) PROVE Goal
  <2>1. /\ Same(a) /\ (Keeps(a) \/ admin'[a].step = "idle")
        /\ admin[a].step = "prune" /\ admin'[a].step \in {"idle", "unlock"}
        /\ UNCHANGED <<user, student, staff>> /\ c \notin behind
        /\ group' = [group EXCEPT ![admin[a].class] = @ \ admin[a].members]
    BY <1>0, <1>23, GotoFacts, RestFacts DEF Prune, Leave, Steps, accounts, ghosts
  <2>2. CASE admin[a].class # c
    BY <1>0, <1>17, <2>1, <2>2
  <2>3. CASE admin[a].class = c
    <3>1. Syncing(a, c) /\ Alone(c) /\ Follows(c)
      BY <2>1, <2>3 DEF Syncing, InStep
    <3>2. \A b \in Admins : ~Syncing(b, c)'
      BY <2>1, <3>1 DEF Syncing, Alone
    <3>3. Reading(c) => Reading(c)'
      BY <2>1 DEF Reading
    <3>4. Members(c)' = Members(c)
      BY <2>1 DEF Members
    <3>5. OnWay(a, c) => group'[c] = Members(c)'
      BY <1>0, <2>1, <2>3, <3>4 DEF OnWay
    <3>. QED  BY <3>1, <3>2, <3>3, <3>5 DEF Alone, Follows, Settled
  <2>. QED  BY <2>2, <2>3
(* A student's users row is made, or deleted with all that points to it. *)
<1>24. ASSUME NEW a \in Admins, Same(a), admin[a].step = "user",
              admin'[a].step \in {"student", "undo"},
              UNCHANGED <<student, staff, group>>, MakeUser(admin[a].who)
       PROVE  Goal
  <2>1. /\ c \notin behind
        /\ \A b \in Admins : At(b, "add") /\ admin[b].class = c => admin[a].who \notin admin[b].members
        /\ user' = [user EXCEPT ![admin[a].who] = "active"]
    BY <1>0, <1>24 DEF MakeUser
  <2>2. \A b \in Admins : Syncing(b, c)' <=> Syncing(b, c)
    BY <1>24 DEF Syncing
  <2>3. (Reading(c)' <=> Reading(c)) /\ Members(c)' = Members(c)
    BY <1>24 DEF Reading, Members
  <2>4. \A b \in Admins : Syncing(b, c) => admin'[b] = admin[b]
    BY <1>24 DEF Syncing
  <2>5. \A b \in Admins : At(b, "add") /\ admin[b].class = c
                            => admin[b].members \ Gone' = admin[b].members \ Gone
    BY <1>0, <2>1 DEF Gone
  <2>6. \A b \in Admins : Syncing(b, c) /\ OnWay(b, c) => OnWay(b, c)'
    BY <1>24, <2>3, <2>4, <2>5 DEF OnWay, Syncing
  <2>7. Alone(c) /\ Follows(c) /\ Settled(c)
    BY <2>1 DEF InStep
  <2>. QED  BY <1>24, <2>2, <2>3, <2>6, <2>7 DEF Alone, Follows, Settled
<1>26. ASSUME NEW a \in Admins, InsertUser(a) PROVE Goal
  <2>1. /\ Same(a) /\ admin[a].step = "user" /\ admin'[a].step \in {"student", "undo"}
        /\ UNCHANGED <<student, staff, group>>
    BY <1>0, <1>26, GotoFacts DEF InsertUser, Steps, classes
  <2>2. CASE MakeUser(admin[a].who)
    BY <1>24, <2>1, <2>2
  <2>3. CASE UNCHANGED <<user, behind>>
    <3>1. c \notin behind /\ Members(c)' = Members(c)
      BY <2>1, <2>3 DEF Members
    <3>. QED  BY <1>12, <2>1, <2>3, <3>1
  <2>. QED  BY <1>26, <2>2, <2>3 DEF InsertUser
<1>27. ASSUME NEW a \in Admins, InsertFails(a) PROVE Goal
  <2>1. /\ Same(a) /\ admin[a].step \in {"user", "student"} /\ admin'[a].step = "undo"
        /\ UNCHANGED <<staff, group>> /\ admin[a].who \in Students
    BY <1>0, <1>27, GotoFacts DEF InsertFails, Steps, classes, Typed, WhoType, Enrolling
  <2>2. CASE UNCHANGED <<user, student, behind>>
    <3>1. c \notin behind /\ Members(c)' = Members(c)
      BY <2>1, <2>2 DEF Members
    <3>. QED  BY <1>12, <2>1, <2>2, <3>1
  <2>3. CASE At(a, "user") /\ MakeUser(admin[a].who) /\ UNCHANGED student
    BY <1>24, <2>1, <2>3
  <2>4. CASE /\ At(a, "student") /\ MakeStudent(admin[a].who, admin[a].class)
             /\ behind' = behind \union {admin[a].class} /\ UNCHANGED user
    <3>1. /\ c \notin behind /\ admin[a].class # c /\ student[admin[a].who] = Nobody
          /\ student' = [student EXCEPT ![admin[a].who] = admin[a].class]
      BY <1>0, <2>4 DEF MakeStudent, Identity, Enrolled
    <3>2. Members(c)' = Members(c)
      BY <1>0, <2>1, <3>1, PeopleAssumption DEF Members
    <3>. QED  BY <1>12, <2>1, <2>4, <3>1, <3>2
  <2>. QED  BY <1>27, <2>2, <2>3, <2>4 DEF InsertFails
<1>28. ASSUME NEW d \in Classes, NEW m \in People, Withdraw(d, m) PROVE Goal
  <2>1. /\ UNCHANGED <<user, student, staff, admin>> /\ c \notin behind /\ group'[c] = group[c]
    BY <1>0, <1>28 DEF Withdraw, accounts
  <2>2. Members(c)' = Members(c) /\ Gone' = Gone
    BY <2>1 DEF Members, Gone
  <2>. QED  BY <1>1, <2>1, <2>2 DEF Apart
<1>25. ASSUME NEW s \in Students, Remove(s) PROVE Goal
  <2>1. /\ UNCHANGED <<admin, staff>> /\ c \notin behind
        /\ group'[c] = group[c] \ {s}
        /\ student' = [student EXCEPT ![s] = Nobody] /\ user' = [user EXCEPT ![s] = "none"]
    BY <1>0, <1>25 DEF Remove
  <2>2. Members(c)' = Members(c) \ {s} /\ Gone' = Gone \union {s}
    BY <1>0, <2>1, PeopleAssumption DEF Members, Gone
  <2>3. \A b \in Admins : OnWay(b, c) => OnWay(b, c)'
    BY <2>1, <2>2 DEF OnWay
  <2>4. Alone(c) /\ Follows(c) /\ Settled(c)
    BY <2>1 DEF InStep
  <2>. QED  BY <2>1, <2>2, <2>3, <2>4 DEF Alone, Follows, Settled, Syncing, Reading
<1>. QED
  BY <1>1, <1>2, <1>3, <1>4, <1>5, <1>6, <1>7, <1>8, <1>13, <1>14, <1>15, <1>16, <1>18, <1>19,
     <1>20, <1>21, <1>22, <1>23, <1>25, <1>26, <1>27, <1>28
  DEF Next, Enrolment, Sync, People

-----------------------------------------------------------------------------
LEMMA InitIInv == Init => IInv
<1> SUFFICES ASSUME Init PROVE IInv
  OBVIOUS
<1>1. /\ admin = [a \in Admins |-> Idle] /\ auth = {s \in Students : Enrolled(s)}
      /\ student \in [Students -> Classes \union {Nobody}]
      /\ user = [s \in Students |-> IF Enrolled(s) THEN "active" ELSE "none"]
      /\ group = [c \in Classes |-> Members(c)]
      /\ staff = [c \in Classes |-> [t \in Teachers |-> "no"]]
  BY DEF Init
<1>2. \A a \in Admins : admin[a].step = "idle"
  BY <1>1 DEF Idle
<1>3. Typed
  <2>1. Idle \in Row
    BY DEF Idle, Row
  <2>2. group \in [Classes -> SUBSET (Students \union Teachers)]
    BY <1>1, MembersType DEF People
  <2>3. WhoType
    BY <1>2 DEF WhoType, At, Enrolling
  <2>. QED  BY <1>1, <2>1, <2>2, <2>3, BoundsAssumption DEF Init, Typed, TypeOK
<1>4. Identity /\ NoOrphanAccount
  BY <1>1, <1>2 DEF Identity, NoOrphanAccount, Enrolling, At
<1>5. CapKept
  <2>1. {s \in Students : Active(s)} = {s \in Students : Enrolled(s)}
    BY <1>1 DEF Active
  <2>. QED  BY <2>1 DEF CapKept, Init
<1>6. Room
  <2>1. \A c \in Classes : Coming(c) = {}
    BY <1>2 DEF Coming, At
  <2>2. \A c \in Classes : ActiveIn(c) \union Coming(c) = ActiveIn(c)
    BY <2>1
  <2>. QED  BY <2>2 DEF Room, Init
<1>7. Locked /\ OneHomeroom
  BY <1>1, <1>2 DEF Locked, OneHomeroom, Appointing, At
<1>9. InStep
  BY <1>1, <1>2 DEF InStep, Alone, Follows, Settled, Syncing
<1>. QED  BY <1>3, <1>4, <1>5, <1>6, <1>7, <1>9 DEF IInv

LEMMA NextIInv == IInv /\ [Next]_vars => IInv'
BY TypedStep, IdentityStep, CapStep, RoomStep, LockedStep, InStepStep
DEF IInv

THEOREM SpecIInv == Spec => []IInv
BY InitIInv, NextIInv, PTL DEF Spec

LEMMA InStepIsEnough == InStep => GroupInStep
BY DEF InStep, Settled, GroupInStep, Syncing, Reading, At

(* However many requests cross, a school has at most Cap active students,   *)
(* and a class more than its capacity only where admissions crossed, a      *)
(* student came back, or a full class was not seen to be as a query failed. *)
THEOREM SpecRollInv == Spec => []RollInv
<1>1. IInv => RollInv
  BY RoomKeepsCapacity DEF IInv, Typed, RollInv
<1>. QED  BY <1>1, SpecIInv, PTL

(* When nobody is bringing it in step, the group of a class that was left   *)
(* behind by nothing has the members of the class.                          *)
THEOREM SpecGroupInStep == Spec => []GroupInStep
<1>1. IInv => GroupInStep
  BY InStepIsEnough DEF IInv
<1>. QED  BY <1>1, SpecIInv, PTL

(* Where the lock was there and the last unset was made, a class never has  *)
(* two homeroom teachers.                                                   *)
THEOREM SpecOneHomeroom == Spec => []OneHomeroom
BY SpecIInv, PTL DEF IInv

(* A refused enrolment leaves no account without its users row, unless its  *)
(* undoing was cut off, or the answer of a call to Supabase Auth was lost.  *)
THEOREM SpecNoOrphanAccount == Spec => []NoOrphanAccount
BY SpecIInv, PTL DEF IInv

-----------------------------------------------------------------------------
(***************************************************************************)
(* BlogDiscourse: the invariant.                                           *)
(***************************************************************************)
(* Requests by what they are about. *)
OfComment == {"create", "delete", "moderate"}
OfPost    == {"edit", "down", "restore", "remove"}
OfLikes   == {"toggle", "unreact"}

(* What a request of each kind is about, and the steps it takes. *)
CallTyped(c) ==
    \/ c.op = "idle" /\ c.step = "idle"
    \/ /\ c.op \in OfComment /\ c.topic = c.on /\ c.on \in Comments
       /\ c.step \in {"write", "emit"} /\ c.seen = {}
       /\ IF c.op = "moderate" THEN c.arg \in {"show", "hide"} ELSE c.arg = Nothing
    \/ /\ c.op \in OfPost /\ c.topic = Post /\ c.on = Post
       /\ c.step \in {"write", "emit"} \/ (c.op = "restore" /\ c.step = "close")
       /\ c.seen = {}
       /\ IF c.op # "edit" THEN c.arg = Nothing
          ELSE c.arg \in {"show", "hide"} \/ (c.step = "write" /\ c.arg = "keep")
    \/ /\ c.op = "report" /\ c.topic = c.on /\ c.on \in Reporters
       /\ c.step \in {"write", "count", "store"}
    \/ /\ c.op = "toggle" /\ c.topic = Likes /\ c.on \in Rows /\ c.on[3] = "web"
       /\ c.step \in {"write", "count", "store", "zero", "emit"} /\ c.arg = Nothing
       /\ c.seen = {} \/ \E r \in Rows : c.seen = {r}
    \/ /\ c.op = "unreact" /\ c.topic = Likes /\ c.arg = Nothing
       /\ c.step \in {"write", "count", "store", "zero"} \/ (c.step = "emit" /\ c.seen # {})
       /\ c.seen = {} \/ \E r \in Rows : c.seen = {r}
    \/ /\ c.op = "ingest" /\ c.on \in Offline /\ c.topic = TopicOf(c.on)
       /\ c.step \in {"append", "write", "emit"} /\ c.arg = Nothing /\ c.seen = {}

BlogTyped ==
    /\ BlogTypeOK /\ logged \subseteq Offline
    /\ \A w \in Workers : /\ CallTyped(h[w])
                          /\ h[w].op = "ingest" /\ h[w].step # "append" => h[w].on \in logged

(* What is known of the comment that a request is about. *)
CommentKnown ==
    \A w \in Workers : LET c == h[w].on IN
       /\ AtStep(w, "create", "write") =>
             comment[c] = "none" /\ c \notin logged /\ Busy(c) = {w}
       /\ AtStep(w, "ingest", "append") /\ c \in Comments \ logged => comment[c] = "none"
       /\ h[w].op \in {"delete", "moderate"} \/ AtStep(w, "create", "emit") =>
             comment[c] # "none"

(* A comment whose phone was told, or is about to be, has its row. *)
Written(c) == c \in acked \/ \E w \in Workers : AtStep(w, "ingest", "emit") /\ h[w].on = c
HasRow ==
    /\ \A c \in Comments, s \in Schools :
          <<c, s>> \notin blurred /\ Written(c) => comment[c] # "none"
    /\ \A a \in air : a.at = Home /\ a.what \in Comments => comment[a.what] # "none"
    /\ \A r \in reactions : r[3] = "phone" => r \in logged

(* Where nothing is blurred, a request is alone with its topic (but for a  *)
(* comment's entry at home), and no broadcast about it is under way.       *)
Matters(w, t, s) ==
    /\ h[w].step # "idle" /\ h[w].topic = t
    /\ t \in Comments /\ s = Home => h[w].op # "ingest"
ByItself ==
    \A t \in Topics, s \in Schools : <<t, s>> \notin blurred =>
       \A w \in Workers : Matters(w, t, s) =>
          /\ \A v \in Workers : Matters(v, t, s) => v = w
          /\ \A a \in air : a.at = s => TopicOf(a.what) # t

(* What such a request relies on. *)
Relies(w, s) ==
    LET e == h[w].on IN
    /\ AtStep(w, "edit", "write") \/ AtStep(w, "restore", "write") => ~post.deleted
    /\ AtStep(w, "delete", "write") \/ AtStep(w, "moderate", "write") => Live(e)
    /\ AtStep(w, "ingest", "append") => e \notin logged
    /\ AtStep(w, "ingest", "write") => e \notin acked /\ (e \in Comments => comment[e] = "none")
    /\ AtStep(w, "ingest", "emit") => Visible(e)
    /\ AtStep(w, "ingest", "write") \/ AtStep(w, "ingest", "emit") =>
          (s = Home => <<e, Home>> \in shown)
Reliable ==
    \A w \in Workers, s \in Schools :
       <<h[w].topic, s>> \notin blurred /\ Matters(w, h[w].topic, s) => Relies(w, s)

(* What phones are told and show of a thing: what the web shows of it.  A  *)
(* comment of a phone is in its school's log before it has its row.  Of an *)
(* entry whose phone waits for an answer nothing is said, but of a comment *)
(* at home.                                                                *)
Tells(c) ==
    /\ c.step \in {"count", "store", "zero", "close", "emit"} /\ c.op \notin {"ingest", "report"}
    /\ ~(c.op = "unreact" /\ c.seen = {})
Telling(w) == Tells(h[w])
Thing(c) == IF c.seen # {} THEN CHOOSE r \in c.seen : TRUE ELSE c.on
Promised(e) == (e \in Comments \intersect logged /\ comment[e] = "none") \/ Visible(e)
Claimed(e, s) ==
    /\ s \in Readers /\ <<TopicOf(e), s>> \notin blurred
    /\ e \notin logged \ acked \/ (e \in Comments /\ s = Home)
Sound(e, s) ==
    /\ \A w \in Workers : Telling(w) /\ Told(w) = e => (Says(w) <=> Visible(e))
    /\ \A a \in air : a.what = e /\ a.at = s => (a.as <=> Visible(e))
    /\ \/ \E w \in Workers : Telling(w) /\ Told(w) = e
       \/ \E a \in air : a.what = e /\ a.at = s
       \/ <<e, s>> \in shown <=> Promised(e)
InTune == \A e \in Things, s \in Schools : Claimed(e, s) => Sound(e, s)

(* Counting. *)
LikesKnown ==
    <<Likes, Home>> \notin blurred =>
       /\ \A w \in Workers :
             h[w].topic = Likes /\ h[w].step = "store" => h[w].num = Cardinality(reactions)
       /\ \/ uncounted \/ likes = Cardinality(reactions)
          \/ \E w \in Workers : h[w].topic = Likes /\ h[w].step \in {"count", "store", "zero"}

Reporting == {u \in Reporters : Filed(u) > 0}
Exempt(u) == <<u, Home>> \in blurred \/ u \in unseen
NotedBy(n) == n >= Threshold =>
    Cardinality(Reporting) >= Threshold \/ \E u \in Reporters : Exempt(u)
ReportsKnown ==
    /\ \A u \in Reporters : ~Exempt(u) =>
          /\ Filed(u) <= 1
          /\ \A w \in Workers : AtStep(w, "report", "write") /\ h[w].on = u => Filed(u) = 0
    /\ \A w \in Workers : AtStep(w, "report", "store") => NotedBy(h[w].num)

BlogIInv ==
    /\ BlogTyped /\ CommentsCounted /\ CommentKnown /\ HasRow /\ ByItself /\ Reliable /\ InTune
    /\ LikesKnown /\ ReportsKnown /\ FlagNeedsReporters

-----------------------------------------------------------------------------
(* Things and topics are told apart. *)
LEMMA TopicFacts ==
    /\ \A c \in Comments : c \notin Rows /\ c # Post /\ TopicOf(c) = c /\ c # Likes
                           /\ c \notin Reporters
    /\ Post \notin Rows /\ TopicOf(Post) = Post /\ Post # Likes
    /\ \A r \in Rows : TopicOf(r) = Likes /\ r # Post /\ r \notin Comments
    /\ \A u \in Reporters : u # Likes /\ u # Post /\ u \notin Comments
    /\ \A e \in Things : TopicOf(e) \in Topics
    /\ Offline \subseteq Comments \union Rows /\ Offline \subseteq Things
    /\ Home \in Schools /\ Elsewhere \subseteq Schools /\ Home \notin Elsewhere
BY TopicsAssumption DEF TopicOf, Topics, Things, Offline, Schools

(* What the web shows, thing by thing. *)
LEMMA VisibleIs ==
    /\ Visible(Post) <=> post.published /\ ~post.down /\ ~post.deleted
    /\ \A c \in Comments : Visible(c) <=> comment[c] = "visible"
    /\ \A r \in Rows : Visible(r) <=> r \in reactions
    /\ Visible(Post)' <=> post'.published /\ ~post'.down /\ ~post'.deleted
    /\ \A c \in Comments : Visible(c)' <=> comment'[c] = "visible"
    /\ \A r \in Rows : Visible(r)' <=> r \in reactions'
BY TopicFacts DEF Visible

(* A request's record, field by field. *)
LEMMA CallFields ==
    ASSUME BlogTyped, NEW w \in Workers
    PROVE  /\ h[w] \in Handler /\ CallTyped(h[w])
           /\ h[w].topic \in Topics \union {Nothing}
           /\ h[w].step # "idle" => h[w].topic \in Topics
<1>1. h[w] \in Handler /\ CallTyped(h[w])
  BY DEF BlogTyped, BlogTypeOK
<1>2. h[w].topic \in Topics \union {Nothing}
  BY <1>1 DEF Handler
<1>3. ASSUME h[w].step # "idle"  PROVE h[w].topic \in Topics
  <2>1. \A e \in Offline : TopicOf(e) \in Topics
    BY TopicFacts
  <2>. QED  BY <1>1, <1>3, <2>1 DEF CallTyped, Topics
<1>. QED  BY <1>1, <1>2, <1>3

(* A request that tells something tells a thing of its topic. *)
LEMMA ThingTopic ==
    ASSUME NEW c, CallTyped(c), Tells(c)
    PROVE  Thing(c) \in Things /\ TopicOf(Thing(c)) = c.topic /\ c.topic \in Topics
<1>1. c.step # "idle" /\ c.op \notin {"ingest", "report"}
  BY DEF Tells
<1>2. CASE c.op \in OfComment \union OfPost
  <2>1. Thing(c) = c.on /\ (c.on \in Comments \/ c.on = Post) /\ c.topic = c.on
    BY <1>1, <1>2 DEF CallTyped, Thing, OfComment, OfPost
  <2>. QED  BY <1>1, <2>1, TopicFacts DEF Things, Topics
<1>3. CASE c.op \in OfLikes
  <2>1. c.topic = Likes
    BY <1>1, <1>3 DEF CallTyped, OfLikes, OfComment, OfPost
  <2>2. Thing(c) \in Rows
    <3>1. CASE c.seen = {}
      <4>1. c.op = "toggle" /\ c.on \in Rows
        BY <1>1, <1>3, <3>1 DEF Tells, OfLikes, CallTyped, OfComment, OfPost
      <4>. QED  BY <3>1, <4>1 DEF Thing
    <3>2. CASE c.seen # {}
      <4>1. PICK r \in Rows : c.seen = {r}
        BY <1>1, <1>3, <3>2 DEF OfLikes, CallTyped, OfComment, OfPost
      <4>. QED  BY <3>2, <4>1 DEF Thing
    <3>. QED  BY <3>1, <3>2
  <2>. QED  BY <1>1, <2>1, <2>2, TopicFacts DEF Things, Topics
<1>. QED  BY <1>1, <1>2, <1>3 DEF CallTyped, OfComment, OfPost, OfLikes

(* A request that tells a phone tells it of its topic. *)
LEMMA ToldTopic ==
    ASSUME BlogTyped, NEW w \in Workers, Telling(w)
    PROVE  /\ Told(w) \in Things /\ TopicOf(Told(w)) = h[w].topic
           /\ h[w].step # "idle" /\ h[w].op # "ingest" /\ h[w].topic \in Topics
           /\ \A s \in Schools : Matters(w, h[w].topic, s)
<1>1. Told(w) = Thing(h[w]) /\ CallTyped(h[w])
  BY CallFields DEF Told, Thing
<1>. QED  BY <1>1, ThingTopic DEF Telling, Tells, Matters

(* Nobody but a request tells of its topic, and no broadcast does, where   *)
(* nothing is blurred.                                                     *)
LEMMA NobodyElse ==
    ASSUME BlogTyped, ByItself, NEW w \in Workers, NEW t \in Topics, NEW s \in Schools,
           <<t, s>> \notin blurred, Matters(w, t, s)
    PROVE  /\ \A v \in Workers \ {w} : Telling(v) => TopicOf(Told(v)) # t
           /\ \A a \in air : a.at = s => TopicOf(a.what) # t
<1>1. ASSUME NEW v \in Workers \ {w}, Telling(v), TopicOf(Told(v)) = t  PROVE FALSE
  BY <1>1, ToldTopic DEF ByItself
<1>. QED  BY <1>1 DEF ByItself
-----------------------------------------------------------------------------
(* What a step makes of the record of its request. *)
OnlyOf(w) == h' \in [Workers -> Handler] /\ \A v \in Workers : v # w => h'[v] = h[v]
SameCall(w) == /\ h'[w].op = h[w].op /\ h'[w].topic = h[w].topic /\ h'[w].on = h[w].on
               /\ h'[w].seen = h[w].seen
CallEnds(w) == h'[w].op = "idle" /\ h'[w].step = "idle"

(* A step that only moves on. *)
LEMMA ThenFacts ==
    ASSUME BlogTyped, NEW w \in Workers,
           NEW to \in {"idle", "append", "write", "count", "store", "zero", "close", "emit"},
           Then(w, to)
    PROVE  /\ OnlyOf(w) /\ SameCall(w) /\ h'[w].arg = h[w].arg /\ h'[w].num = h[w].num
           /\ h'[w].step = to
<1>1. h \in [Workers -> Handler] /\ [h[w] EXCEPT !.step = to] \in Handler
  BY DEF BlogTyped, BlogTypeOK, Handler
<1>2. h' = [h EXCEPT ![w] = [h[w] EXCEPT !.step = to]]
  BY DEF Then
<1>. QED  BY <1>1, <1>2 DEF Handler, OnlyOf, SameCall

(* A step that counts. *)
LEMMA NumFacts ==
    ASSUME BlogTyped, NEW w \in Workers, NEW n \in Nat,
           h' = [h EXCEPT ![w].step = "store", ![w].num = n]
    PROVE  /\ OnlyOf(w) /\ SameCall(w) /\ h'[w].arg = h[w].arg /\ h'[w].num = n
           /\ h'[w].step = "store"
<1>1. h \in [Workers -> Handler] /\ [h[w] EXCEPT !.step = "store", !.num = n] \in Handler
  <2>1. h[w] \in Handler
    BY CallFields
  <2>2. \A c \in Handler : [c EXCEPT !.step = "store", !.num = n] \in Handler
    BY DEF Handler
  <2>. QED  BY <2>1, <2>2 DEF BlogTyped, BlogTypeOK
<1>2. h' = [h EXCEPT ![w] = [h[w] EXCEPT !.step = "store", !.num = n]]
  OBVIOUS
<1>. QED  BY <1>1, <1>2 DEF Handler, OnlyOf, SameCall

(* An edit that knows whether it shows the post. *)
LEMMA ArgFacts ==
    ASSUME BlogTyped, NEW w \in Workers, NEW arg \in {"show", "hide"},
           h' = [h EXCEPT ![w].step = "emit", ![w].arg = arg]
    PROVE  OnlyOf(w) /\ SameCall(w) /\ h'[w].arg = arg /\ h'[w].step = "emit"
<1>1. h \in [Workers -> Handler] /\ [h[w] EXCEPT !.step = "emit", !.arg = arg] \in Handler
  <2>1. h[w] \in Handler
    BY CallFields
  <2>2. \A c \in Handler : [c EXCEPT !.step = "emit", !.arg = arg] \in Handler
    BY DEF Handler
  <2>. QED  BY <2>1, <2>2 DEF BlogTyped, BlogTypeOK
<1>2. h' = [h EXCEPT ![w] = [h[w] EXCEPT !.step = "emit", !.arg = arg]]
  OBVIOUS
<1>. QED  BY <1>1, <1>2 DEF Handler, OnlyOf, SameCall

(* A request's last step. *)
LEMMA DoneFacts ==
    ASSUME BlogTyped, NEW w \in Workers, Done(w)
    PROVE  OnlyOf(w) /\ CallEnds(w) /\ h'[w].topic = Nothing
<1>1. h \in [Workers -> Handler] /\ NoCall \in Handler
  BY DEF BlogTyped, BlogTypeOK, Handler, NoCall
<1>. QED  BY <1>1 DEF Done, OnlyOf, CallEnds, NoCall

(* Requests end and go on, they are not replaced. *)
GoesOn(w) ==
    OnlyOf(w) /\ (CallEnds(w) \/ (SameCall(w) /\ h[w].step # "idle" /\ h'[w].step # "idle"))

(* The types of the records. *)
LEMMA CallsTyped ==
    ASSUME BlogTyped, NEW w \in Workers, OnlyOf(w), logged \subseteq logged',
           CallEnds(w) \/ CallTyped(h'[w]),
           h'[w].op = "ingest" /\ h'[w].step # "append" => h'[w].on \in logged'
    PROVE  \A v \in Workers :
              /\ CallTyped(h'[v])
              /\ h'[v].op = "ingest" /\ h'[v].step # "append" => h'[v].on \in logged'
<1>1. ASSUME NEW v \in Workers, v # w
      PROVE  /\ CallTyped(h'[v])
             /\ h'[v].op = "ingest" /\ h'[v].step # "append" => h'[v].on \in logged'
  <2>1. h'[v] = h[v] /\ CallTyped(h[v])
    BY <1>1 DEF OnlyOf, BlogTyped
  <2>2. h[v].op = "ingest" /\ h[v].step # "append" => h[v].on \in logged
    BY DEF BlogTyped
  <2>. QED  BY <2>1, <2>2
<1>2. CallEnds(w) => CallTyped(h'[w])
  BY DEF CallEnds, CallTyped
<1>. QED  BY <1>1, <1>2

-----------------------------------------------------------------------------
(* Who is alone stays alone when no request begins and no broadcast does. *)
LEMMA ByItselfFrame ==
    ASSUME ByItself, blurred \subseteq blurred', air' \subseteq air,
           \A v \in Workers, t \in Topics, s \in Schools : Matters(v, t, s)' => Matters(v, t, s)
    PROVE  ByItself'
BY DEF ByItself

(* A request that goes on or ends mattered before. *)
LEMMA MattersBefore ==
    ASSUME NEW w \in Workers, GoesOn(w)
    PROVE  \A v \in Workers, t \in Topics, s \in Schools : Matters(v, t, s)' => Matters(v, t, s)
BY DEF Matters, GoesOn, OnlyOf, CallEnds, SameCall

(* What is known of comments, as long as they do not change. *)
LEMMA CommentFrame ==
    ASSUME CommentsCounted, CommentKnown, HasRow, NEW w \in Workers, GoesOn(w),
           UNCHANGED <<comment, count, logged>>, blurred \subseteq blurred',
           h'[w].step \notin {"append", "write"} \/ (h'[w].step = "write" /\ h'[w].op = "ingest"),
           AtStep(w, "create", "emit")' => AtStep(w, "create", "emit"),
           \A c \in Comments, s \in Schools :
              Written(c)' /\ <<c, s>> \notin blurred' => Written(c),
           \A a \in air' : a.at = Home /\ a.what \in Comments => comment[a.what] # "none",
           \A r \in reactions' : r[3] = "phone" => r \in logged
    PROVE  CommentsCounted' /\ CommentKnown' /\ HasRow'
<1>1. CommentsCounted'
  BY DEF CommentsCounted, Live
<1>2. HasRow'
  BY DEF HasRow
<1>3. CommentKnown'
  <2> SUFFICES ASSUME NEW v \in Workers
               PROVE  /\ AtStep(v, "create", "write")' =>
                           /\ comment[h'[v].on] = "none" /\ h'[v].on \notin logged
                           /\ Busy(h[v].on)' = {v}
                      /\ AtStep(v, "ingest", "append")' /\ h'[v].on \in Comments \ logged =>
                           comment[h'[v].on] = "none"
                      /\ h'[v].op \in {"delete", "moderate"} \/ AtStep(v, "create", "emit")' =>
                           comment[h'[v].on] # "none"
    BY DEF CommentKnown
  <2>1. CASE v = w
    BY <2>1 DEF GoesOn, OnlyOf, CallEnds, SameCall, AtStep, CommentKnown
  <2>2. CASE v # w
    <3>1. h'[v] = h[v]
      BY <2>2 DEF GoesOn, OnlyOf
    <3>2. ASSUME AtStep(v, "create", "write")  PROVE Busy(h[v].on)' = {v}
      <4>1. Busy(h[v].on) = {v} /\ h[v].step # "idle"
        BY <3>2 DEF CommentKnown, AtStep
      <4>2. \A x \in Workers : h'[x].step # "idle" /\ h'[x].topic = h[v].on =>
                                  h[x].step # "idle" /\ h[x].topic = h[v].on
        BY DEF GoesOn, OnlyOf, CallEnds, SameCall
      <4>3. h'[v].step # "idle" /\ h'[v].topic = h[v].on /\ h'[v].on = h[v].on
        BY <3>1, <4>1 DEF Busy
      <4>. QED  BY <4>1, <4>2, <4>3 DEF Busy
    <3>. QED  BY <3>1, <3>2 DEF CommentKnown, AtStep
  <2>. QED  BY <2>1, <2>2
<1>. QED  BY <1>1, <1>2, <1>3

-----------------------------------------------------------------------------
(* What requests rely on: things that a step does not touch. *)
Untouched(e) ==
    /\ e \in Comments => comment'[e] = comment[e]
    /\ e \in Rows => (e \in reactions' <=> e \in reactions)
    /\ e \in logged' <=> e \in logged
    /\ e \in acked' <=> e \in acked
    /\ <<e, Home>> \in shown' <=> <<e, Home>> \in shown

(* A request of one thing has that thing's topic. *)
LEMMA OnTopic ==
    ASSUME BlogTyped, NEW w \in Workers,
           h[w].op \in OfComment \union OfPost \union {"ingest"}
    PROVE  h[w].on \in Things /\ TopicOf(h[w].on) = h[w].topic
BY CallFields, TopicFacts DEF CallTyped, OfComment, OfPost, OfLikes, Things

KeepsTrust(v) ==
    /\ h'[v] = h[v]
    /\ h[v].op \in {"delete", "moderate"} => comment'[h[v].on] = comment[h[v].on]
    /\ h[v].op \in OfPost => post'.deleted = post.deleted
    /\ h[v].op = "ingest" => Untouched(h[v].on)

(* What a request relies on stays, where a step leaves it alone. *)
LEMMA ReliesFrame ==
    ASSUME BlogTyped, Reliable, blurred \subseteq blurred',
           \A v \in Workers, s \in Schools :
              <<h'[v].topic, s>> \notin blurred' /\ Matters(v, h[v].topic, s)' =>
                 KeepsTrust(v) \/ Relies(v, s)'
    PROVE  Reliable'
<1> SUFFICES ASSUME NEW v \in Workers, NEW s \in Schools, KeepsTrust(v),
                    <<h'[v].topic, s>> \notin blurred', Matters(v, h[v].topic, s)'
             PROVE  Relies(v, s)'
  BY DEF Reliable
<1>1. h'[v] = h[v] /\ Matters(v, h[v].topic, s) /\ <<h[v].topic, s>> \notin blurred
  BY DEF KeepsTrust, Matters
<1>2. Relies(v, s)
  BY <1>1 DEF Reliable
<1>3. CASE h[v].op \notin {"delete", "moderate", "ingest"} \union OfPost
  BY <1>1, <1>3 DEF Relies, AtStep, OfPost
<1>4. CASE h[v].op \in {"delete", "moderate"}
  <2>1. comment'[h[v].on] = comment[h[v].on]
    BY <1>4 DEF KeepsTrust
  <2>. QED  BY <1>1, <1>2, <1>4, <2>1 DEF Relies, AtStep, Live
<1>5. CASE h[v].op \in OfPost
  BY <1>1, <1>2, <1>5 DEF KeepsTrust, Relies, AtStep, OfPost
<1>6. CASE h[v].op = "ingest"
  <2>1. h[v].on \in Comments \union Rows /\ Untouched(h[v].on)
    BY <1>6, CallFields, TopicFacts DEF CallTyped, OfComment, OfPost, KeepsTrust
  <2>2. Visible(h[v].on) => Visible(h[v].on)'
    BY <1>1, <2>1, VisibleIs DEF Untouched
  <2>. QED  BY <1>1, <1>2, <1>6, <2>1, <2>2 DEF Relies, Untouched, AtStep
<1>. QED  BY <1>3, <1>4, <1>5, <1>6

(* Requests of the same topic do not both matter where nothing is blurred. *)
LEMMA AloneWith ==
    ASSUME BlogTyped, ByItself, NEW w \in Workers, NEW v \in Workers \ {w}, NEW s \in Schools,
           <<h[w].topic, s>> \notin blurred, Matters(w, h[w].topic, s),
           Matters(v, h[v].topic, s)
    PROVE  h[v].topic # h[w].topic
<1>1. h[w].topic \in Topics
  BY CallFields DEF Matters
<1>. QED  BY <1>1 DEF ByItself

-----------------------------------------------------------------------------
(* What is told and shown of a thing stays right when nothing of it moves. *)
TellsOf(v, e) == Telling(v) /\ Told(v) = e
Steady(e, s) ==
    /\ Visible(e)' <=> Visible(e)
    /\ Promised(e)' <=> Promised(e)
    /\ <<e, s>> \in shown' <=> <<e, s>> \in shown
    /\ \A a \in air \union air' : a.what = e /\ a.at = s => (a \in air' <=> a \in air)
    /\ \A v \in Workers : /\ TellsOf(v, e)' <=> TellsOf(v, e)
                          /\ TellsOf(v, e) => (Says(v)' <=> Says(v))

(* What was right of a steady thing stays right. *)
LEMMA SteadySound ==
    ASSUME NEW e, NEW s, Sound(e, s), Steady(e, s)
    PROVE  Sound(e, s)'
<1>1. \A w \in Workers : TellsOf(w, e)' => (Says(w)' <=> Visible(e)')
  BY DEF Sound, Steady, TellsOf
<1>2. \A a \in air' : a.what = e /\ a.at = s => (a.as <=> Visible(e)')
  BY DEF Sound, Steady
<1>3. \/ \E w \in Workers : TellsOf(w, e)'
      \/ \E a \in air' : a.what = e /\ a.at = s
      \/ <<e, s>> \in shown' <=> Promised(e)'
  BY DEF Sound, Steady, TellsOf
<1>. QED  BY <1>1, <1>2, <1>3 DEF Sound, TellsOf

(* A request that does nothing tells what it told. *)
LEMMA TellsSame ==
    ASSUME NEW v \in Workers, NEW e, h'[v] = h[v]
    PROVE  (TellsOf(v, e)' <=> TellsOf(v, e)) /\ (Says(v)' <=> Says(v))
BY DEF TellsOf, Telling, Told, Says

(* A thing is steady that the step's own request does not change or tell. *)
LEMMA SteadyBut ==
    ASSUME NEW w \in Workers, OnlyOf(w), NEW e, NEW s,
           Visible(e)' <=> Visible(e), Promised(e)' <=> Promised(e),
           <<e, s>> \in shown' <=> <<e, s>> \in shown,
           \A a \in air \union air' : a.what = e /\ a.at = s => (a \in air' <=> a \in air),
           TellsOf(w, e)' <=> TellsOf(w, e), TellsOf(w, e) => (Says(w)' <=> Says(w))
    PROVE  Steady(e, s)
<1>1. \A v \in Workers \ {w} : (TellsOf(v, e)' <=> TellsOf(v, e)) /\ (Says(v)' <=> Says(v))
  BY TellsSame DEF OnlyOf
<1>. QED  BY <1>1 DEF Steady

(* Phones stay in tune if each thing is steady, or is set right. *)
LEMMA InTuneFrame ==
    ASSUME InTune,
           \A e \in Things, s \in Schools :
              Claimed(e, s)' => (Claimed(e, s) /\ Steady(e, s)) \/ Sound(e, s)'
    PROVE  InTune'
BY SteadySound DEF InTune

(* What is claimed of a thing after a step was claimed of it before. *)
LEMMA ClaimedBefore ==
    ASSUME NEW e, NEW s, Claimed(e, s)', UNCHANGED platform, blurred \subseteq blurred',
           e \in logged /\ e \notin acked => e \in logged' /\ e \notin acked'
    PROVE  Claimed(e, s)
BY DEF Claimed, Readers
-----------------------------------------------------------------------------
(* Reactions are of finitely many users and types. *)
LEMMA RowsFinite == IsFiniteSet(Rows)
<1>. DEFINE S == (Users \X Types) \X {"web", "phone"}
            f == [r \in Rows |-> <<<<r[1], r[2]>>, r[3]>>]
<1>1. IsFiniteSet({"web", "phone"})
  <2>1. {"web", "phone"} = ({} \union {"web"}) \union {"phone"}
    OBVIOUS
  <2>. QED  BY <2>1, FS_EmptySet, FS_AddElement
<1>2. IsFiniteSet(S)
  BY <1>1, SizesAssumption, FS_Product
<1>3. f \in Injection(Rows, S)
  <2>1. f \in [Rows -> S]
    BY DEF Rows
  <2>2. \A r, q \in Rows : f[r] = f[q] => r = q
    BY DEF Rows
  <2>. HIDE DEF f, S
  <2>. QED  BY <2>1, <2>2, Fun_IsInj
<1>. HIDE DEF f, S
<1>. QED  BY <1>2, <1>3, FS_Injection

(* And so are pending reports. *)
LEMMA PendingFinite ==
    ASSUME reports \in [Reporters -> [pending : Nat, closed : Nat]]
    PROVE  IsFiniteSet(PendingReports)
<1>. DEFINE f == [u \in Reporters |-> {u} \X (1..reports[u].pending)]
            S == {f[u] : u \in Reporters}
<1>1. \A u \in Reporters : IsFiniteSet(f[u])
  <2> TAKE u \in Reporters
  <2>1. IsFiniteSet(1..reports[u].pending)
    BY FS_Interval
  <2>. QED  BY <2>1, FS_Singleton, FS_Product
<1>2. PendingReports = UNION S
  BY DEF PendingReports
<1>3. f \in [Reporters -> S]
  OBVIOUS
<1>. HIDE DEF f
<1>4. f \in Surjection(Reporters, S)
  BY <1>3, Fun_IsSurj
<1>5. IsFiniteSet(S) /\ \A T \in S : IsFiniteSet(T)
  BY <1>1, <1>4, SizesAssumption, FS_Surjection
<1>. QED  BY <1>2, <1>5, FS_UNION

(* A user's reaction is none or one. *)
LEMMA ExistingIs ==
    ASSUME BlogTyped, NEW u \in Users
    PROVE  Existing(u) \subseteq Rows /\ (Existing(u) = {} \/ \E r \in Rows : Existing(u) = {r})
<1>1. Mine(u) \subseteq Rows /\ IsFiniteSet(Mine(u))
  <2>1. Mine(u) \subseteq Rows
    BY DEF Mine, BlogTyped, BlogTypeOK
  <2>. QED  BY <2>1, RowsFinite, FS_Subset
<1>2. Cardinality(Mine(u)) = 1 => \E r : Mine(u) = {r}
  BY <1>1, FS_Singleton
<1>. QED  BY <1>1, <1>2 DEF Existing

(* How a request begins. *)
Started(w) ==
    /\ OnlyOf(w) /\ h[w].step = "idle" /\ CallTyped(h'[w])
    /\ h'[w].op # "idle" /\ h'[w].num = 0
    /\ h'[w].step = IF h'[w].op = "ingest" THEN "append" ELSE "write"
    /\ UNCHANGED <<platform, tables, phones, uncounted>>
    /\ requests' \in 0..MaxRequests /\ mishaps' \in 0..MaxMishaps
    /\ unseen \subseteq unseen' /\ unseen' \subseteq Reporters
    /\ blurred' \subseteq Topics \X Schools
    /\ blurred \union Crossing(h'[w].topic, h'[w].op) \subseteq blurred'
StartsOn(w) ==
    LET e == h'[w].on IN
    /\ h'[w].op = "create" => comment[e] = "none" /\ e \notin logged /\ Busy(e) = {}
    /\ h'[w].op \in {"delete", "moderate"} => Live(e)
    /\ h'[w].op \in OfPost => ~post.deleted
    /\ h'[w].op = "report" => Filed(e) # 1 \/ e \in unseen'
    /\ h'[w].op = "ingest" =>
          /\ e \notin acked /\ (e \in Comments \ logged => comment[e] = "none")
          /\ \A v \in Workers : h[v].op = "create" => h[v].on # e
          /\ e \in logged =>
                {TopicOf(e)} \X (IF e \in Comments THEN Elsewhere ELSE Schools) \subseteq blurred'

(* The first step of a request, BeginCall. *)
LEMMA BeginCallFacts ==
    ASSUME BlogTyped, NEW w \in Workers, NEW op, NEW step, NEW topic \in Topics, NEW on, NEW arg,
           NEW seen, BeginCall(w, op, step, topic, on, arg, seen),
           [op |-> op, step |-> step, topic |-> topic, on |-> on, arg |-> arg, seen |-> seen,
            num |-> 0] \in Handler
    PROVE  /\ OnlyOf(w) /\ h[w].step = "idle" /\ requests' \in 0..MaxRequests
           /\ h'[w] = [op |-> op, step |-> step, topic |-> topic, on |-> on, arg |-> arg,
                       seen |-> seen, num |-> 0]
           /\ UNCHANGED <<platform, tables, phones, uncounted>>
           /\ Crossing(topic, op) \subseteq Topics \X Schools
<1>1. OnlyOf(w) /\ h'[w] = [op |-> op, step |-> step, topic |-> topic, on |-> on, arg |-> arg,
                            seen |-> seen, num |-> 0]
  BY DEF BeginCall, BlogTyped, BlogTypeOK, OnlyOf
<1>2. requests' \in 0..MaxRequests
  BY SizesAssumption DEF BeginCall, BlogTyped, BlogTypeOK
<1>3. Crossing(topic, op) \subseteq Topics \X Schools
  BY DEF Crossing
<1>. QED  BY <1>1, <1>2, <1>3 DEF BeginCall

(* The first step of a request through the web: Call, or Unseeing. *)
Opens(w, op, topic, on, arg, seen) ==
    /\ BeginCall(w, op, "write", topic, on, arg, seen)
    /\ blurred' = blurred \union Crossing(topic, op)
    /\ unseen \subseteq unseen' /\ unseen' \subseteq Reporters
    /\ mishaps' \in 0..MaxMishaps

LEMMA CallOpens ==
    ASSUME BlogTyped, NEW w, NEW op, NEW topic, NEW on, NEW arg, NEW seen,
           Call(w, op, topic, on, arg, seen)
    PROVE  Opens(w, op, topic, on, arg, seen)
BY DEF Call, Opens, BlogTyped, BlogTypeOK

LEMMA UnseeingOpens ==
    ASSUME BlogTyped, NEW w, NEW op, NEW topic, NEW on, Unseeing(w, op, topic, on),
           unseen \subseteq unseen', unseen' \subseteq Reporters
    PROVE  Opens(w, op, topic, on, Nothing, {})
BY SizesAssumption DEF Unseeing, Opens, BlogTyped, BlogTypeOK

LEMMA CallFacts ==
    ASSUME BlogTyped, NEW w \in Workers, NEW op, NEW topic \in Topics, NEW on, NEW arg,
           NEW seen \in SUBSET Rows, Opens(w, op, topic, on, arg, seen),
           op \in OfComment \union OfPost \union OfLikes \union {"report"},
           on \in Things \union Users \union Reporters,
           arg \in {"show", "hide", "keep", Nothing},
           CallTyped([op |-> op, step |-> "write", topic |-> topic, on |-> on, arg |-> arg,
                      seen |-> seen, num |-> 0])
    PROVE  /\ Started(w)
           /\ h'[w] = [op |-> op, step |-> "write", topic |-> topic, on |-> on, arg |-> arg,
                       seen |-> seen, num |-> 0]
<1>1. [op |-> op, step |-> "write", topic |-> topic, on |-> on, arg |-> arg, seen |-> seen,
       num |-> 0] \in Handler
  BY DEF Handler, OfComment, OfPost, OfLikes
<1>2. BeginCall(w, op, "write", topic, on, arg, seen)
  BY DEF Opens
<1>3. /\ blurred' = blurred \union Crossing(topic, op) /\ blurred \subseteq Topics \X Schools
      /\ unseen \subseteq unseen' /\ unseen' \subseteq Reporters /\ mishaps' \in 0..MaxMishaps
  BY DEF Opens, BlogTyped, BlogTypeOK
<1>4. op # "idle" /\ op # "ingest"
  BY DEF OfComment, OfPost, OfLikes
<1>. HIDE DEF CallTyped
<1>5. /\ OnlyOf(w) /\ h[w].step = "idle" /\ requests' \in 0..MaxRequests
      /\ h'[w] = [op |-> op, step |-> "write", topic |-> topic, on |-> on, arg |-> arg,
                  seen |-> seen, num |-> 0]
      /\ UNCHANGED <<platform, tables, phones, uncounted>>
      /\ Crossing(topic, op) \subseteq Topics \X Schools
  BY <1>1, <1>2, BeginCallFacts
<1>. QED  BY <1>3, <1>4, <1>5 DEF Started

(* Every first step is one of those. *)
LEMMA StartFacts ==
    ASSUME BlogTyped, NEW w \in Workers, CallStarts(w)
    PROVE  Started(w) /\ StartsOn(w)
<1>1. ASSUME NEW c \in Comments, CreateComment(w, c)  PROVE Started(w) /\ StartsOn(w)
  <2>1. CallTyped([op |-> "create", step |-> "write", topic |-> c, on |-> c, arg |-> Nothing,
                   seen |-> {}, num |-> 0])
    BY DEF CallTyped, OfComment
  <2>2. /\ Started(w)
        /\ h'[w] = [op |-> "create", step |-> "write", topic |-> c, on |-> c, arg |-> Nothing,
                    seen |-> {}, num |-> 0]
    BY <1>1, <2>1, CallOpens, CallFacts DEF CreateComment, Topics, Things, OfComment
  <2>. QED  BY <1>1, <2>2 DEF CreateComment, StartsOn, OfPost
<1>2. ASSUME NEW c \in Comments, DeleteComment(w, c)  PROVE Started(w) /\ StartsOn(w)
  <2>1. CallTyped([op |-> "delete", step |-> "write", topic |-> c, on |-> c, arg |-> Nothing,
                   seen |-> {}, num |-> 0])
    BY DEF CallTyped, OfComment
  <2>2. /\ Started(w)
        /\ h'[w] = [op |-> "delete", step |-> "write", topic |-> c, on |-> c, arg |-> Nothing,
                    seen |-> {}, num |-> 0]
    BY <1>2, <2>1, CallOpens, CallFacts DEF DeleteComment, Topics, Things, OfComment
  <2>. QED  BY <1>2, <2>2 DEF DeleteComment, StartsOn, OfPost
<1>3. ASSUME NEW c \in Comments, NEW arg \in {"show", "hide"}, ModerateComment(w, c, arg)
      PROVE  Started(w) /\ StartsOn(w)
  <2>1. CallTyped([op |-> "moderate", step |-> "write", topic |-> c, on |-> c, arg |-> arg,
                   seen |-> {}, num |-> 0])
    BY DEF CallTyped, OfComment
  <2>2. /\ Started(w)
        /\ h'[w] = [op |-> "moderate", step |-> "write", topic |-> c, on |-> c, arg |-> arg,
                    seen |-> {}, num |-> 0]
    BY <1>3, <2>1, CallOpens, CallFacts DEF ModerateComment, Topics, Things, OfComment
  <2>. QED  BY <1>3, <2>2 DEF ModerateComment, StartsOn, OfPost
<1>4. ASSUME NEW arg \in {"show", "hide", "keep"}, UpdateBlog(w, arg)
      PROVE  Started(w) /\ StartsOn(w)
  <2>1. CallTyped([op |-> "edit", step |-> "write", topic |-> Post, on |-> Post, arg |-> arg,
                   seen |-> {}, num |-> 0])
    BY DEF CallTyped, OfPost
  <2>2. /\ Started(w)
        /\ h'[w] = [op |-> "edit", step |-> "write", topic |-> Post, on |-> Post, arg |-> arg,
                    seen |-> {}, num |-> 0]
    BY <1>4, <2>1, CallOpens, CallFacts DEF UpdateBlog, Topics, Things, OfPost
  <2>. QED  BY <1>4, <2>2 DEF UpdateBlog, StartsOn, OfPost
<1>5. ASSUME NEW op \in {"down", "restore", "remove"}, ~post.deleted,
             Call(w, op, Post, Post, Nothing, {})
      PROVE  Started(w) /\ StartsOn(w)
  <2>1. CallTyped([op |-> op, step |-> "write", topic |-> Post, on |-> Post, arg |-> Nothing,
                   seen |-> {}, num |-> 0])
    BY DEF CallTyped, OfPost
  <2>2. /\ Started(w)
        /\ h'[w] = [op |-> op, step |-> "write", topic |-> Post, on |-> Post, arg |-> Nothing,
                    seen |-> {}, num |-> 0]
    BY <1>5, <2>1, CallOpens, CallFacts DEF Topics, Things, OfPost
  <2>. QED  BY <1>5, <2>2 DEF StartsOn, OfPost
<1>6. ASSUME NEW u \in Reporters, ReportBlog(w, u)  PROVE Started(w) /\ StartsOn(w)
  <2>1. CallTyped([op |-> "report", step |-> "write", topic |-> u, on |-> u, arg |-> Nothing,
                   seen |-> {}, num |-> 0])
    BY DEF CallTyped
  <2>2. Opens(w, "report", u, u, Nothing, {}) /\ (Filed(u) = 1 => u \in unseen')
    <3>1. CASE Filed(u) # 1
      BY <1>6, <3>1, CallOpens DEF ReportBlog
    <3>2. CASE Filed(u) = 1
      <4>1. Unseeing(w, "report", u, u) /\ unseen' = unseen \union {u} /\ unseen \subseteq Reporters
        BY <1>6, <3>2 DEF ReportBlog, BlogTyped, BlogTypeOK
      <4>. QED  BY <4>1, UnseeingOpens
    <3>. QED  BY <3>1, <3>2
  <2>3. /\ Started(w)
        /\ h'[w] = [op |-> "report", step |-> "write", topic |-> u, on |-> u, arg |-> Nothing,
                    seen |-> {}, num |-> 0]
    BY <2>1, <2>2, CallFacts DEF Topics
  <2>. QED  BY <2>2, <2>3 DEF StartsOn, OfPost
<1>7. ASSUME NEW u \in Users, RemoveReaction(w, u)  PROVE Started(w) /\ StartsOn(w)
  <2>. PICK seen \in SUBSET Rows : /\ Opens(w, "unreact", Likes, u, Nothing, seen)
                                   /\ seen = {} \/ \E r \in Rows : seen = {r}
    <3>1. CASE Call(w, "unreact", Likes, u, Nothing, Existing(u))
      BY <3>1, CallOpens, ExistingIs
    <3>2. CASE UNCHANGED unseen /\ Unseeing(w, "unreact", Likes, u)
      BY <3>2, UnseeingOpens DEF BlogTyped, BlogTypeOK
    <3>. QED  BY <1>7, <3>1, <3>2 DEF RemoveReaction
  <2>1. CallTyped([op |-> "unreact", step |-> "write", topic |-> Likes, on |-> u,
                   arg |-> Nothing, seen |-> seen, num |-> 0])
    BY DEF CallTyped
  <2>2. /\ Started(w)
        /\ h'[w] = [op |-> "unreact", step |-> "write", topic |-> Likes, on |-> u,
                    arg |-> Nothing, seen |-> seen, num |-> 0]
    BY <2>1, CallFacts DEF Topics, OfLikes
  <2>. QED  BY <2>2 DEF StartsOn, OfPost
<1>8. ASSUME NEW u \in Users, NEW t \in Types, ToggleReaction(w, u, t)
      PROVE  Started(w) /\ StartsOn(w)
  <2>4. PICK seen \in SUBSET Rows : /\ Opens(w, "toggle", Likes, <<u, t, "web">>, Nothing, seen)
                                    /\ seen = {} \/ \E r \in Rows : seen = {r}
    <3>1. CASE Call(w, "toggle", Likes, <<u, t, "web">>, Nothing, Existing(u))
      BY <3>1, CallOpens, ExistingIs
    <3>2. CASE UNCHANGED unseen /\ Unseeing(w, "toggle", Likes, <<u, t, "web">>)
      BY <3>2, UnseeingOpens DEF BlogTyped, BlogTypeOK
    <3>. QED  BY <1>8, <3>1, <3>2 DEF ToggleReaction
  <2>3. <<u, t, "web">> \in Rows /\ <<u, t, "web">>[3] = "web"
    BY DEF Rows
  <2>. PICK q \in Rows : q = <<u, t, "web">> /\ q[3] = "web"
    BY <2>3
  <2>1. CallTyped([op |-> "toggle", step |-> "write", topic |-> Likes, on |-> q,
                   arg |-> Nothing, seen |-> seen, num |-> 0])
    BY <2>4 DEF CallTyped
  <2>2. /\ Started(w)
        /\ h'[w] = [op |-> "toggle", step |-> "write", topic |-> Likes, on |-> q,
                    arg |-> Nothing, seen |-> seen, num |-> 0]
    BY <2>1, <2>4, CallFacts DEF Topics, Things, OfLikes
  <2>. QED  BY <2>2 DEF StartsOn, OfPost
<1>9. ASSUME NEW e \in Offline, Ingest(w, e)  PROVE Started(w) /\ StartsOn(w)
  <2>1. /\ [op |-> "ingest", step |-> "append", topic |-> TopicOf(e), on |-> e, arg |-> Nothing,
            seen |-> {}, num |-> 0] \in Handler
        /\ TopicOf(e) \in Topics /\ e \in Things
    BY TopicFacts DEF Handler
  <2>2. /\ OnlyOf(w) /\ h[w].step = "idle" /\ requests' \in 0..MaxRequests
        /\ h'[w] = [op |-> "ingest", step |-> "append", topic |-> TopicOf(e), on |-> e,
                    arg |-> Nothing, seen |-> {}, num |-> 0]
        /\ UNCHANGED <<platform, tables, phones, uncounted>>
        /\ Crossing(TopicOf(e), "ingest") \subseteq Topics \X Schools
    BY <1>9, <2>1, BeginCallFacts DEF Ingest
  <2>3. CallTyped(h'[w])
    BY <2>2 DEF CallTyped
  <2>4. blurred' \subseteq Topics \X Schools
    BY <1>9, <2>1, <2>2, TopicFacts DEF Ingest, BlogTyped, BlogTypeOK
  <2>5. Started(w)
    BY <1>9, <2>2, <2>3, <2>4 DEF Started, Ingest, BlogTyped, BlogTypeOK
  <2>6. StartsOn(w)
    BY <1>9, <2>2 DEF StartsOn, Ingest, OfPost
  <2>. QED  BY <2>5, <2>6
<1>. QED
  BY <1>1, <1>2, <1>3, <1>4, <1>5, <1>6, <1>7, <1>8, <1>9
  DEF CallStarts, TakedownBlog, RestoreBlog, DeleteBlog
-----------------------------------------------------------------------------
(* How a request goes on. *)
Progress(w) ==
    /\ GoesOn(w) /\ h[w].step # "idle" /\ (CallEnds(w) \/ CallTyped(h'[w]))
    /\ h'[w].op = "ingest" /\ h'[w].step # "append" => h'[w].on \in logged'
    /\ logged \subseteq logged' /\ logged' \subseteq Offline
    /\ blurred \subseteq blurred' /\ blurred' \subseteq Topics \X Schools
    /\ mishaps' \in 0..MaxMishaps /\ UNCHANGED <<platform, requests, unseen>>

(* A step that moves on as its kind of request does keeps the types. *)
LEMMA ThenTyped ==
    ASSUME BlogTyped, NEW w \in Workers, h[w].step # "idle",
           NEW to \in {"write", "count", "store", "zero", "close", "emit"}, Then(w, to),
           \/ h[w].op = "ingest" /\ to \in {"write", "emit"}
           \/ h[w].op \in OfComment \union {"down", "restore", "remove"} /\ to = "emit"
           \/ h[w].op = "restore" /\ to = "close"
           \/ h[w].op = "report" /\ to \in {"count", "store"}
           \/ h[w].op = "toggle" /\ to # "close"
           \/ h[w].op = "unreact" /\ to \in {"count", "store", "zero"}
           \/ h[w].op = "unreact" /\ to = "emit" /\ h[w].seen # {}
    PROVE  GoesOn(w) /\ CallTyped(h'[w])
<1>1. /\ OnlyOf(w) /\ SameCall(w) /\ h'[w].arg = h[w].arg /\ h'[w].step = to
      /\ CallTyped(h[w])
  BY ThenFacts, CallFields
<1>2. GoesOn(w)
  BY <1>1 DEF GoesOn
<1>3. CASE h[w].op = "ingest"
  BY <1>1, <1>2, <1>3 DEF CallTyped, SameCall, OfComment, OfPost
<1>4. CASE h[w].op \in OfComment
  BY <1>1, <1>2, <1>4 DEF CallTyped, SameCall, OfComment, OfPost
<1>5. CASE h[w].op \in OfPost
  BY <1>1, <1>2, <1>5 DEF CallTyped, SameCall, OfComment, OfPost
<1>6. CASE h[w].op = "report"
  BY <1>1, <1>2, <1>6 DEF CallTyped, SameCall, OfComment, OfPost
<1>7. CASE h[w].op = "toggle"
  BY <1>1, <1>2, <1>7 DEF CallTyped, SameCall, OfComment, OfPost
<1>8. CASE h[w].op = "unreact"
  BY <1>1, <1>2, <1>8 DEF CallTyped, SameCall, OfComment, OfPost
<1>. QED  BY <1>2, <1>3, <1>4, <1>5, <1>6, <1>7, <1>8 DEF OfPost

(* So does a last step. *)
LEMMA DoneTyped ==
    ASSUME BlogTyped, NEW w \in Workers, h[w].step # "idle", Done(w)
    PROVE  GoesOn(w) /\ CallEnds(w)
BY DoneFacts DEF GoesOn

(* Every later step moves its request on or ends it. *)
LEMMA ProgressFacts ==
    ASSUME BlogTyped, NEW w \in Workers, CallSteps(w) \/ CallDies(w)
    PROVE  Progress(w)
<1>0. /\ CallTyped(h[w]) /\ (h[w].step # "idle" => h[w].topic \in Topics)
      /\ logged \subseteq Offline /\ blurred \subseteq Topics \X Schools
      /\ mishaps \in 0..MaxMishaps
      /\ h[w].op = "ingest" /\ h[w].step # "append" => h[w].on \in logged
  BY CallFields DEF BlogTyped, BlogTypeOK
<1>. DEFINE Remains == /\ logged \subseteq logged' /\ logged' \subseteq Offline
                    /\ blurred \subseteq blurred' /\ blurred' \subseteq Topics \X Schools
                    /\ mishaps' \in 0..MaxMishaps /\ UNCHANGED <<platform, requests, unseen>>
<1>. SUFFICES ASSUME TRUE
              PROVE  /\ GoesOn(w) /\ h[w].step # "idle" /\ (CallEnds(w) \/ CallTyped(h'[w]))
                     /\ h'[w].op = "ingest" /\ h'[w].step # "append" => h'[w].on \in logged'
                     /\ Remains
  BY DEF Progress
<1>1. ASSUME AppendEntry(w)
      PROVE  /\ GoesOn(w) /\ h[w].step # "idle" /\ CallTyped(h'[w]) /\ Remains
             /\ h'[w].on \in logged'
  <2>1. h[w].step # "idle" /\ h[w].op = "ingest" /\ h[w].on \in Offline
    BY <1>0, <1>1 DEF AppendEntry, AtStep, CallTyped, OfComment, OfPost
  <2>2. GoesOn(w) /\ CallTyped(h'[w]) /\ h'[w].on = h[w].on
    BY <1>1, <2>1, ThenTyped, ThenFacts DEF AppendEntry, SameCall
  <2>. QED  BY <1>0, <1>1, <2>1, <2>2 DEF AppendEntry, Stays, blurs
<1>2. ASSUME UpsertComment(w) \/ UpsertReaction(w) \/ UpsertFails(w)
      PROVE  /\ GoesOn(w) /\ h[w].step # "idle" /\ CallTyped(h'[w]) /\ Remains
             /\ h'[w].on \in logged'
  <2>1. /\ AtStep(w, "ingest", "write") /\ Then(w, "emit")
        /\ UNCHANGED <<platform, requests, logged, unseen>>
        /\ mishaps' = mishaps \/ (mishaps < MaxMishaps /\ mishaps' = mishaps + 1)
        /\ \/ blurred' = blurred \/ blurred' = blurred \union {Likes} \X Schools
           \/ blurred' = blurred \union {h[w].topic} \X Schools
    BY <1>2 DEF UpsertComment, UpsertReaction, UpsertFails, Stays, blurs, phones
  <2>2. GoesOn(w) /\ CallTyped(h'[w]) /\ h'[w].on = h[w].on
    BY <2>1, ThenTyped, ThenFacts DEF SameCall, AtStep
  <2>3. mishaps' \in 0..MaxMishaps
    BY <1>0, <2>1, SizesAssumption
  <2>. QED  BY <1>0, <2>1, <2>2, <2>3 DEF AtStep, Topics
<1>3. ASSUME InsertComment(w) \/ MarkDeleted(w) \/ MarkModerated(w) \/ WriteTakedown(w)
             \/ WriteRestore(w) \/ CloseReports(w) \/ WriteDelete(w) \/ InsertReport(w)
             \/ DropReaction(w)
      PROVE  GoesOn(w) /\ h[w].step # "idle" /\ CallTyped(h'[w]) /\ h'[w].op # "ingest" /\ Remains
  <2>1. /\ UNCHANGED <<platform, requests, mishaps, logged, blurred, unseen>> /\ h[w].step # "idle"
        /\ h[w].op # "ingest"
        /\ \/ h[w].op \in OfComment \union {"down", "restore", "remove"} /\ Then(w, "emit")
           \/ h[w].op = "restore" /\ Then(w, "close")
           \/ h[w].op \in {"report", "unreact"} /\ Then(w, "count")
    BY <1>3 DEF InsertComment, MarkDeleted, MarkModerated, WriteTakedown, WriteRestore,
                CloseReports, WriteDelete, InsertReport, DropReaction, Stays, phones, blurs,
                AtStep, OfComment
  <2>2. GoesOn(w) /\ CallTyped(h'[w]) /\ h'[w].op = h[w].op
    BY <2>1, ThenTyped, ThenFacts DEF SameCall
  <2>. QED  BY <1>0, <2>1, <2>2
<1>4. ASSUME WriteEdit(w)
      PROVE  GoesOn(w) /\ h[w].step # "idle" /\ CallTyped(h'[w]) /\ h'[w].op # "ingest" /\ Remains
  <2>1. PICK arg \in {"show", "hide"} : h' = [h EXCEPT ![w].step = "emit", ![w].arg = arg]
    BY <1>0, <1>4 DEF WriteEdit, AtStep, CallTyped, OfComment, OfPost
  <2>2. OnlyOf(w) /\ SameCall(w) /\ h'[w].arg = arg /\ h'[w].step = "emit"
    BY <2>1, ArgFacts
  <2>3. h[w].op = "edit" /\ h[w].step = "write"
    BY <1>4 DEF WriteEdit, AtStep
  <2>4. CallTyped(h'[w])
    BY <1>0, <2>2, <2>3 DEF CallTyped, SameCall, OfComment, OfPost
  <2>. QED  BY <1>0, <1>4, <2>2, <2>3, <2>4 DEF WriteEdit, Stays, phones, GoesOn, SameCall, Topics
<1>5. ASSUME CountReports(w) \/ CountLikes(w) \/ CountReportsFails(w)
      PROVE  GoesOn(w) /\ h[w].step # "idle" /\ CallTyped(h'[w]) /\ h'[w].op # "ingest" /\ Remains
  <2>1. PICK n : h' = [h EXCEPT ![w].step = "store", ![w].num = n] /\ n \in Nat
    <3>1. Cardinality(reactions) \in Nat
      BY RowsFinite, FS_Subset, FS_CardinalityType DEF BlogTyped, BlogTypeOK
    <3>2. Cardinality(PendingReports) \in Nat
      BY PendingFinite, FS_CardinalityType DEF BlogTyped, BlogTypeOK
    <3>. QED  BY <1>5, <3>1, <3>2 DEF CountReports, CountLikes, CountReportsFails
  <2>2. OnlyOf(w) /\ SameCall(w) /\ h'[w].arg = h[w].arg /\ h'[w].step = "store"
    BY <2>1, NumFacts
  <2>3. h[w].step = "count" /\ h[w].op \in OfLikes \union {"report"}
    BY <1>0, <1>5, TopicFacts
    DEF CountReports, CountLikes, CountReportsFails, AtStep, CallTyped, OfComment, OfPost, OfLikes
  <2>4. CallTyped(h'[w])
    BY <1>0, <2>2, <2>3 DEF CallTyped, SameCall, OfComment, OfPost, OfLikes
  <2>5. Remains
    BY <1>0, <1>5, SizesAssumption
    DEF CountReports, CountLikes, CountReportsFails, Stays, phones, blurs
  <2>. QED  BY <2>2, <2>3, <2>4, <2>5 DEF GoesOn, SameCall, OfLikes
<1>6. ASSUME StoreLikes(w) \/ StoreZero(w) \/ StoreLikesFails(w) \/ WriteReaction(w)
      PROVE  /\ GoesOn(w) /\ h[w].step # "idle" /\ (CallEnds(w) \/ CallTyped(h'[w]))
             /\ h'[w].op # "ingest" /\ Remains
  <2>1. /\ h[w].step \in {"write", "store", "zero"} /\ h[w].op \in OfLikes
        /\ \/ Done(w)
           \/ Then(w, "emit") /\ (h[w].op = "toggle" \/ h[w].seen # {})
           \/ Then(w, "count")
    BY <1>0, <1>6, TopicFacts
    DEF StoreLikes, StoreZero, StoreLikesFails, Counted, WriteReaction, AtStep, CallTyped,
        OfComment, OfPost, OfLikes
  <2>4. Remains
    BY <1>0, <1>6, SizesAssumption
    DEF StoreLikes, StoreZero, StoreLikesFails, WriteReaction, Stays, phones, blurs
  <2>2. CASE Done(w)
    BY <2>1, <2>2, <2>4, DoneTyped DEF CallEnds
  <2>3. CASE \/ Then(w, "emit") /\ (h[w].op = "toggle" \/ h[w].seen # {})
            \/ Then(w, "count")
    <3>1. GoesOn(w) /\ CallTyped(h'[w]) /\ h'[w].op = h[w].op
      BY <2>1, <2>3, ThenTyped, ThenFacts DEF OfLikes, SameCall
    <3>. QED  BY <2>1, <2>4, <3>1 DEF OfLikes
  <2>. QED  BY <2>1, <2>2, <2>3
<1>7. ASSUME StoreFlag(w) \/ EmitSyncEvent(w) \/ AnswerEntry(w) \/ CallDies(w)
      PROVE  GoesOn(w) /\ h[w].step # "idle" /\ CallEnds(w) /\ h'[w].op # "ingest" /\ Remains
  <2>1. /\ Done(w) /\ h[w].step # "idle" /\ UNCHANGED <<platform, requests, logged, unseen>>
        /\ mishaps' = mishaps \/ (mishaps < MaxMishaps /\ mishaps' = mishaps + 1)
        /\ blurred' = blurred \/ blurred' = blurred \union {h[w].topic} \X Schools
    <3>1. CASE StoreFlag(w)
      BY <3>1 DEF StoreFlag, Stays, phones, blurs, AtStep
    <3>2. CASE EmitSyncEvent(w)
      BY <3>2 DEF EmitSyncEvent, Stays, blurs
    <3>3. CASE AnswerEntry(w)
      BY <3>3 DEF AnswerEntry, blurs, AtStep
    <3>4. CASE CallDies(w)
      BY <3>4 DEF CallDies, phones, AtStep
    <3>. QED  BY <1>7, <3>1, <3>2, <3>3, <3>4
  <2>2. GoesOn(w) /\ CallEnds(w)
    BY <2>1, DoneTyped
  <2>3. mishaps' \in 0..MaxMishaps
    BY <1>0, <2>1, SizesAssumption
  <2>. QED  BY <1>0, <2>1, <2>2, <2>3 DEF CallEnds
<1>8. ASSUME CloseFails(w) \/ DeleteFails(w) \/ CountLikesFails(w)
      PROVE  GoesOn(w) /\ h[w].step # "idle" /\ CallTyped(h'[w]) /\ h'[w].op # "ingest" /\ Remains
  <2>1. /\ h[w].step # "idle"
        /\ \/ h[w].op \in {"restore", "remove"} /\ Then(w, "emit")
           \/ h[w].op \in OfLikes /\ (Then(w, "count") \/ Then(w, "zero"))
    BY <1>0, <1>8, TopicFacts
    DEF CloseFails, DeleteFails, CountLikesFails, AtStep, CallTyped, OfComment, OfPost, OfLikes
  <2>2. GoesOn(w) /\ CallTyped(h'[w]) /\ h'[w].op = h[w].op
    BY <2>1, ThenTyped, ThenFacts DEF SameCall, OfLikes
  <2>3. Remains
    BY <1>0, <1>8, <2>1, SizesAssumption
    DEF CloseFails, DeleteFails, CountLikesFails, phones, blurs
  <2>. QED  BY <2>1, <2>2, <2>3 DEF OfLikes
<1>. HIDE DEF Remains
<1>. QED  BY <1>1, <1>2, <1>3, <1>4, <1>5, <1>6, <1>7, <1>8 DEF CallSteps
-----------------------------------------------------------------------------
(* The types of the tables and of what phones are told. *)
TablesOK ==
    /\ uncounted \in BOOLEAN
    /\ post \in [deleted : BOOLEAN, down : BOOLEAN, published : BOOLEAN, flagged : BOOLEAN]
    /\ comment \in [Comments -> {"none", "visible", "hidden", "deleted"}]
    /\ reports \in [Reporters -> [pending : Nat, closed : Nat]]
    /\ count \in Nat /\ likes \in Nat /\ reactions \subseteq Rows
PhonesOK ==
    /\ shown \subseteq Things \X Schools
    /\ air \subseteq [what : Things, as : BOOLEAN, at : Schools]
    /\ acked \subseteq logged

(* What is emitted is a thing. *)
LEMMA EmitsThing ==
    ASSUME BlogTyped, NEW w \in Workers, EmitSyncEvent(w) \/ AnswerEntry(w)
    PROVE  Told(w) \in Things /\ Says(w) \in BOOLEAN
<1>1. CASE h[w].op # "ingest"
  <2>1. h[w].step = "emit"
    BY <1>1 DEF EmitSyncEvent, AnswerEntry, AtStep
  <2>2. Telling(w)
    BY <1>1, <2>1, CallFields DEF Telling, Tells, CallTyped, OfComment, OfPost
  <2>. QED  BY <2>2, ToldTopic DEF Says
<1>2. CASE h[w].op = "ingest"
  <2>1. Told(w) = h[w].on /\ h[w].on \in Offline
    BY <1>2, CallFields DEF Told, CallTyped, OfComment, OfPost
  <2>. QED  BY <2>1, TopicFacts DEF Says
<1>. QED  BY <1>1, <1>2

(* The types of what phones are told, after a step of a request. *)
LEMMA PhonesTyped ==
    ASSUME BlogTyped, NEW w \in Workers, CallSteps(w) \/ CallDies(w)
    PROVE  PhonesOK'
<1>0. PhonesOK /\ (h[w].op = "ingest" /\ h[w].step # "append" => h[w].on \in logged)
  BY DEF PhonesOK, BlogTyped, BlogTypeOK
<1>1. CASE AppendEntry(w)
  <2>1. h[w].on \in Things
    BY <1>1, OnTopic DEF AppendEntry, AtStep
  <2>. QED  BY <1>0, <1>1, <2>1, TopicFacts DEF AppendEntry, AfterEntry, PhonesOK
<1>2. CASE EmitSyncEvent(w)
  BY <1>0, <1>2, EmitsThing, TopicFacts
  DEF EmitSyncEvent, Broadcast, Apply, PhonesOK, BlogTyped, BlogTypeOK
<1>3. CASE AnswerEntry(w)
  <2>1. air' \subseteq [what : Things, as : BOOLEAN, at : Schools]
    BY <1>0, <1>3, EmitsThing, TopicFacts DEF AnswerEntry, Broadcast, PhonesOK
  <2>. QED  BY <1>0, <1>3, <2>1 DEF AnswerEntry, PhonesOK, AtStep
<1>4. CASE UNCHANGED phones
  BY <1>0, <1>4 DEF PhonesOK, phones
<1>. QED
  BY <1>1, <1>2, <1>3, <1>4
  DEF CallSteps, CallDies, UpsertComment, UpsertReaction, UpsertFails, InsertComment, MarkDeleted,
      MarkModerated, WriteEdit, WriteTakedown, WriteRestore, CloseReports, WriteDelete,
      InsertReport, CountReports, StoreFlag, WriteReaction, DropReaction, CountLikes, StoreLikes,
      CloseFails, CountReportsFails, DeleteFails, CountLikesFails, StoreZero, StoreLikesFails

(* The types of the tables, after a step of a request. *)
LEMMA TablesTyped ==
    ASSUME BlogTyped, NEW w \in Workers, CallSteps(w) \/ CallDies(w)
    PROVE  TablesOK'
<1>0. TablesOK /\ CallTyped(h[w]) /\ h[w] \in Handler
  BY CallFields DEF TablesOK, BlogTyped, BlogTypeOK
<1>1. CASE UpsertComment(w) \/ InsertComment(w) \/ MarkDeleted(w) \/ MarkModerated(w)
  <2>1. count' \in Nat
    BY <1>0, <1>1
    DEF TablesOK, UpsertComment, InsertComment, MarkDeleted, MarkModerated, CountAfterDelete
  <2>2. comment' \in [Comments -> {"none", "visible", "hidden", "deleted"}]
    BY <1>0, <1>1 DEF TablesOK, UpsertComment, InsertComment, MarkDeleted, MarkModerated
  <2>. QED
    BY <1>0, <1>1, <2>1, <2>2
    DEF TablesOK, UpsertComment, InsertComment, MarkDeleted, MarkModerated, blurs
<1>2. CASE WriteEdit(w) \/ WriteTakedown(w) \/ WriteRestore(w) \/ WriteDelete(w) \/ StoreFlag(w)
  <2>1. post' \in [deleted : BOOLEAN, down : BOOLEAN, published : BOOLEAN, flagged : BOOLEAN]
    <3>1. h[w].num \in Nat /\ Threshold \in Nat
      BY <1>0, SizesAssumption DEF Handler
    <3>2. \A x \in BOOLEAN : [post EXCEPT !.published = x] \in
            [deleted : BOOLEAN, down : BOOLEAN, published : BOOLEAN, flagged : BOOLEAN]
      BY <1>0 DEF TablesOK
    <3>3. \A x \in BOOLEAN : [post EXCEPT !.flagged = x] \in
            [deleted : BOOLEAN, down : BOOLEAN, published : BOOLEAN, flagged : BOOLEAN]
      BY <1>0 DEF TablesOK
    <3>4. WriteEdit(w) => \E x \in BOOLEAN : post' = [post EXCEPT !.published = x]
      BY DEF WriteEdit
    <3>5. StoreFlag(w) => \E x \in BOOLEAN : post' = [post EXCEPT !.flagged = x]
      <4>1. (h[w].num >= Threshold) \in BOOLEAN
        BY <3>1
      <4>2. StoreFlag(w) => post' = [post EXCEPT !.flagged = (h[w].num >= Threshold)]
        BY DEF StoreFlag
      <4>. QED  BY <4>1, <4>2
    <3>6. WriteTakedown(w) \/ WriteRestore(w) \/ WriteDelete(w) => post' \in
            [deleted : BOOLEAN, down : BOOLEAN, published : BOOLEAN, flagged : BOOLEAN]
      BY <1>0 DEF TablesOK, WriteTakedown, WriteRestore, WriteDelete
    <3>. QED  BY <1>2, <3>2, <3>3, <3>4, <3>5, <3>6
  <2>. QED
    BY <1>0, <1>2, <2>1
    DEF TablesOK, WriteEdit, WriteTakedown, WriteRestore, WriteDelete, StoreFlag, blurs
<1>3. CASE CloseReports(w) \/ InsertReport(w)
  <2>1. reports' \in [Reporters -> [pending : Nat, closed : Nat]]
    <3>1. CASE CloseReports(w)
      BY <1>0, <3>1 DEF TablesOK, CloseReports, Filed
    <3>2. CASE InsertReport(w)
      <4>1. h[w].on \in Reporters
        BY <1>0, <3>2 DEF InsertReport, AtStep, CallTyped, OfComment, OfPost
      <4>. QED  BY <1>0, <3>2, <4>1 DEF TablesOK, InsertReport
    <3>. QED  BY <1>3, <3>1, <3>2
  <2>. QED  BY <1>0, <1>3, <2>1 DEF TablesOK, CloseReports, InsertReport, blurs
<1>4. CASE UpsertReaction(w) \/ WriteReaction(w) \/ DropReaction(w) \/ StoreLikes(w)
           \/ StoreZero(w) \/ StoreLikesFails(w)
  <2>1. reactions' \subseteq Rows
    <3>1. WriteReaction(w) => h[w].on \in Rows
      BY <1>0 DEF WriteReaction, AtStep, CallTyped, OfComment, OfPost
    <3>. QED
      BY <1>0, <1>4, <3>1
      DEF TablesOK, UpsertReaction, WriteReaction, DropReaction, StoreLikes, StoreZero,
          StoreLikesFails, tables
  <2>2. likes' \in Nat
    BY <1>0, <1>4
    DEF TablesOK, UpsertReaction, WriteReaction, DropReaction, StoreLikes, StoreZero,
        StoreLikesFails, tables, Handler
  <2>3. uncounted' \in BOOLEAN
    BY <1>0, <1>4
    DEF TablesOK, UpsertReaction, WriteReaction, DropReaction, StoreLikes, StoreZero,
        StoreLikesFails, tables, blurs
  <2>. QED
    BY <1>0, <1>4, <2>1, <2>2, <2>3
    DEF TablesOK, UpsertReaction, WriteReaction, DropReaction, StoreLikes, StoreZero,
        StoreLikesFails, tables, blurs
<1>5. CASE UNCHANGED <<tables, uncounted>>
  BY <1>0, <1>5 DEF TablesOK, tables
<1>. QED
  BY <1>1, <1>2, <1>3, <1>4, <1>5
  DEF CallSteps, CallDies, AppendEntry, UpsertFails, CountReports, CountLikes, EmitSyncEvent,
      AnswerEntry, CloseFails, CountReportsFails, DeleteFails, CountLikesFails, blurs

(* Every step keeps the types. *)
LEMMA BlogTypedStep == BlogTyped /\ [BlogNext]_blogVars => BlogTyped'
<1> SUFFICES ASSUME BlogTyped, [BlogNext]_blogVars  PROVE BlogTyped'
  OBVIOUS
<1>1. ASSUME NEW w \in Workers, CallStarts(w)  PROVE BlogTyped'
  <2>1. Started(w)
    BY <1>1, StartFacts
  <2>2. \A v \in Workers : /\ CallTyped(h'[v])
                           /\ h'[v].op = "ingest" /\ h'[v].step # "append" => h'[v].on \in logged'
    <3>1. OnlyOf(w) /\ logged \subseteq logged' /\ CallTyped(h'[w])
          /\ (h'[w].op = "ingest" /\ h'[w].step # "append" => h'[w].on \in logged')
      BY <2>1 DEF Started, phones
    <3>. QED  BY <3>1, CallsTyped
  <2>. QED  BY <2>1, <2>2 DEF Started, OnlyOf, BlogTyped, BlogTypeOK, tables, phones
<1>2. ASSUME NEW w \in Workers, CallSteps(w) \/ CallDies(w)  PROVE BlogTyped'
  <2>1. Progress(w) /\ TablesOK' /\ PhonesOK'
    BY <1>2, ProgressFacts, TablesTyped, PhonesTyped
  <2>2. \A v \in Workers : /\ CallTyped(h'[v])
                           /\ h'[v].op = "ingest" /\ h'[v].step # "append" => h'[v].on \in logged'
    <3>1. /\ OnlyOf(w) /\ logged \subseteq logged' /\ (CallEnds(w) \/ CallTyped(h'[w]))
          /\ (h'[w].op = "ingest" /\ h'[w].step # "append" => h'[w].on \in logged')
      BY <2>1 DEF Progress, GoesOn
    <3>. QED  BY <3>1, CallsTyped
  <2>. QED
    BY <2>1, <2>2, TopicFacts
    DEF Progress, GoesOn, OnlyOf, BlogTyped, BlogTypeOK, TablesOK, PhonesOK
<1>3. ASSUME NEW u \in Reporters, ResolveReport(u)  PROVE BlogTyped'
  <2>1. requests' \in 0..MaxRequests
    BY <1>3, SizesAssumption DEF ResolveReport, BlogTyped, BlogTypeOK
  <2>2. reports' \in [Reporters -> [pending : Nat, closed : Nat]]
    <3>1. PICK p \in Nat, c \in Nat :
             reports' = [reports EXCEPT ![u] = [pending |-> p, closed |-> c]]
      <4>1. reports[u].pending - 1 \in Nat /\ reports[u].closed + 1 \in Nat
        BY <1>3 DEF ResolveReport, BlogTyped, BlogTypeOK
      <4>2. reports' = [reports EXCEPT ![u] = [pending |-> reports[u].pending - 1,
                                               closed |-> reports[u].closed + 1]]
        BY <1>3 DEF ResolveReport, BlogTyped, BlogTypeOK
      <4>. QED  BY <4>1, <4>2
    <3>. QED  BY <3>1 DEF BlogTyped, BlogTypeOK
  <2>. QED
    BY <1>3, <2>1, <2>2 DEF ResolveReport, BlogTyped, BlogTypeOK, phones, blurs
<1>4. ASSUME NEW a \in air, Land(a) \/ Miss(a)  PROVE BlogTyped'
  <2>1. a \in [what : Things, as : BOOLEAN, at : Schools] /\ TopicOf(a.what) \in Topics
    BY TopicFacts DEF BlogTyped, BlogTypeOK
  <2>2. mishaps' \in 0..MaxMishaps /\ UNCHANGED <<platform, requests, tables, h, logged, acked>>
    BY <1>4, SizesAssumption DEF Land, Miss, Stays, BlogTyped, BlogTypeOK
  <2>3. shown' \subseteq Things \X Schools /\ air' \subseteq air
    BY <1>4, <2>1 DEF Land, Miss, Apply, BlogTyped, BlogTypeOK
  <2>4. blurred' \subseteq Topics \X Schools /\ UNCHANGED <<uncounted, unseen>>
    BY <1>4, <2>1 DEF Land, Miss, blurs, BlogTyped, BlogTypeOK
  <2>. QED  BY <2>2, <2>3, <2>4 DEF BlogTyped, BlogTypeOK, tables
<1>5. ASSUME UNCHANGED blogVars  PROVE BlogTyped'
  BY <1>5 DEF blogVars, tables, phones, blurs, BlogTyped, BlogTypeOK
<1>. QED  BY <1>1, <1>2, <1>3, <1>4, <1>5 DEF BlogNext
-----------------------------------------------------------------------------
(* A request writes and will tell so. *)
Held(e) ==
    /\ e \in Comments => comment'[e] = comment[e]
    /\ e \in Rows => (e \in reactions' <=> e \in reactions)
    /\ Visible(e)' <=> Visible(e)

(* A write to one thing, of which its request will tell what is true,      *)
(* keeps phones in touch.                                                  *)
LEMMA TellsNow ==
    ASSUME BlogTyped, ByItself, Reliable, InTune, NEW w \in Workers, OnlyOf(w), SameCall(w),
           h[w].step = "write", h[w].op \in OfComment \union OfPost \union OfLikes,
           Telling(w)', NEW x \in Things, Told(w)' = x, TopicOf(x) = h[w].topic,
           UNCHANGED <<platform, phones>>, blurred \subseteq blurred',
           \A e \in Things : e # x => Held(e),
           h[w].topic # Post => post'.deleted = post.deleted,
           \A s \in Schools : <<h[w].topic, s>> \notin blurred' => (Says(w)' <=> Visible(x)')
    PROVE  ByItself' /\ Reliable' /\ InTune'
<1>1. GoesOn(w)
  BY DEF GoesOn, Telling, Tells
<1>2. ByItself'
  BY <1>1, MattersBefore, ByItselfFrame DEF phones
<1>3. ~Telling(w) /\ h[w].op # "ingest" /\ h[w].topic \in Topics
  BY CallFields DEF Telling, Tells, OfComment, OfPost, OfLikes
<1>4. \A s \in Schools : Matters(w, h[w].topic, s)
  BY <1>3 DEF Matters
<1>5. Reliable'
  <2> SUFFICES ASSUME NEW v \in Workers, NEW s \in Schools,
                      <<h'[v].topic, s>> \notin blurred', Matters(v, h[v].topic, s)'
               PROVE  KeepsTrust(v) \/ Relies(v, s)'
    BY ReliesFrame
  <2>1. CASE v = w
    BY <1>3, <2>1 DEF Relies, AtStep, Telling, Tells, SameCall
  <2>2. CASE v # w
    <3>1. h'[v] = h[v] /\ Matters(v, h[v].topic, s) /\ <<h[v].topic, s>> \notin blurred
      BY <1>1, <2>2, MattersBefore DEF OnlyOf, Matters
    <3>2. h[v].topic # h[w].topic
      BY <1>4, <2>2, <3>1, AloneWith
    <3>3. h[v].op \in {"delete", "moderate", "ingest"} => h[v].on \in Things /\ Held(h[v].on)
      BY <3>2, OnTopic DEF OfComment, OfPost
    <3>4. h[v].op \in {"delete", "moderate"} => h[v].on \in Comments
      BY CallFields DEF CallTyped, OfComment, OfPost
    <3>5. h[v].op = "ingest" => h[v].on \in Comments \union Rows
      BY CallFields, TopicFacts DEF CallTyped, OfComment, OfPost
    <3>6. h[v].op \in OfPost => h[v].topic = Post
      BY CallFields DEF CallTyped, OfComment, OfPost
    <3>7. reactions \subseteq Rows /\ Comments \intersect Rows = {}
      BY TopicFacts DEF BlogTyped, BlogTypeOK
    <3>8. h[v].op \in OfPost => post'.deleted = post.deleted
      BY <3>2, <3>6
    <3>9. h[v].op = "ingest" => Untouched(h[v].on)
      BY <3>3, <3>5, <3>7 DEF Held, Untouched, phones
    <3>. QED  BY <3>1, <3>3, <3>4, <3>8, <3>9 DEF KeepsTrust, Held
  <2>. QED  BY <2>1, <2>2
<1>6. InTune'
  <2> SUFFICES ASSUME NEW e \in Things, NEW s \in Schools, Claimed(e, s)'
               PROVE  (Claimed(e, s) /\ Steady(e, s)) \/ Sound(e, s)'
    BY InTuneFrame
  <2>1. Claimed(e, s)
    BY ClaimedBefore DEF phones
  <2>2. CASE e # x
    <3>1. Held(e) /\ (Promised(e)' <=> Promised(e))
      BY <2>2 DEF Held, Promised, phones
    <3>2. ~TellsOf(w, e) /\ ~TellsOf(w, e)'
      BY <1>3, <2>2 DEF TellsOf
    <3>3. Steady(e, s)
      BY <3>1, <3>2, SteadyBut DEF Held, phones
    <3>. QED  BY <2>1, <3>3
  <2>3. CASE e = x
    <3>1. <<h[w].topic, s>> \notin blurred /\ <<h[w].topic, s>> \notin blurred'
      BY <2>3 DEF Claimed
    <3>2. /\ \A v \in Workers \ {w} : Telling(v) => TopicOf(Told(v)) # h[w].topic
          /\ \A a \in air : a.at = s => TopicOf(a.what) # h[w].topic
      BY <1>3, <1>4, <3>1, NobodyElse
    <3>3. \A v \in Workers : v # w => ~TellsOf(v, e)'
      <4> TAKE v \in Workers
      <4> HAVE v # w
      <4>1. ~TellsOf(v, e)
        BY <2>3, <3>2 DEF TellsOf
      <4>. QED  BY <4>1, TellsSame DEF OnlyOf
    <3>4. Says(w)' <=> Visible(e)'
      BY <2>3, <3>1
    <3>5. TellsOf(w, e)'
      BY <2>3 DEF TellsOf
    <3>6. \A a \in air' : ~(a.what = e /\ a.at = s)
      BY <2>3, <3>2 DEF phones
    <3>7. \A v \in Workers : TellsOf(v, e)' => (Says(v)' <=> Visible(e)')
      BY <3>3, <3>4
    <3>. QED  BY <3>5, <3>6, <3>7 DEF Sound, TellsOf
  <2>. QED  BY <2>2, <2>3
<1>. QED  BY <1>2, <1>5, <1>6

(* A request goes on, and what it tells does not change. *)
LEMMA GoesQuietly ==
    ASSUME BlogTyped, ByItself, Reliable, InTune, NEW w \in Workers, GoesOn(w),
           h[w].op # "ingest", h'[w].step \notin {"write", "append"},
           Telling(w)' <=> Telling(w), Telling(w) => h'[w].arg = h[w].arg,
           UNCHANGED <<platform, comment, reactions, phones>>,
           Visible(Post)' <=> Visible(Post), post'.deleted = post.deleted,
           blurred \subseteq blurred'
    PROVE  ByItself' /\ Reliable' /\ InTune'
<1>2. ByItself'
  BY MattersBefore, ByItselfFrame DEF phones
<1>3. Reliable'
  <2> SUFFICES ASSUME NEW v \in Workers, NEW s \in Schools,
                      <<h'[v].topic, s>> \notin blurred', Matters(v, h[v].topic, s)'
               PROVE  KeepsTrust(v) \/ Relies(v, s)'
    BY ReliesFrame
  <2>1. CASE v = w
    BY <2>1 DEF Relies, AtStep, GoesOn, SameCall, CallEnds
  <2>2. CASE v # w
    BY <2>2 DEF KeepsTrust, Untouched, GoesOn, OnlyOf, phones
  <2>. QED  BY <2>1, <2>2
<1>4. InTune'
  <2> SUFFICES ASSUME NEW e \in Things, NEW s \in Schools, Claimed(e, s)'
               PROVE  (Claimed(e, s) /\ Steady(e, s)) \/ Sound(e, s)'
    BY InTuneFrame
  <2>1. Claimed(e, s)
    BY ClaimedBefore DEF phones
  <2>2. Visible(e)' <=> Visible(e)
    BY VisibleIs DEF Things
  <2>3. Promised(e)' <=> Promised(e)
    BY <2>2 DEF Promised, phones
  <2>4. TellsOf(w, e)' <=> TellsOf(w, e)
    BY DEF TellsOf, Told, GoesOn, SameCall, CallEnds, Telling, Tells
  <2>5. TellsOf(w, e) => (Says(w)' <=> Says(w))
    BY DEF TellsOf, Says, GoesOn, SameCall, CallEnds, Telling, Tells
  <2>6. Steady(e, s)
    BY <2>2, <2>3, <2>4, <2>5, SteadyBut DEF phones, GoesOn
  <2>. QED  BY <2>1, <2>6
<1>. QED  BY <1>2, <1>3, <1>4

(* A write to one thing leaves the others. *)
LEMMA HeldBut ==
    ASSUME NEW x, \A c \in Comments : c # x => comment'[c] = comment[c],
           \A r \in Rows : r # x => (r \in reactions' <=> r \in reactions),
           x = Post \/ (Visible(Post)' <=> Visible(Post))
    PROVE  \A e \in Things : e # x => Held(e)
BY VisibleIs DEF Held, Things

(* The writes to a comment, to the post and to the reactions. *)
InTouch == ByItself /\ Reliable /\ InTune

(* A write to a comment keeps phones in touch: it will be told. *)
LEMMA CommentWrites ==
    ASSUME BlogTyped, InTouch, NEW w \in Workers,
           InsertComment(w) \/ MarkDeleted(w) \/ MarkModerated(w)
    PROVE  InTouch'
<1>1. /\ Then(w, "emit") /\ UNCHANGED <<platform, phones, post, reactions, blurred>>
      /\ h[w].step = "write" /\ h[w].op \in OfComment
  BY DEF InsertComment, MarkDeleted, MarkModerated, AtStep, OfComment, Stays, blurs
<1>. PICK x : x = h[w].on
  OBVIOUS
<1>2. /\ OnlyOf(w) /\ SameCall(w) /\ h'[w].arg = h[w].arg /\ h'[w].step = "emit"
  BY <1>1, ThenFacts
<1>3. /\ x \in Comments /\ h[w].topic = x /\ h[w].seen = {} /\ x \in Things
      /\ IF h[w].op = "moderate" THEN h[w].arg \in {"show", "hide"} ELSE h[w].arg = Nothing
  BY <1>1, CallFields DEF CallTyped, OfComment, OfPost, Things
<1>4. TopicOf(x) = x /\ x # Post
  BY <1>3, TopicFacts
<1>5. Told(w)' = x /\ Telling(w)'
  BY <1>1, <1>2, <1>3 DEF Told, SameCall, Telling, Tells, OfComment
<1>6. comment \in [Comments -> {"none", "visible", "hidden", "deleted"}]
  BY DEF BlogTyped, BlogTypeOK
<1>7. \A e \in Things : e # x => Held(e)
  <2>1. \A c \in Comments : c # x => comment'[c] = comment[c]
    BY <1>6 DEF InsertComment, MarkDeleted, MarkModerated
  <2>2. Visible(Post)' <=> Visible(Post)
    BY <1>1, VisibleIs
  <2>. QED  BY <1>1, <2>1, <2>2, HeldBut
<1>8. ASSUME NEW s \in Schools, <<x, s>> \notin blurred'  PROVE Says(w)' <=> Visible(x)'
  <2>1. Visible(x)' <=> comment'[x] = "visible"
    BY <1>3, VisibleIs
  <2>2. Says(w)' <=> h[w].op \in {"create", "restore", "toggle", "ingest"} \/ h[w].arg = "show"
    BY <1>2, <1>3 DEF Says, SameCall
  <2>3. CASE InsertComment(w)
    BY <1>3, <1>6, <2>1, <2>2, <2>3 DEF InsertComment, AtStep
  <2>4. CASE MarkDeleted(w)
    <3>1. h[w].op = "delete" /\ h[w].arg # "show"
      BY <1>3, <2>4, TopicsAssumption DEF MarkDeleted, AtStep
    <3>. QED  BY <1>3, <1>6, <2>1, <2>2, <2>4, <3>1 DEF MarkDeleted
  <2>5. CASE MarkModerated(w)
    <3>1. h[w].op = "moderate" /\ h[w].arg \in {"show", "hide"}
      BY <1>3, <2>5 DEF MarkModerated, AtStep
    <3>2. Matters(w, h[w].topic, s) /\ <<h[w].topic, s>> \notin blurred
      BY <1>1, <1>3, <1>8, <3>1 DEF Matters
    <3>3. Live(x)
      BY <1>1, <3>1, <3>2 DEF InTouch, Reliable, Relies, AtStep
    <3>4. comment'[x] = IF h[w].arg = "hide" THEN "hidden" ELSE "visible"
      BY <1>3, <1>6, <2>5, <3>3 DEF MarkModerated, Live
    <3>. QED  BY <2>1, <2>2, <3>1, <3>4
  <2>. QED  BY <2>3, <2>4, <2>5
<1>9. ByItself' /\ Reliable' /\ InTune'
  BY <1>1, <1>2, <1>3, <1>4, <1>5, <1>7, <1>8, TellsNow DEF InTouch
<1>. QED  BY <1>9 DEF InTouch

(* So does a write to the post. *)
LEMMA PostWrites ==
    ASSUME BlogTyped, InTouch, NEW w \in Workers,
           WriteEdit(w) \/ WriteTakedown(w) \/ WriteRestore(w) \/ WriteDelete(w)
    PROVE  InTouch'
<1>1. /\ UNCHANGED <<platform, phones, comment, reactions>> /\ blurred \subseteq blurred'
      /\ h[w].step = "write" /\ h[w].op \in OfPost
  BY DEF WriteEdit, WriteTakedown, WriteRestore, WriteDelete, AtStep, OfPost, Stays, blurs
<1>2. /\ h[w].on = Post /\ h[w].topic = Post /\ h[w].seen = {}
      /\ IF h[w].op = "edit" THEN h[w].arg \in {"show", "hide", "keep"} ELSE h[w].arg = Nothing
  BY <1>1, CallFields DEF CallTyped, OfComment, OfPost
<1>3. TopicOf(Post) = Post /\ Post \in Things
  BY TopicFacts DEF Things
<1>4. post \in [deleted : BOOLEAN, down : BOOLEAN, published : BOOLEAN, flagged : BOOLEAN]
  BY DEF BlogTyped, BlogTypeOK
<1>5. \A s \in Schools : <<Post, s>> \notin blurred' /\ h[w].op \in {"edit", "restore"} =>
         ~post.deleted
  <2>1. \A s \in Schools : Matters(w, Post, s)
    BY <1>1, <1>2, TopicFacts DEF Matters, OfPost
  <2>. QED  BY <1>1, <1>2, <2>1 DEF InTouch, Reliable, Relies, AtStep
<1>6. \A e \in Things : e # Post => Held(e)
  BY <1>1, HeldBut
<1>7. ASSUME OnlyOf(w), SameCall(w), h'[w].step \in {"close", "emit"},
             \A s \in Schools : <<Post, s>> \notin blurred' => (Says(w)' <=> Visible(Post)')
      PROVE  InTouch'
  <2>1. Told(w)' = Post /\ Telling(w)'
    BY <1>1, <1>2, <1>7 DEF Told, SameCall, Telling, Tells, OfPost
  <2>2. ByItself' /\ Reliable' /\ InTune'
    BY <1>1, <1>2, <1>3, <1>6, <1>7, <2>1, TellsNow DEF InTouch
  <2>. QED  BY <2>2 DEF InTouch
<1>8. Visible(Post)' <=> post'.published /\ ~post'.down /\ ~post'.deleted
  BY VisibleIs
<1>9. CASE WriteEdit(w)
  <2>. PICK arg : arg = IF h[w].arg # "keep" THEN h[w].arg
                        ELSE IF post.published THEN "show" ELSE "hide"
    OBVIOUS
  <2>1. /\ arg \in {"show", "hide"} /\ h[w].op = "edit"
        /\ h' = [h EXCEPT ![w].step = "emit", ![w].arg = arg]
        /\ post' = [post EXCEPT !.published = (arg = "show")]
        /\ blurred' = IF post.down /\ arg = "show" THEN blurred \union {Post} \X Schools
                      ELSE blurred
    BY <1>2, <1>9 DEF WriteEdit, AtStep
  <2>2. OnlyOf(w) /\ SameCall(w) /\ h'[w].arg = arg /\ h'[w].step = "emit"
    BY <2>1, ArgFacts
  <2>3. Says(w)' <=> arg = "show"
    BY <1>2, <2>1, <2>2 DEF Says, SameCall
  <2>4. post'.published = (arg = "show") /\ UNCHANGED <<post.down, post.deleted>>
    BY <1>4, <2>1
  <2>5. ASSUME NEW s \in Schools, <<Post, s>> \notin blurred'  PROVE Says(w)' <=> Visible(Post)'
    <3>1. ~post.deleted
      BY <1>5, <2>1, <2>5
    <3>2. ~(post.down /\ arg = "show")
      BY <2>1, <2>5
    <3>. QED  BY <1>8, <2>3, <2>4, <3>1, <3>2
  <2>. QED  BY <1>7, <2>2, <2>5
<1>10. CASE WriteTakedown(w) \/ WriteDelete(w)
  <2>1. Then(w, "emit") /\ h[w].op \in {"down", "remove"} /\ h[w].arg # "show"
    BY <1>2, <1>10, TopicsAssumption DEF WriteTakedown, WriteDelete, AtStep
  <2>2. OnlyOf(w) /\ SameCall(w) /\ h'[w].arg = h[w].arg /\ h'[w].step = "emit"
    BY <2>1, ThenFacts
  <2>3. ~Says(w)'
    BY <2>1, <2>2 DEF Says, SameCall
  <2>4. ~Visible(Post)'
    BY <1>4, <1>8, <1>10 DEF WriteTakedown, WriteDelete
  <2>. QED  BY <1>7, <2>2, <2>3, <2>4
<1>11. CASE WriteRestore(w)
  <2>1. Then(w, "close") /\ h[w].op = "restore"
    BY <1>11 DEF WriteRestore, AtStep
  <2>2. OnlyOf(w) /\ SameCall(w) /\ h'[w].step = "close"
    BY <2>1, ThenFacts
  <2>3. Says(w)'
    BY <1>2, <2>1, <2>2 DEF Says, SameCall
  <2>4. post'.published /\ ~post'.down /\ (post'.deleted <=> post.deleted)
    BY <1>4, <1>11 DEF WriteRestore
  <2>. QED  BY <1>5, <1>7, <1>8, <2>1, <2>2, <2>3, <2>4
<1>. QED  BY <1>9, <1>10, <1>11

(* So does a write to the reactions. *)
LEMMA ReactionWrites ==
    ASSUME BlogTyped, InTouch, NEW w \in Workers, WriteReaction(w) \/ DropReaction(w)
    PROVE  InTouch'
<1>1. /\ UNCHANGED <<platform, phones, comment, post, blurred>>
      /\ h[w].step = "write" /\ h[w].op \in OfLikes
  BY DEF WriteReaction, DropReaction, AtStep, OfLikes, Stays, blurs
<1>2. /\ h[w].topic = Likes /\ h[w].arg = Nothing /\ (h[w].op = "toggle" => h[w].on \in Rows)
      /\ h[w].seen = {} \/ \E r \in Rows : h[w].seen = {r}
  BY <1>1, CallFields DEF CallTyped, OfComment, OfPost, OfLikes
<1>3. ASSUME Then(w, "count"), NEW x \in Rows, Thing(h[w]) = x,
             h[w].seen # {} \/ h[w].op = "toggle",
             reactions' = IF h[w].seen = {} THEN reactions \union {x} ELSE reactions \ {x}
      PROVE  InTouch'
  <2>1. OnlyOf(w) /\ SameCall(w) /\ h'[w].arg = h[w].arg /\ h'[w].step = "count"
    BY <1>3, ThenFacts
  <2>2. Told(w)' = x
    BY <1>3, <2>1 DEF Told, Thing, SameCall
  <2>3. Telling(w)'
    BY <1>1, <1>3, <2>1 DEF SameCall, Telling, Tells, OfLikes
  <2>4. TopicOf(x) = Likes /\ x # Post /\ x \in Things /\ x \notin Comments
    BY TopicFacts DEF Things
  <2>5. \A e \in Things : e # x => Held(e)
    <3>1. Visible(Post)' <=> Visible(Post)
      BY <1>1, VisibleIs
    <3>. QED  BY <1>1, <1>3, <3>1, HeldBut
  <2>6. Says(w)' <=> h[w].seen = {}
    BY <1>1, <1>2, <1>3, <2>1, TopicsAssumption DEF Says, SameCall
  <2>7. Visible(x)' <=> h[w].seen = {}
    BY <1>3, VisibleIs
  <2>8. ByItself' /\ Reliable' /\ InTune'
    BY <1>1, <1>2, <2>1, <2>2, <2>3, <2>4, <2>5, <2>6, <2>7, TellsNow DEF InTouch
  <2>. QED  BY <2>8 DEF InTouch
<1>4. CASE h[w].seen # {}
  <2>1. PICK r \in Rows : h[w].seen = {r}
    BY <1>2, <1>4
  <2>2. Thing(h[w]) = r /\ Then(w, "count") /\ reactions' = reactions \ {r}
    BY <1>4, <2>1 DEF Thing, WriteReaction, DropReaction
  <2>. QED  BY <1>3, <1>4, <2>2
<1>5. CASE h[w].seen = {} /\ WriteReaction(w) /\ Then(w, "count")
  <2>1. reactions' = reactions \union {h[w].on} \/ h'[w].step # "count"
    BY <1>5, DoneFacts DEF WriteReaction, CallEnds
  <2>2. h'[w].step = "count"
    BY <1>5, ThenFacts
  <2>3. h[w].op = "toggle" /\ h[w].on \in Rows
    BY <1>2, <1>5 DEF WriteReaction, AtStep
  <2>. QED  BY <1>3, <1>5, <2>1, <2>2, <2>3 DEF Thing
<1>6. CASE h[w].seen = {} /\ ((WriteReaction(w) /\ Done(w)) \/ DropReaction(w))
  <2>1. /\ reactions' = reactions \/ h'[w].step # "idle"
        /\ Done(w) \/ Then(w, "count")
    BY <1>6, ThenFacts DEF WriteReaction, DropReaction
  <2>2. reactions' = reactions
    <3>1. CASE DropReaction(w)
      BY <1>6, <3>1 DEF DropReaction
    <3>2. CASE Done(w)
      BY <2>1, <3>2, DoneFacts DEF CallEnds
    <3>. QED  BY <1>6, <3>1, <3>2
  <2>3. GoesOn(w) /\ h'[w].step \in {"idle", "count"}
    BY <1>1, <2>1, DoneFacts, ThenFacts DEF GoesOn, CallEnds
  <2>4. ~Telling(w) /\ ~Telling(w)'
    <3>1. CASE DropReaction(w)
      <4>1. h[w].op = "unreact" /\ Then(w, "count")
        BY <3>1 DEF DropReaction, AtStep
      <4>2. h'[w].op = "unreact" /\ h'[w].seen = {}
        BY <1>6, <4>1, ThenFacts DEF SameCall
      <4>. QED  BY <1>1, <4>2 DEF Telling, Tells
    <3>2. CASE Done(w)
      BY <1>1, <3>2, DoneFacts DEF CallEnds, Telling, Tells
    <3>. QED  BY <1>6, <3>1, <3>2
  <2>5. Visible(Post)' <=> Visible(Post)
    BY <1>1, VisibleIs
  <2>6. ByItself' /\ Reliable' /\ InTune'
    BY <1>1, <2>2, <2>3, <2>4, <2>5, GoesQuietly DEF InTouch, OfLikes
  <2>. QED  BY <2>6 DEF InTouch
<1>. QED  BY <1>4, <1>5, <1>6 DEF WriteReaction

(* The steps that show nothing to anybody. *)
LEMMA QuietSteps ==
    ASSUME BlogTyped, InTouch, NEW w \in Workers,
           InsertReport(w) \/ CountReports(w) \/ StoreFlag(w) \/ CountLikes(w) \/ StoreLikes(w)
           \/ CloseReports(w) \/ CloseFails(w) \/ CountReportsFails(w) \/ CountLikesFails(w)
           \/ StoreZero(w) \/ StoreLikesFails(w)
    PROVE  InTouch'
<1>1. /\ UNCHANGED <<platform, phones, comment, reactions, blurred>>
      /\ Visible(Post)' <=> Visible(Post)
      /\ post'.deleted = post.deleted
  <2>1. post \in [deleted : BOOLEAN, down : BOOLEAN, published : BOOLEAN, flagged : BOOLEAN]
    BY DEF BlogTyped, BlogTypeOK
  <2>2. post' = post \/ \E x : post' = [post EXCEPT !.flagged = x]
    BY DEF InsertReport, CountReports, StoreFlag, CountLikes, StoreLikes, CloseReports, CloseFails,
           CountReportsFails, CountLikesFails, StoreZero, StoreLikesFails, tables
  <2>3. UNCHANGED <<post.deleted, post.down, post.published>>
    BY <2>1, <2>2
  <2>. QED
    BY <2>3, VisibleIs
    DEF InsertReport, CountReports, StoreFlag, CountLikes, StoreLikes, CloseReports, CloseFails,
        CountReportsFails, CountLikesFails, StoreZero, StoreLikesFails, Stays, blurs, tables
<1>2. /\ h[w].op \in OfLikes \union {"report", "restore"}
      /\ h[w].step \in {"count", "store", "zero", "close"} \/ h[w].op = "report"
      /\ h[w].step # "idle"
  BY CallFields, TopicFacts
  DEF CallTyped, InsertReport, CountReports, StoreFlag, CountLikes, StoreLikes, CloseReports,
      CloseFails, CountReportsFails, CountLikesFails, StoreZero, StoreLikesFails,
      AtStep, OfComment, OfPost, OfLikes
<1>. DEFINE Storing == StoreLikes(w) \/ StoreZero(w) \/ StoreLikesFails(w)
<1>3. CASE StoreFlag(w) \/ (Storing /\ h[w].op = "unreact" /\ h[w].seen = {})
  <2>1. GoesOn(w) /\ CallEnds(w)
    BY <1>2, <1>3, DoneTyped DEF StoreFlag, StoreLikes, StoreZero, StoreLikesFails, Counted
  <2>2. ~Telling(w)
    BY <1>3 DEF StoreFlag, AtStep, Telling, Tells
  <2>3. ~Telling(w)' /\ h[w].op # "ingest" /\ h'[w].step \notin {"write", "append"}
    BY <1>2, <2>1 DEF CallEnds, Telling, Tells, OfLikes
  <2>4. ByItself' /\ Reliable' /\ InTune'
    BY <1>1, <2>1, <2>2, <2>3, GoesQuietly DEF InTouch
  <2>. QED  BY <2>4 DEF InTouch
<1>4. CASE ~(StoreFlag(w) \/ (Storing /\ h[w].op = "unreact" /\ h[w].seen = {}))
  <2>1. OnlyOf(w) /\ SameCall(w) /\ h'[w].arg = h[w].arg
        /\ h'[w].step \in {"count", "store", "zero", "emit"}
    <3>1. CASE CountReports(w) \/ CountLikes(w) \/ CountReportsFails(w)
      <4>1. PICK n : h' = [h EXCEPT ![w].step = "store", ![w].num = n] /\ n \in Nat
        <5>1. CASE CountReports(w)
          BY <5>1, PendingFinite, FS_CardinalityType DEF CountReports, BlogTyped, BlogTypeOK
        <5>2. CASE CountLikes(w)
          BY <5>2, RowsFinite, FS_Subset, FS_CardinalityType
          DEF CountLikes, BlogTyped, BlogTypeOK
        <5>3. CASE CountReportsFails(w)
          <6>1. h' = [h EXCEPT ![w].step = "store", ![w].num = 1]
            BY <5>3 DEF CountReportsFails
          <6>2. 1 \in Nat
            OBVIOUS
          <6>. QED  BY <6>1, <6>2, Zenon
        <5>. QED  BY <3>1, <5>1, <5>2, <5>3
      <4>. QED  BY <4>1, NumFacts
    <3>2. CASE InsertReport(w) \/ Storing \/ CloseReports(w) \/ CloseFails(w) \/ CountLikesFails(w)
      <4>1. \E to \in {"count", "zero", "emit"} : Then(w, to)
        BY <1>4, <3>2
        DEF InsertReport, StoreLikes, StoreZero, StoreLikesFails, Counted, CloseReports, CloseFails,
            CountLikesFails
      <4>. QED  BY <4>1, ThenFacts
    <3>. QED  BY <1>4, <3>1, <3>2
  <2>2. Telling(w)' <=> Telling(w)
    BY <1>2, <2>1 DEF Telling, Tells, SameCall
  <2>3. GoesOn(w) /\ h[w].op # "ingest"
    BY <1>2, <2>1 DEF GoesOn, OfLikes
  <2>4. ByItself' /\ Reliable' /\ InTune'
    BY <1>1, <2>1, <2>2, <2>3, GoesQuietly DEF InTouch
  <2>. QED  BY <2>4 DEF InTouch
<1>. QED  BY <1>3, <1>4

-----------------------------------------------------------------------------
(* A request begins. *)
LEMMA StartsInTouch ==
    ASSUME BlogTyped, InTouch, NEW w \in Workers, Started(w), StartsOn(w)
    PROVE  InTouch'
<1>1. /\ OnlyOf(w) /\ h[w].step = "idle" /\ h'[w].step \in {"write", "append"}
      /\ UNCHANGED <<platform, tables, phones>> /\ blurred \subseteq blurred'
      /\ Crossing(h'[w].topic, h'[w].op) \subseteq blurred'
  BY DEF Started
<1>2. ByItself'
  <2> SUFFICES ASSUME NEW t \in Topics, NEW s \in Schools, <<t, s>> \notin blurred',
                      NEW u \in Workers, Matters(u, t, s)'
               PROVE  /\ \A v \in Workers : Matters(v, t, s)' => v = u
                      /\ \A a \in air : a.at = s => TopicOf(a.what) # t
    BY <1>1 DEF ByItself, phones
  <2>1. \A v \in Workers \ {w} : Matters(v, t, s)' => Matters(v, t, s)
    BY <1>1 DEF OnlyOf, Matters
  <2>2. ASSUME Matters(w, t, s)'
        PROVE  /\ \A v \in Workers \ {w} : ~Matters(v, t, s)
               /\ \A a \in air : a.at = s => TopicOf(a.what) # t
    <3>1. <<t, s>> \notin Crossing(t, h'[w].op)
      BY <1>1, <2>2 DEF Matters
    <3>2. ~\E v \in Busy(t) : s = Home => t \notin Comments \/ "ingest" \notin {h'[w].op, h[v].op}
      BY <3>1 DEF Crossing
    <3>3. \A a \in air : a.at = s => TopicOf(a.what) # t
      BY <3>1 DEF Crossing
    <3>4. \A v \in Workers \ {w} : ~Matters(v, t, s)
      BY <2>2, <3>2 DEF Matters, Busy
    <3>. QED  BY <3>3, <3>4
  <2>. QED  BY <1>1, <2>1, <2>2 DEF InTouch, ByItself
<1>3. Reliable'
  <2> SUFFICES ASSUME NEW v \in Workers, NEW s \in Schools,
                      <<h'[v].topic, s>> \notin blurred', Matters(v, h[v].topic, s)'
               PROVE  KeepsTrust(v) \/ Relies(v, s)'
    BY <1>1, ReliesFrame DEF InTouch
  <2>1. CASE v # w
    BY <1>1, <2>1 DEF KeepsTrust, Untouched, OnlyOf, phones, tables
  <2>2. CASE v = w
    <3>. PICK e : e = h'[w].on
      OBVIOUS
    <3>1. h'[w].op = "ingest" => e \notin logged
      <4>1. SUFFICES ASSUME h'[w].op = "ingest", e \in logged  PROVE FALSE
        OBVIOUS
      <4>2. h'[w].topic = TopicOf(e) /\ e \in Offline
        BY <4>1 DEF Started, CallTyped, OfComment, OfPost
      <4>3. e \in Comments => h'[w].topic = e /\ s # Home
        BY <2>2, <4>1, <4>2, TopicFacts DEF Matters
      <4>4. {TopicOf(e)} \X (IF e \in Comments THEN Elsewhere ELSE Schools) \subseteq blurred'
        BY <4>1 DEF StartsOn
      <4>5. s \in IF e \in Comments THEN Elsewhere ELSE Schools
        BY <4>3 DEF Schools
      <4>. QED  BY <2>2, <4>2, <4>4, <4>5
    <3>2. h'[w].step = IF h'[w].op = "ingest" THEN "append" ELSE "write"
      BY DEF Started
    <3>3. h'[w].op \in {"edit", "restore"} => ~post'.deleted
      BY <1>1 DEF StartsOn, OfPost, tables
    <3>4. h'[w].op \in {"delete", "moderate"} => Live(e)'
      BY <1>1 DEF StartsOn, tables, Live
    <3>. QED  BY <1>1, <2>2, <3>1, <3>2, <3>3, <3>4 DEF Relies, AtStep, phones
  <2>. QED  BY <2>1, <2>2
<1>4. InTune'
  <2> SUFFICES ASSUME NEW e \in Things, NEW s \in Schools, Claimed(e, s)'
               PROVE  (Claimed(e, s) /\ Steady(e, s)) \/ Sound(e, s)'
    BY InTuneFrame DEF InTouch
  <2>1. Claimed(e, s)
    BY <1>1, ClaimedBefore DEF phones
  <2>2. (Visible(e)' <=> Visible(e)) /\ (Promised(e)' <=> Promised(e))
    BY <1>1 DEF Visible, Promised, tables, phones
  <2>3. ~TellsOf(w, e) /\ ~TellsOf(w, e)'
    BY <1>1 DEF TellsOf, Telling, Tells
  <2>4. Steady(e, s)
    BY <1>1, <2>2, <2>3, SteadyBut DEF phones
  <2>. QED  BY <2>1, <2>4
<1>. QED  BY <1>2, <1>3, <1>4 DEF InTouch

(* A step of a request that tells nothing, before or after: of the things  *)
(* that it leaves alone everything stays as it is.                         *)
LEMMA SilentStep ==
    ASSUME NEW w \in Workers, OnlyOf(w), NEW e \in Things, NEW s, ~Telling(w), ~Telling(w)',
           UNCHANGED air, Visible(e)' <=> Visible(e), e \in Comments => comment'[e] = comment[e],
           e \in logged' <=> e \in logged, <<e, s>> \in shown' <=> <<e, s>> \in shown
    PROVE  Steady(e, s)
<1>1. Promised(e)' <=> Promised(e)
  BY DEF Promised
<1>. QED  BY <1>1, SteadyBut DEF TellsOf

(* The entry of a phone is appended. *)
LEMMA AppendInTouch ==
    ASSUME BlogTyped, InTouch, CommentKnown, NEW w \in Workers, AppendEntry(w)
    PROVE  InTouch'
<1>. PICK x : x = h[w].on
  OBVIOUS
<1>1. /\ h[w].op = "ingest" /\ h[w].step = "append" /\ Then(w, "write")
      /\ logged' = logged \union {x} /\ shown' = AfterEntry(x)
      /\ UNCHANGED <<platform, tables, air, acked, blurred>>
  BY DEF AppendEntry, AtStep, Stays, blurs
<1>2. /\ OnlyOf(w) /\ SameCall(w) /\ h'[w].step = "write" /\ GoesOn(w)
  BY <1>1, ThenFacts DEF GoesOn
<1>3. x \in Offline /\ x \in Things /\ x \in Comments \union Rows /\ TopicOf(x) = h[w].topic
  BY <1>1, CallFields, TopicFacts DEF CallTyped, OfComment, OfPost
<1>4. acked \subseteq logged
  BY DEF BlogTyped, BlogTypeOK
<1>5. x \in Comments \ logged => comment[x] = "none"
  BY <1>1 DEF CommentKnown, AtStep
<1>6. ByItself'
  BY <1>1, <1>2, MattersBefore, ByItselfFrame DEF InTouch
<1>7. Reliable'
  <2> SUFFICES ASSUME NEW v \in Workers, NEW s \in Schools,
                      <<h'[v].topic, s>> \notin blurred', Matters(v, h[v].topic, s)'
               PROVE  KeepsTrust(v) \/ Relies(v, s)'
    BY <1>1, ReliesFrame DEF InTouch
  <2>1. CASE v = w
    <3>1. <<h[w].topic, s>> \notin blurred /\ Matters(w, h[w].topic, s)
      BY <1>1, <1>2, <2>1 DEF SameCall, Matters
    <3>2. x \notin logged
      BY <1>1, <3>1 DEF InTouch, Reliable, Relies, AtStep
    <3>3. x \notin acked /\ (x \in Comments => comment[x] = "none") /\ <<x, Home>> \in shown'
      BY <1>1, <1>4, <1>5, <3>2 DEF AfterEntry
    <3>. QED  BY <1>1, <1>2, <2>1, <3>3 DEF Relies, AtStep, SameCall, tables
  <2>2. CASE v # w
    <3>1. h'[v] = h[v] /\ Matters(v, h[v].topic, s) /\ <<h[v].topic, s>> \notin blurred
      BY <1>1, <1>2, <2>2 DEF OnlyOf, Matters
    <3>2. ASSUME h[v].op = "ingest"  PROVE Untouched(h[v].on)
      <4>1. TopicOf(h[v].on) = h[v].topic
        BY <3>2, OnTopic
      <4>2. h[v].on # x
        <5>1. SUFFICES ASSUME h[v].on = x  PROVE FALSE
          OBVIOUS
        <5>2. h[v].topic = h[w].topic /\ Matters(w, h[w].topic, s)
          BY <1>1, <1>3, <3>1, <3>2, <4>1, <5>1 DEF Matters
        <5>. QED  BY <2>2, <3>1, <5>2, AloneWith DEF InTouch
      <4>. QED  BY <1>1, <4>2 DEF Untouched, tables, AfterEntry
    <3>. QED  BY <1>1, <3>1, <3>2 DEF KeepsTrust, tables
  <2>. QED  BY <2>1, <2>2
<1>8. InTune'
  <2> SUFFICES ASSUME NEW e \in Things, NEW s \in Schools, Claimed(e, s)'
               PROVE  (Claimed(e, s) /\ Steady(e, s)) \/ Sound(e, s)'
    BY InTuneFrame DEF InTouch
  <2>1. Claimed(e, s)
    BY <1>1, ClaimedBefore
  <2>2. Visible(e)' <=> Visible(e)
    BY <1>1 DEF Visible, tables
  <2>3. ~Telling(w) /\ ~Telling(w)'
    BY <1>1, <1>2 DEF Telling, Tells
  <2>4. CASE e # x \/ x \in logged
    <3>1. (e \in logged' <=> e \in logged) /\ (<<e, s>> \in shown' <=> <<e, s>> \in shown)
      BY <1>1, <2>4 DEF AfterEntry
    <3>. QED  BY <1>1, <1>2, <2>1, <2>2, <2>3, <3>1, SilentStep DEF tables
  <2>5. CASE e = x /\ x \notin logged
    <3>1. x \in Comments /\ s = Home /\ comment[x] = "none"
      BY <1>1, <1>4, <1>5, <2>5 DEF Claimed
    <3>2. <<e, s>> \in shown' /\ Promised(e)'
      BY <1>1, <2>5, <3>1 DEF AfterEntry, Promised, tables
    <3>3. Sound(e, s)
      BY <2>1 DEF InTouch, InTune
    <3>4. \A v \in Workers : TellsOf(v, e)' => (Says(v)' <=> Visible(e)')
      <4> TAKE v \in Workers
      <4> HAVE TellsOf(v, e)'
      <4>1. v # w
        BY <2>3 DEF TellsOf
      <4>2. TellsOf(v, e) /\ (Says(v)' <=> Says(v))
        BY <1>2, <4>1, TellsSame DEF OnlyOf
      <4>. QED  BY <2>2, <3>3, <4>2 DEF Sound, TellsOf
    <3>. QED  BY <1>1, <2>2, <3>2, <3>3, <3>4 DEF Sound, TellsOf
  <2>. QED  BY <2>4, <2>5
<1>. QED  BY <1>6, <1>7, <1>8 DEF InTouch

(* Its row is written, or is not. *)
LEMMA UpsertsInTouch ==
    ASSUME BlogTyped, InTouch, CommentKnown, HasRow, NEW w \in Workers,
           UpsertComment(w) \/ UpsertReaction(w) \/ UpsertFails(w)
    PROVE  InTouch'
<1>. PICK x : x = h[w].on
  OBVIOUS
<1>1. /\ h[w].op = "ingest" /\ h[w].step = "write" /\ Then(w, "emit")
      /\ UNCHANGED <<platform, phones, post>> /\ blurred \subseteq blurred'
  BY DEF UpsertComment, UpsertReaction, UpsertFails, AtStep, Stays, blurs, tables
<1>2. /\ OnlyOf(w) /\ SameCall(w) /\ h'[w].step = "emit" /\ GoesOn(w)
  BY <1>1, ThenFacts DEF GoesOn
<1>3. x \in Offline /\ x \in Things /\ x \in Comments \union Rows /\ TopicOf(x) = h[w].topic
  BY <1>1, CallFields, TopicFacts DEF CallTyped, OfComment, OfPost
<1>4. x \in logged /\ comment \in [Comments -> {"none", "visible", "hidden", "deleted"}]
  BY <1>1 DEF BlogTyped, BlogTypeOK
<1>5. \A c \in Comments : c # x \/ comment[x] # "none" => comment'[c] = comment[c]
  BY <1>4 DEF UpsertComment, UpsertReaction, UpsertFails, tables
<1>6. \A r \in Rows : r # x => (r \in reactions' <=> r \in reactions)
  BY DEF UpsertComment, UpsertReaction, UpsertFails, tables
<1>7. \A e \in Things : e # x => Held(e)
  <2>1. Visible(Post)' <=> Visible(Post)
    BY <1>1, VisibleIs
  <2>. QED  BY <1>5, <1>6, <2>1, HeldBut
<1>8. ByItself'
  BY <1>1, <1>2, MattersBefore, ByItselfFrame DEF InTouch, phones
<1>9. \A s \in Schools : <<h[w].topic, s>> \notin blurred' /\ Matters(w, h[w].topic, s) =>
         /\ x \notin acked /\ (x \in Comments => comment[x] = "none")
         /\ (s = Home => <<x, Home>> \in shown) /\ Visible(x)'
  <2> TAKE s \in Schools
  <2> HAVE <<h[w].topic, s>> \notin blurred' /\ Matters(w, h[w].topic, s)
  <2>1. /\ x \notin acked /\ (x \in Comments => comment[x] = "none")
        /\ (s = Home => <<x, Home>> \in shown)
    BY <1>1 DEF InTouch, Reliable, Relies, AtStep
  <2>2. CASE UpsertComment(w)
    <3>1. comment'[x] = "visible" /\ x \in Comments
      BY <1>4, <2>1, <2>2 DEF UpsertComment
    <3>. QED  BY <2>1, <3>1, VisibleIs
  <2>3. CASE UpsertReaction(w)
    <3>1. x \in Rows /\ h[w].topic = Likes
      BY <1>3, <2>3, TopicFacts DEF UpsertReaction
    <3>2. ~Clash(x)
      BY <2>3, <3>1 DEF UpsertReaction
    <3>3. x \in reactions'
      BY <2>3, <3>2 DEF UpsertReaction
    <3>. QED  BY <2>1, <3>1, <3>3, VisibleIs
  <2>4. CASE UpsertFails(w)
    BY <2>4 DEF UpsertFails
  <2>. QED  BY <2>2, <2>3, <2>4
<1>10. Reliable'
  <2> SUFFICES ASSUME NEW v \in Workers, NEW s \in Schools,
                      <<h'[v].topic, s>> \notin blurred', Matters(v, h[v].topic, s)'
               PROVE  KeepsTrust(v) \/ Relies(v, s)'
    BY <1>1, ReliesFrame DEF InTouch
  <2>1. CASE v = w
    <3>1. <<h[w].topic, s>> \notin blurred' /\ Matters(w, h[w].topic, s)
      BY <1>1, <1>2, <2>1 DEF SameCall, Matters
    <3>2. (s = Home => <<x, Home>> \in shown) /\ Visible(x)'
      BY <1>9, <3>1
    <3>3. Visible(h[w].on)'
      BY <1>2, <3>2 DEF SameCall
    <3>. QED  BY <1>1, <1>2, <2>1, <3>2, <3>3 DEF Relies, AtStep, SameCall, phones
  <2>2. CASE v # w
    <3>1. h'[v] = h[v] /\ Matters(v, h[v].topic, s) /\ <<h[v].topic, s>> \notin blurred
      BY <1>1, <1>2, <2>2 DEF OnlyOf, Matters
    <3>2. ASSUME h[v].op = "ingest"  PROVE Untouched(h[v].on)
      <4>1. TopicOf(h[v].on) = h[v].topic /\ h[v].on \in Things
        BY <3>2, OnTopic
      <4>2. h[v].on # x
        <5>1. SUFFICES ASSUME h[v].on = x  PROVE FALSE
          OBVIOUS
        <5>2. h[v].topic = h[w].topic /\ Matters(w, h[w].topic, s)
          BY <1>1, <1>3, <3>1, <3>2, <4>1, <5>1 DEF Matters
        <5>. QED  BY <2>2, <3>1, <5>2, AloneWith DEF InTouch
      <4>. QED  BY <1>1, <1>7, <4>1, <4>2 DEF Untouched, Held, phones
    <3>3. ASSUME h[v].op \in {"delete", "moderate"}
          PROVE  comment'[h[v].on] = comment[h[v].on]
      <4>1. h[v].on \in Comments /\ comment[h[v].on] # "none"
        BY <3>3, CallFields DEF CommentKnown, CallTyped, OfComment, OfPost
      <4>. QED  BY <1>5, <4>1
    <3>. QED  BY <1>1, <3>1, <3>2, <3>3 DEF KeepsTrust
  <2>. QED  BY <2>1, <2>2
<1>11. InTune'
  <2> SUFFICES ASSUME NEW e \in Things, NEW s \in Schools, Claimed(e, s)'
               PROVE  (Claimed(e, s) /\ Steady(e, s)) \/ Sound(e, s)'
    BY InTuneFrame DEF InTouch
  <2>1. Claimed(e, s)
    BY <1>1, ClaimedBefore DEF phones
  <2>2. ~Telling(w) /\ ~Telling(w)'
    BY <1>1, <1>2 DEF Telling, Tells, SameCall
  <2>3. CASE e # x
    <3>1. Held(e)
      BY <1>7, <2>3
    <3>. QED  BY <1>1, <1>2, <2>1, <2>2, <3>1, SilentStep DEF Held, phones
  <2>4. CASE e = x /\ (x \in Rows \/ comment[x] # "none" \/ UpsertFails(w))
    <3>1. Held(x)
      <4>1. CASE x \in Rows
        <5>1. x \notin Comments /\ h[w].topic = Likes /\ Likes \notin Comments
          BY <1>3, <4>1, TopicFacts
        <5>2. Matters(w, h[w].topic, s) /\ <<h[w].topic, s>> \notin blurred'
          BY <1>1, <1>3, <2>4, <5>1 DEF Matters, Claimed
        <5>3. x \notin acked
          BY <1>9, <5>2
        <5>. QED  BY <1>4, <2>1, <2>4, <5>1, <5>3 DEF Claimed
      <4>2. CASE x \in Comments /\ comment[x] # "none"
        <5>1. comment'[x] = comment[x]
          BY <1>5, <4>2
        <5>. QED  BY <4>2, <5>1, TopicFacts, VisibleIs DEF Held
      <4>3. CASE UpsertFails(w)
        BY <1>3, <4>3, VisibleIs DEF UpsertFails, Held, tables
      <4>. QED  BY <1>3, <2>4, <4>1, <4>2, <4>3
    <3>. QED  BY <1>1, <1>2, <2>1, <2>2, <2>4, <3>1, SilentStep DEF Held, phones
  <2>5. CASE e = x /\ x \in Comments /\ comment[x] = "none" /\ ~UpsertFails(w)
    <3>1. TopicOf(x) = x /\ <<x, s>> \notin blurred
      BY <2>1, <2>5, TopicFacts DEF Claimed
    <3>2. s = Home
      <4>1. x \notin acked
        BY <2>5, <3>1 DEF HasRow, Written
      <4>. QED  BY <1>4, <2>1, <2>5, <4>1 DEF Claimed
    <3>3. \A v \in Workers : ~TellsOf(v, x)
      <4> SUFFICES ASSUME NEW v \in Workers, TellsOf(v, x)  PROVE FALSE
        OBVIOUS
      <4>1. h[v].topic = x /\ CallTyped(h[v]) /\ Tells(h[v])
        BY <3>1, ToldTopic, CallFields DEF TellsOf, Telling
      <4>2. h[v].op \in OfComment /\ h[v].on = x /\ h[v].step = "emit"
        BY <2>5, <4>1, TopicFacts DEF CallTyped, Tells, OfComment, OfPost, OfLikes
      <4>. QED  BY <2>5, <4>2 DEF CommentKnown, AtStep, OfComment
    <3>4. \A a \in air : ~(a.what = x /\ a.at = s)
      BY <2>5, <3>2 DEF HasRow
    <3>5. Sound(e, s)
      BY <2>1 DEF InTouch, InTune
    <3>6. <<x, s>> \in shown
      BY <1>4, <2>5, <3>3, <3>4, <3>5 DEF Sound, TellsOf, Promised
    <3>7. UpsertComment(w)
      BY <2>5, TopicFacts DEF UpsertReaction
    <3>8. comment'[x] = "visible"
      BY <1>4, <2>5, <3>7 DEF UpsertComment
    <3>9. Promised(x)'
      BY <2>5, <3>8, VisibleIs DEF Promised
    <3>10. \A v \in Workers : ~TellsOf(v, x)'
      BY <1>2, <2>2, <3>3, TellsSame DEF OnlyOf, TellsOf
    <3>11. (<<x, s>> \in shown)' /\ \A a \in air' : ~(a.what = x /\ a.at = s)
      BY <1>1, <3>4, <3>6 DEF phones
    <3>. QED  BY <2>5, <3>9, <3>10, <3>11 DEF Sound, TellsOf
  <2>. QED  BY <1>3, <2>3, <2>4, <2>5
<1>. QED  BY <1>8, <1>10, <1>11 DEF InTouch

(* The event is appended, or its broadcast set off. *)
LEMMA EmitInTouch ==
    ASSUME BlogTyped, InTouch, CommentKnown, NEW w \in Workers, EmitSyncEvent(w)
    PROVE  InTouch'
<1>1. /\ h[w].step = "emit" /\ h[w].op # "ingest" /\ Done(w)
      /\ UNCHANGED <<platform, tables, logged, acked, blurred>>
      /\ IF platform THEN Broadcast(w, Schools) /\ UNCHANGED shown
         ELSE Apply(Told(w), Says(w), Home) /\ UNCHANGED air
  BY DEF EmitSyncEvent, Stays, blurs
<1>2. OnlyOf(w) /\ CallEnds(w) /\ GoesOn(w)
  BY <1>1, DoneTyped, DoneFacts
<1>. PICK x \in Things, as \in BOOLEAN : x = Told(w) /\ as = Says(w)
  BY EmitsThing
<1>3. Telling(w)
  BY <1>1, CallFields DEF Telling, Tells, CallTyped, OfComment, OfPost
<1>4. /\ TopicOf(x) = h[w].topic /\ h[w].topic \in Topics
      /\ \A s \in Schools : Matters(w, h[w].topic, s)
  BY <1>3, ToldTopic
<1>5. ~Telling(w)'
  BY <1>2 DEF Telling, Tells, CallEnds
<1>6. (Visible(x)' <=> Visible(x)) /\ (Promised(x) <=> Visible(x))
  <2>1. x \in Comments => comment[x] # "none"
    <3>1. SUFFICES ASSUME x \in Comments  PROVE comment[x] # "none"
      OBVIOUS
    <3>2. CallTyped(h[w]) /\ h[w].topic = x
      BY <1>4, <3>1, CallFields, TopicFacts
    <3>3. h[w].op \in OfComment /\ h[w].on = x
      BY <1>1, <1>3, <3>1, <3>2, TopicFacts
      DEF CallTyped, Telling, Tells, OfComment, OfPost, OfLikes
    <3>. QED  BY <1>1, <3>3 DEF CommentKnown, AtStep, OfComment
  <2>. QED  BY <1>1, <2>1 DEF Visible, Promised, tables
<1>7. \A a \in air' : a \in air \/ (a.what = x /\ (a.as <=> as) /\ platform)
  BY <1>1 DEF Broadcast
<1>8. air \subseteq air'
  BY <1>1 DEF Broadcast
<1>9. \A e, s : e # x => (<<e, s>> \in shown' <=> <<e, s>> \in shown)
  BY <1>1 DEF Apply
<1>10. ByItself'
  <2> SUFFICES ASSUME NEW t \in Topics, NEW s \in Schools, <<t, s>> \notin blurred,
                      NEW u \in Workers, Matters(u, t, s)'
               PROVE  /\ \A v \in Workers : Matters(v, t, s)' => v = u
                      /\ \A a \in air' : a.at = s => TopicOf(a.what) # t
    BY <1>1 DEF ByItself
  <2>1. u # w /\ Matters(u, t, s)
    BY <1>2, MattersBefore DEF Matters, CallEnds
  <2>2. t # h[w].topic
    BY <1>4, <2>1, AloneWith DEF InTouch, Matters
  <2>3. \A v \in Workers : Matters(v, t, s)' => v = u
    BY <1>2, <2>1, MattersBefore DEF InTouch, ByItself
  <2>4. \A a \in air' : a.at = s => TopicOf(a.what) # t
    BY <1>4, <1>7, <2>1, <2>2 DEF InTouch, ByItself
  <2>. QED  BY <2>3, <2>4
<1>11. Reliable'
  <2> SUFFICES ASSUME NEW v \in Workers, NEW s \in Schools,
                      <<h'[v].topic, s>> \notin blurred', Matters(v, h[v].topic, s)'
               PROVE  KeepsTrust(v) \/ Relies(v, s)'
    BY <1>1, ReliesFrame DEF InTouch
  <2>1. v # w
    BY <1>2 DEF CallEnds, Matters
  <2>2. h'[v] = h[v] /\ Matters(v, h[v].topic, s) /\ <<h[v].topic, s>> \notin blurred
    BY <1>1, <1>2, <2>1 DEF OnlyOf, Matters
  <2>3. ASSUME h[v].op = "ingest"  PROVE h[v].on # x
    <3>1. TopicOf(h[v].on) = h[v].topic
      BY <2>3, OnTopic
    <3>. QED  BY <1>4, <2>1, <2>2, <3>1, AloneWith DEF InTouch
  <2>. QED  BY <1>1, <1>9, <2>2, <2>3 DEF KeepsTrust, Untouched, tables
<1>12. InTune'
  <2> SUFFICES ASSUME NEW e \in Things, NEW s \in Schools, Claimed(e, s)'
               PROVE  (Claimed(e, s) /\ Steady(e, s)) \/ Sound(e, s)'
    BY InTuneFrame DEF InTouch
  <2>1. Claimed(e, s)
    BY <1>1, ClaimedBefore
  <2>2. CASE e # x
    <3>1. (Visible(e)' <=> Visible(e)) /\ (Promised(e)' <=> Promised(e))
      BY <1>1 DEF Visible, Promised, tables
    <3>2. ~TellsOf(w, e) /\ ~TellsOf(w, e)'
      BY <1>5, <2>2 DEF TellsOf
    <3>3. \A a \in air \union air' : a.what = e => (a \in air' <=> a \in air)
      BY <1>7, <1>8, <2>2
    <3>4. Steady(e, s)
      BY <1>2, <1>9, <2>2, <3>1, <3>2, <3>3, SteadyBut
    <3>. QED  BY <2>1, <3>4
  <2>3. CASE e = x
    <3>1. /\ \A v \in Workers \ {w} : Telling(v) => TopicOf(Told(v)) # h[w].topic
          /\ \A a \in air : a.at = s => TopicOf(a.what) # h[w].topic
      BY <1>4, <2>1, <2>3, NobodyElse DEF InTouch, Claimed
    <3>2. \A v \in Workers : ~TellsOf(v, e)'
      <4> TAKE v \in Workers
      <4>1. CASE v = w
        BY <1>5, <4>1 DEF TellsOf
      <4>2. CASE v # w
        <5>1. ~TellsOf(v, e)
          BY <1>4, <2>3, <3>1, <4>2 DEF TellsOf
        <5>. QED  BY <1>2, <4>2, <5>1, TellsSame DEF OnlyOf
      <4>. QED  BY <4>1, <4>2
    <3>3. Says(w) <=> Visible(x)
      BY <1>3, <2>1, <2>3 DEF InTouch, InTune, Sound
    <3>4. \A a \in air' : a.what = e /\ a.at = s => (a.as <=> Visible(e)')
      BY <1>4, <1>6, <1>7, <2>3, <3>1, <3>3
    <3>5. \/ \E a \in air' : a.what = e /\ a.at = s
          \/ <<e, s>> \in shown' <=> Promised(e)'
      <4>1. CASE platform
        <5>1. [what |-> x, as |-> Says(w), at |-> s] \in air'
          BY <1>1, <4>1 DEF Broadcast
        <5>. QED  BY <2>3, <5>1
      <4>2. CASE ~platform
        <5>1. s = Home
          BY <2>1, <4>2 DEF Claimed, Readers
        <5>2. <<x, Home>> \in shown' <=> Says(w)
          BY <1>1, <4>2 DEF Apply
        <5>3. Promised(x)' <=> Promised(x)
          BY <1>1 DEF Visible, Promised, tables
        <5>. QED  BY <1>6, <2>3, <3>3, <5>1, <5>2, <5>3
      <4>. QED  BY <4>1, <4>2
    <3>. QED  BY <3>2, <3>4, <3>5 DEF Sound, TellsOf
  <2>. QED  BY <2>2, <2>3
<1>. QED  BY <1>10, <1>11, <1>12 DEF InTouch

(* The phone is answered, and the other schools are about to be told. *)
LEMMA AnswerInTouch ==
    ASSUME BlogTyped, InTouch, NEW w \in Workers, AnswerEntry(w)
    PROVE  InTouch'
<1>. PICK x : x = h[w].on
  OBVIOUS
<1>1. /\ h[w].op = "ingest" /\ h[w].step = "emit" /\ Done(w)
      /\ UNCHANGED <<platform, tables, shown, logged, blurred>>
      /\ IF platform THEN Broadcast(w, Elsewhere) ELSE UNCHANGED air
      /\ acked' = acked \/ acked' = acked \union {x}
  BY DEF AnswerEntry, AtStep, blurs
<1>2. OnlyOf(w) /\ CallEnds(w) /\ GoesOn(w)
  BY <1>1, DoneTyped, DoneFacts
<1>3. /\ x \in Offline /\ x \in Things /\ x \in Comments \union Rows /\ TopicOf(x) = h[w].topic
      /\ x \in logged /\ h[w].seen = {}
  <2>1. x \in logged
    BY <1>1 DEF BlogTyped
  <2>. QED  BY <1>1, <2>1, CallFields, TopicFacts DEF CallTyped, OfComment, OfPost
<1>4. Told(w) = x /\ Says(w)
  BY <1>1, <1>3 DEF Told, Says
<1>5. ~Telling(w) /\ ~Telling(w)'
  BY <1>1, <1>2 DEF Telling, Tells, CallEnds
<1>6. \A a \in air' : a \in air \/ (a.what = x /\ a.as /\ platform /\ a.at \in Elsewhere)
  BY <1>1, <1>4 DEF Broadcast
<1>7. air \subseteq air'
  BY <1>1 DEF Broadcast
<1>8. \A s \in Schools : s \in Elsewhere \/ x \in Rows => Matters(w, h[w].topic, s)
  BY <1>1, <1>3, TopicFacts DEF Matters
<1>9. ByItself'
  <2> SUFFICES ASSUME NEW t \in Topics, NEW s \in Schools, <<t, s>> \notin blurred,
                      NEW u \in Workers, Matters(u, t, s)'
               PROVE  /\ \A v \in Workers : Matters(v, t, s)' => v = u
                      /\ \A a \in air' : a.at = s => TopicOf(a.what) # t
    BY <1>1 DEF ByItself
  <2>1. u # w /\ Matters(u, t, s)
    BY <1>2, MattersBefore DEF Matters, CallEnds
  <2>2. \A v \in Workers : Matters(v, t, s)' => v = u
    BY <1>2, <2>1, MattersBefore DEF InTouch, ByItself
  <2>3. s \in Elsewhere => t # h[w].topic
    BY <1>8, <2>1, AloneWith DEF InTouch, Matters
  <2>4. \A a \in air' : a.at = s => TopicOf(a.what) # t
    BY <1>3, <1>6, <2>1, <2>3 DEF InTouch, ByItself
  <2>. QED  BY <2>2, <2>4
<1>10. Reliable'
  <2> SUFFICES ASSUME NEW v \in Workers, NEW s \in Schools,
                      <<h'[v].topic, s>> \notin blurred', Matters(v, h[v].topic, s)'
               PROVE  KeepsTrust(v) \/ Relies(v, s)'
    BY <1>1, ReliesFrame DEF InTouch
  <2>1. v # w
    BY <1>2 DEF CallEnds, Matters
  <2>2. h'[v] = h[v] /\ Matters(v, h[v].topic, s) /\ <<h[v].topic, s>> \notin blurred
    BY <1>1, <1>2, <2>1 DEF OnlyOf, Matters
  <2>3. ASSUME h[v].op = "ingest"  PROVE h[v].on # x
    <3>1. SUFFICES ASSUME h[v].on = x  PROVE FALSE
      OBVIOUS
    <3>2. TopicOf(h[v].on) = h[v].topic
      BY <2>3, OnTopic
    <3>3. Matters(w, h[w].topic, s) /\ h[v].topic = h[w].topic
      BY <1>1, <1>3, <2>2, <2>3, <3>1, <3>2 DEF Matters
    <3>. QED  BY <2>1, <2>2, <3>3, AloneWith DEF InTouch
  <2>. QED  BY <1>1, <2>2, <2>3 DEF KeepsTrust, Untouched, tables
<1>11. InTune'
  <2> SUFFICES ASSUME NEW e \in Things, NEW s \in Schools, Claimed(e, s)'
               PROVE  (Claimed(e, s) /\ Steady(e, s)) \/ Sound(e, s)'
    BY InTuneFrame DEF InTouch
  <2>1. (Visible(e)' <=> Visible(e)) /\ (Promised(e)' <=> Promised(e))
    BY <1>1 DEF Visible, Promised, tables
  <2>2. ~TellsOf(w, e) /\ ~TellsOf(w, e)'
    BY <1>5 DEF TellsOf
  <2>3. CASE e # x \/ (s = Home /\ x \in Comments)
    <3>1. Claimed(e, s)
      BY <1>1, <2>3 DEF Claimed, Readers
    <3>2. \A a \in air \union air' : a.what = e /\ a.at = s => (a \in air' <=> a \in air)
      BY <1>6, <1>7, <2>3, TopicFacts
    <3>3. Steady(e, s)
      BY <1>1, <1>2, <2>1, <2>2, <3>2, SteadyBut
    <3>. QED  BY <3>1, <3>3
  <2>4. CASE e = x /\ (s # Home \/ x \in Rows)
    <3>1. <<h[w].topic, s>> \notin blurred /\ s \in Readers
      BY <1>1, <1>3, <2>4 DEF Claimed, Readers
    <3>2. Matters(w, h[w].topic, s) /\ h[w].topic \in Topics
      BY <1>1, <1>8, <2>4, CallFields DEF Schools
    <3>3. Visible(x) /\ (s = Home => <<x, Home>> \in shown)
      BY <1>1, <3>1, <3>2 DEF InTouch, Reliable, Relies, AtStep
    <3>4. /\ \A v \in Workers \ {w} : Telling(v) => TopicOf(Told(v)) # h[w].topic
          /\ \A a \in air : a.at = s => TopicOf(a.what) # h[w].topic
      BY <3>1, <3>2, NobodyElse DEF InTouch
    <3>5. \A v \in Workers : ~TellsOf(v, e)'
      <4> TAKE v \in Workers
      <4>1. CASE v = w
        BY <2>2, <4>1
      <4>2. CASE v # w
        <5>1. ~TellsOf(v, e)
          BY <1>3, <2>4, <3>4, <4>2 DEF TellsOf
        <5>. QED  BY <1>2, <4>2, <5>1, TellsSame DEF OnlyOf
      <4>. QED  BY <4>1, <4>2
    <3>6. \A a \in air' : a.what = e /\ a.at = s => (a.as <=> Visible(e)')
      BY <1>3, <1>6, <2>1, <2>4, <3>3, <3>4
    <3>7. \/ \E a \in air' : a.what = e /\ a.at = s
          \/ <<e, s>> \in shown' <=> Promised(e)'
      <4>1. CASE s = Home
        <5>1. Promised(x)
          BY <3>3 DEF Promised
        <5>. QED  BY <1>1, <2>1, <2>4, <3>3, <4>1, <5>1
      <4>2. CASE s # Home
        <5>1. platform /\ s \in Elsewhere
          BY <3>1, <4>2 DEF Readers, Schools
        <5>2. [what |-> x, as |-> Says(w), at |-> s] \in air'
          BY <1>1, <1>4, <5>1 DEF Broadcast
        <5>. QED  BY <2>4, <5>2
      <4>. QED  BY <4>1, <4>2
    <3>. QED  BY <3>5, <3>6, <3>7 DEF Sound, TellsOf
  <2>. QED  BY <1>3, <2>3, <2>4
<1>. QED  BY <1>9, <1>10, <1>11 DEF InTouch

(* A broadcast arrives or is lost. *)
LEMMA AirInTouch ==
    ASSUME BlogTyped, InTouch, HasRow, NEW a \in air, Land(a) \/ Miss(a)
    PROVE  InTouch'
<1>. PICK x \in Things, t \in Schools : a.what = x /\ a.at = t
  BY DEF BlogTyped, BlogTypeOK
<1>1. /\ air' = air \ {a} /\ UNCHANGED <<platform, tables, logged, acked, h>>
      /\ blurred \subseteq blurred'
      /\ \/ Apply(x, a.as, t)
         \/ shown' = shown /\ <<TopicOf(x), t>> \in blurred'
  BY DEF Land, Miss, Stays, blurs
<1>2. \A e, s : <<e, s>> # <<x, t>> => (<<e, s>> \in shown' <=> <<e, s>> \in shown)
  BY <1>1 DEF Apply
<1>3. ByItself'
  BY <1>1, ByItselfFrame DEF InTouch, Matters
<1>4. Reliable'
  <2> SUFFICES ASSUME NEW v \in Workers, NEW s \in Schools,
                      <<h'[v].topic, s>> \notin blurred', Matters(v, h[v].topic, s)'
               PROVE  KeepsTrust(v) \/ Relies(v, s)'
    BY <1>1, ReliesFrame DEF InTouch
  <2>1. Matters(v, h[v].topic, s) /\ <<h[v].topic, s>> \notin blurred /\ h'[v] = h[v]
    BY <1>1 DEF Matters
  <2>2. CASE s # Home \/ h[v].op # "ingest" \/ h[v].on # x \/ t # Home
    <3>1. CASE h[v].op # "ingest" \/ h[v].on # x \/ t # Home
      BY <1>1, <1>2, <2>1, <3>1 DEF KeepsTrust, Untouched, tables
    <3>2. CASE s # Home /\ h[v].op = "ingest"
      <4>1. Relies(v, s)
        BY <2>1 DEF InTouch, Reliable
      <4>. QED  BY <1>1, <3>2, <4>1 DEF Relies, AtStep, Visible, Live, tables
    <3>. QED  BY <2>2, <3>1, <3>2
  <2>3. CASE s = Home /\ h[v].op = "ingest" /\ h[v].on = x /\ t = Home
    <3>1. TopicOf(x) = h[v].topic /\ h[v].topic \in Topics
      BY <2>1, <2>3, OnTopic, CallFields DEF Matters
    <3>. QED  BY <2>1, <2>3, <3>1 DEF InTouch, ByItself
  <2>. QED  BY <2>2, <2>3
<1>5. InTune'
  <2> SUFFICES ASSUME NEW e \in Things, NEW s \in Schools, Claimed(e, s)'
               PROVE  (Claimed(e, s) /\ Steady(e, s)) \/ Sound(e, s)'
    BY InTuneFrame DEF InTouch
  <2>1. Claimed(e, s)
    BY <1>1, ClaimedBefore
  <2>2. (Visible(e)' <=> Visible(e)) /\ (Promised(e)' <=> Promised(e))
    BY <1>1 DEF Visible, Promised, tables
  <2>3. \A v \in Workers : (TellsOf(v, e)' <=> TellsOf(v, e)) /\ (Says(v)' <=> Says(v))
    BY <1>1, TellsSame
  <2>4. CASE <<e, s>> # <<x, t>>
    <3>1. \A b \in air \union air' : b.what = e /\ b.at = s => (b \in air' <=> b \in air)
      BY <1>1, <2>4
    <3>2. Steady(e, s)
      BY <1>2, <2>2, <2>3, <2>4, <3>1 DEF Steady
    <3>. QED  BY <2>1, <3>2
  <2>5. CASE e = x /\ s = t
    <3>1. Apply(x, a.as, t)
      BY <1>1, <2>5 DEF Claimed
    <3>2. Sound(e, s)
      BY <2>1 DEF InTouch, InTune
    <3>3. a.as <=> Visible(e)
      BY <2>5, <3>2 DEF Sound
    <3>4. Promised(e) <=> Visible(e)
      <4>1. SUFFICES ASSUME e \in Comments  PROVE comment[e] # "none" \/ e \notin logged
        BY DEF Promised
      <4>2. CASE s = Home
        BY <2>5, <4>1, <4>2 DEF HasRow
      <4>3. CASE s # Home /\ e \in logged
        <5>1. e \in acked /\ <<e, s>> \notin blurred
          BY <2>1, <4>1, <4>3, TopicFacts DEF Claimed
        <5>. QED  BY <4>1, <5>1 DEF HasRow, Written
      <4>. QED  BY <4>2, <4>3
    <3>5. <<e, s>> \in shown' <=> a.as
      BY <2>5, <3>1 DEF Apply
    <3>6. \A v \in Workers : TellsOf(v, e)' => (Says(v)' <=> Visible(e)')
      BY <2>2, <2>3, <3>2 DEF Sound, TellsOf
    <3>7. \A b \in air' : b.what = e /\ b.at = s => (b.as <=> Visible(e)')
      BY <1>1, <2>2, <3>2 DEF Sound
    <3>. QED  BY <2>2, <3>3, <3>4, <3>5, <3>6, <3>7 DEF Sound, TellsOf
  <2>. QED  BY <2>4, <2>5
<1>. QED  BY <1>3, <1>4, <1>5 DEF InTouch

(* A request dies. *)
LEMMA DeathInTouch ==
    ASSUME BlogTyped, InTouch, NEW w \in Workers, CallDies(w)
    PROVE  InTouch'
<1>1. /\ Done(w) /\ UNCHANGED <<platform, tables, phones>> /\ blurred \subseteq blurred'
      /\ h[w].step # "idle"
      /\ h[w].op \in {"ingest", "report"} \/ {h[w].topic} \X Schools \subseteq blurred'
  BY DEF CallDies, AtStep
<1>2. OnlyOf(w) /\ CallEnds(w) /\ GoesOn(w)
  BY <1>1, DoneTyped, DoneFacts
<1>3. ByItself'
  BY <1>1, <1>2, MattersBefore, ByItselfFrame DEF InTouch, phones
<1>4. Reliable'
  <2> SUFFICES ASSUME NEW v \in Workers, NEW s \in Schools,
                      <<h'[v].topic, s>> \notin blurred', Matters(v, h[v].topic, s)'
               PROVE  KeepsTrust(v) \/ Relies(v, s)'
    BY <1>1, ReliesFrame DEF InTouch
  <2>1. v # w
    BY <1>2 DEF CallEnds, Matters
  <2>. QED  BY <1>1, <1>2, <2>1 DEF KeepsTrust, Untouched, OnlyOf, tables, phones
<1>5. InTune'
  <2> SUFFICES ASSUME NEW e \in Things, NEW s \in Schools, Claimed(e, s)'
               PROVE  (Claimed(e, s) /\ Steady(e, s)) \/ Sound(e, s)'
    BY InTuneFrame DEF InTouch
  <2>1. Claimed(e, s)
    BY <1>1, ClaimedBefore DEF phones
  <2>2. (Visible(e)' <=> Visible(e)) /\ (Promised(e)' <=> Promised(e))
    BY <1>1 DEF Visible, Promised, tables, phones
  <2>3. ~TellsOf(w, e)'
    BY <1>2 DEF TellsOf, Telling, Tells, CallEnds
  <2>4. ~TellsOf(w, e)
    <3>1. SUFFICES ASSUME TellsOf(w, e)  PROVE FALSE
      OBVIOUS
    <3>2. TopicOf(e) = h[w].topic /\ h[w].op \notin {"ingest", "report"}
      BY <3>1, ToldTopic DEF TellsOf, Telling, Tells
    <3>. QED  BY <1>1, <3>2 DEF Claimed
  <2>5. Steady(e, s)
    BY <1>1, <1>2, <2>2, <2>3, <2>4, SteadyBut DEF phones
  <2>. QED  BY <2>1, <2>5
<1>. QED  BY <1>3, <1>4, <1>5 DEF InTouch

(* A deletion fails, and phones are told of it. *)
LEMMA UndeletedInTouch ==
    ASSUME BlogTyped, InTouch, NEW w \in Workers, DeleteFails(w)
    PROVE  InTouch'
<1>1. /\ UNCHANGED <<platform, tables, phones>> /\ blurred \subseteq blurred'
      /\ {h[w].topic} \X Schools \subseteq blurred' /\ h[w].op # "ingest"
      /\ h[w].step = "write" /\ (Then(w, "emit") \/ Then(w, "count"))
  BY CallFields DEF DeleteFails, AtStep, CallTyped
<1>2. OnlyOf(w) /\ SameCall(w) /\ GoesOn(w) /\ CallTyped(h'[w])
  <2>1. OnlyOf(w) /\ SameCall(w) /\ h'[w].step # "idle"
    BY <1>1, ThenFacts
  <2>. QED  BY <2>1, ProgressFacts DEF Progress, CallEnds, CallSteps
<1>3. ByItself'
  BY <1>1, <1>2, MattersBefore, ByItselfFrame DEF InTouch, phones
<1>4. Reliable'
  <2> SUFFICES ASSUME NEW v \in Workers, NEW s \in Schools,
                      <<h'[v].topic, s>> \notin blurred', Matters(v, h[v].topic, s)'
               PROVE  KeepsTrust(v) \/ Relies(v, s)'
    BY <1>1, ReliesFrame DEF InTouch
  <2>1. v # w
    BY <1>1, <1>2 DEF SameCall
  <2>. QED  BY <1>1, <1>2, <2>1 DEF KeepsTrust, Untouched, OnlyOf, tables, phones
<1>5. InTune'
  <2> SUFFICES ASSUME NEW e \in Things, NEW s \in Schools, Claimed(e, s)'
               PROVE  (Claimed(e, s) /\ Steady(e, s)) \/ Sound(e, s)'
    BY InTuneFrame DEF InTouch
  <2>1. Claimed(e, s)
    BY <1>1, ClaimedBefore DEF phones
  <2>2. (Visible(e)' <=> Visible(e)) /\ (Promised(e)' <=> Promised(e))
    BY <1>1 DEF Visible, Promised, tables, phones
  <2>3. ~TellsOf(w, e)
    BY <1>1 DEF TellsOf, Telling, Tells
  <2>4. ~TellsOf(w, e)'
    <3>1. SUFFICES ASSUME TellsOf(w, e)'  PROVE FALSE
      OBVIOUS
    <3>2. Tells(h'[w]) /\ Thing(h'[w]) = e
      BY <3>1 DEF TellsOf, Telling, Told, Thing
    <3>3. TopicOf(e) = h[w].topic
      BY <1>2, <3>2, ThingTopic DEF SameCall
    <3>. QED  BY <1>1, <3>3 DEF Claimed
  <2>5. Steady(e, s)
    BY <1>1, <1>2, <2>2, <2>3, <2>4, SteadyBut DEF phones
  <2>. QED  BY <2>1, <2>5
<1>. QED  BY <1>3, <1>4, <1>5 DEF InTouch

(* A report is resolved, or nothing happens. *)
LEMMA RestInTouch ==
    ASSUME BlogTyped, InTouch,
           UNCHANGED <<platform, post, comment, reactions, phones, h, blurred>>
    PROVE  InTouch'
<1>1. ByItself'
  BY DEF InTouch, ByItself, Matters, phones
<1>2. Reliable'
  <2> SUFFICES ASSUME NEW v \in Workers, NEW s \in Schools,
                      <<h'[v].topic, s>> \notin blurred', Matters(v, h[v].topic, s)'
               PROVE  KeepsTrust(v) \/ Relies(v, s)'
    BY ReliesFrame DEF InTouch
  <2>. QED  BY DEF KeepsTrust, Untouched, phones
<1>3. InTune'
  <2> SUFFICES ASSUME NEW e \in Things, NEW s \in Schools, Claimed(e, s)'
               PROVE  (Claimed(e, s) /\ Steady(e, s)) \/ Sound(e, s)'
    BY InTuneFrame DEF InTouch
  <2>1. Claimed(e, s)
    BY ClaimedBefore DEF phones
  <2>2. Steady(e, s)
    <3>1. \A v \in Workers : (TellsOf(v, e)' <=> TellsOf(v, e)) /\ (Says(v)' <=> Says(v))
      BY TellsSame
    <3>. QED  BY <3>1 DEF Steady, Visible, Promised, phones
  <2>. QED  BY <2>1, <2>2
<1>. QED  BY <1>1, <1>2, <1>3 DEF InTouch

(* No step puts a phone out of touch. *)
LEMMA InTouchStep ==
    BlogTyped /\ InTouch /\ CommentKnown /\ HasRow /\ [BlogNext]_blogVars => InTouch'
<1> SUFFICES ASSUME BlogTyped, InTouch, CommentKnown, HasRow, [BlogNext]_blogVars
             PROVE  InTouch'
  OBVIOUS
<1>1. ASSUME NEW w \in Workers, CallStarts(w)  PROVE InTouch'
  BY <1>1, StartFacts, StartsInTouch
<1>2. ASSUME NEW w \in Workers, CallSteps(w)  PROVE InTouch'
  <2>1. CASE AppendEntry(w) \/ UpsertComment(w) \/ UpsertReaction(w) \/ UpsertFails(w)
    BY <2>1, AppendInTouch, UpsertsInTouch
  <2>2. CASE InsertComment(w) \/ MarkDeleted(w) \/ MarkModerated(w)
    BY <2>2, CommentWrites
  <2>3. CASE WriteEdit(w) \/ WriteTakedown(w) \/ WriteRestore(w) \/ WriteDelete(w)
    BY <2>3, PostWrites
  <2>4. CASE WriteReaction(w) \/ DropReaction(w)
    BY <2>4, ReactionWrites
  <2>5. CASE InsertReport(w) \/ CountReports(w) \/ StoreFlag(w) \/ CountLikes(w) \/ StoreLikes(w)
             \/ CloseReports(w) \/ CloseFails(w) \/ CountReportsFails(w) \/ CountLikesFails(w)
             \/ StoreZero(w) \/ StoreLikesFails(w)
    BY <2>5, QuietSteps
  <2>6. CASE EmitSyncEvent(w) \/ AnswerEntry(w)
    BY <2>6, EmitInTouch, AnswerInTouch
  <2>7. CASE DeleteFails(w)
    BY <2>7, UndeletedInTouch
  <2>. QED  BY <1>2, <2>1, <2>2, <2>3, <2>4, <2>5, <2>6, <2>7 DEF CallSteps
<1>3. ASSUME NEW w \in Workers, CallDies(w)  PROVE InTouch'
  BY <1>3, DeathInTouch
<1>4. ASSUME NEW u \in Reporters, ResolveReport(u)  PROVE InTouch'
  BY <1>4, RestInTouch DEF ResolveReport, blurs
<1>5. ASSUME NEW a \in air, Land(a) \/ Miss(a)  PROVE InTouch'
  BY <1>5, AirInTouch
<1>6. CASE UNCHANGED blogVars
  BY <1>6, RestInTouch DEF blogVars, tables, blurs
<1>. QED  BY <1>1, <1>2, <1>3, <1>4, <1>5, <1>6 DEF BlogNext

-----------------------------------------------------------------------------
(* Comments are counted as they come alive and die. *)
LiveOnes == {c \in Comments : Live(c)}

(* Live comments can be counted. *)
LEMMA LiveFinite == IsFiniteSet(LiveOnes) /\ Cardinality(LiveOnes) \in Nat
BY SizesAssumption, FS_Subset, FS_CardinalityType DEF LiveOnes

(* A comment comes: the trigger adds one. *)
LEMMA CountComes ==
    ASSUME BlogTyped, CommentsCounted, NEW c \in Comments, comment[c] = "none",
           comment' = [comment EXCEPT ![c] = "visible"], count' = count + 1
    PROVE  CommentsCounted'
<1>1. LiveOnes' = LiveOnes \union {c} /\ c \notin LiveOnes
  BY DEF LiveOnes, Live, BlogTyped, BlogTypeOK
<1>2. Cardinality(LiveOnes \union {c}) = Cardinality(LiveOnes) + 1
  BY <1>1, LiveFinite, FS_AddElement
<1>. QED  BY <1>1, <1>2 DEF CommentsCounted, LiveOnes

(* A comment goes: the trigger subtracts one if it was alive. *)
LEMMA CountGoes ==
    ASSUME BlogTyped, CommentsCounted, NEW c \in Comments,
           comment' = [comment EXCEPT ![c] = "deleted"], count' = CountAfterDelete(c)
    PROVE  CommentsCounted'
<1>1. LiveOnes' = LiveOnes \ {c}
  BY DEF LiveOnes, Live, BlogTyped, BlogTypeOK
<1>2. Cardinality(LiveOnes \ {c}) = IF c \in LiveOnes THEN Cardinality(LiveOnes) - 1
                                    ELSE Cardinality(LiveOnes)
  BY LiveFinite, FS_RemoveElement
<1>3. c \in LiveOnes => Cardinality(LiveOnes) > 0
  BY LiveFinite, FS_EmptySet
<1>4. count = Cardinality(LiveOnes) /\ (Live(c) <=> c \in LiveOnes)
  BY DEF CommentsCounted, LiveOnes
<1>5. count' = Cardinality(LiveOnes \ {c})
  BY <1>2, <1>3, <1>4, LiveFinite DEF CountAfterDelete
<1>. QED  BY <1>1, <1>5 DEF CommentsCounted, LiveOnes

(* Nothing comes or goes. *)
LEMMA CountStays ==
    ASSUME CommentsCounted, count' = count, \A c \in Comments : Live(c)' <=> Live(c)
    PROVE  CommentsCounted'
BY DEF CommentsCounted

(* What is known of comments when one of them changes or is announced. *)
LEMMA KnownRises ==
    ASSUME BlogTyped, CommentKnown, NEW w \in Workers, GoesOn(w), NEW x \in Comments,
           w \in Busy(x), ~AtStep(w, "ingest", "append")', ~AtStep(w, "create", "write")',
           \A c \in Comments \ {x} : comment'[c] = comment[c] /\ (c \in logged' <=> c \in logged),
           comment[x] # "none" => comment'[x] # "none", logged \subseteq logged',
           AtStep(w, "create", "emit")' => comment'[x] # "none" /\ h'[w].on = x,
           comment'[x] = "none" \/ x \in logged' \/ Busy(x) = {w}
    PROVE  CommentKnown'
<1> SUFFICES ASSUME NEW v \in Workers
             PROVE  /\ AtStep(v, "create", "write")' =>
                         /\ comment'[h'[v].on] = "none" /\ h'[v].on \notin logged'
                         /\ Busy(h[v].on)' = {v}
                    /\ AtStep(v, "ingest", "append")' /\ h'[v].on \in Comments \ logged' =>
                         comment'[h'[v].on] = "none"
                    /\ h'[v].op \in {"delete", "moderate"} \/ AtStep(v, "create", "emit")' =>
                         comment'[h'[v].on] # "none"
  BY DEF CommentKnown
<1>0. BlogTyped /\ CallTyped(h[v])
  BY CallFields
<1>1. CASE v = w
  <2>1. h'[w].op \in {"delete", "moderate"} => comment'[h'[w].on] # "none"
    <3>1. SUFFICES ASSUME h'[w].op \in {"delete", "moderate"}  PROVE comment'[h'[w].on] # "none"
      OBVIOUS
    <3>2. h[w].op \in {"delete", "moderate"} /\ h'[w].on = h[w].on
      BY <3>1 DEF GoesOn, SameCall, CallEnds
    <3>3. h[w].on \in Comments /\ comment[h[w].on] # "none"
      BY <3>2, CallFields DEF CommentKnown, CallTyped, OfComment, OfPost
    <3>. QED  BY <3>2, <3>3
  <2>. QED  BY <1>1, <2>1
<1>2. CASE v # w
  <2>1. h'[v] = h[v]
    BY <1>2 DEF GoesOn, OnlyOf
  <2>2. ASSUME AtStep(v, "create", "write")
        PROVE  /\ comment'[h[v].on] = "none" /\ h[v].on \notin logged' /\ Busy(h[v].on)' = {v}
    <3>1. Busy(h[v].on) = {v} /\ comment[h[v].on] = "none" /\ h[v].on \notin logged
      BY <2>2 DEF CommentKnown
    <3>2. h[v].on # x /\ h[v].on \in Comments
      BY <1>0, <1>2, <2>2, <3>1 DEF AtStep, CallTyped, OfComment, OfPost
    <3>3. \A y \in Workers : h'[y].step # "idle" /\ h'[y].topic = h[v].on =>
                                h[y].step # "idle" /\ h[y].topic = h[v].on
      BY DEF GoesOn, OnlyOf, CallEnds, SameCall
    <3>4. h'[v].step # "idle" /\ h'[v].topic = h[v].on
      BY <2>1, <3>1 DEF Busy
    <3>5. Busy(h[v].on)' = {v}
      BY <2>1, <3>1, <3>3, <3>4 DEF Busy
    <3>. QED  BY <3>1, <3>2, <3>5
  <2>3. ASSUME AtStep(v, "ingest", "append"), h[v].on \in Comments \ logged'
        PROVE  comment'[h[v].on] = "none"
    <3>1. comment[h[v].on] = "none" /\ h[v].topic = h[v].on /\ v \in Busy(h[v].on)
      BY <1>0, <2>3, OnTopic, TopicFacts DEF CommentKnown, AtStep, Busy
    <3>. QED  BY <1>2, <2>3, <3>1
  <2>4. ASSUME h[v].op \in {"delete", "moderate"} \/ AtStep(v, "create", "emit")
        PROVE  comment'[h[v].on] # "none"
    <3>1. comment[h[v].on] # "none" /\ h[v].on \in Comments
      BY <1>0, <2>4 DEF CommentKnown, AtStep, CallTyped, OfComment, OfPost
    <3>. QED  BY <3>1
  <2>. QED  BY <2>1, <2>2, <2>3, <2>4 DEF AtStep
<1>. QED  BY <1>1, <1>2

(* What is said of a comment is said of one that has its row. *)
LEMMA EmitsKnown ==
    ASSUME BlogTyped, CommentKnown, NEW w \in Workers, EmitSyncEvent(w), Told(w) \in Comments
    PROVE  comment[Told(w)] # "none"
<1>. PICK x \in Comments : x = Told(w)
  OBVIOUS
<1>1. h[w].step = "emit" /\ h[w].op # "ingest"
  BY DEF EmitSyncEvent
<1>2. Telling(w)
  BY <1>1, CallFields DEF Telling, Tells, CallTyped, OfComment, OfPost
<1>3. CallTyped(h[w]) /\ h[w].topic = x
  BY <1>2, CallFields, ToldTopic, TopicFacts
<1>4. h[w].op \in OfComment /\ h[w].on = x
  BY <1>1, <1>2, <1>3, TopicFacts DEF CallTyped, Telling, Tells, OfComment, OfPost, OfLikes
<1>. QED  BY <1>1, <1>4 DEF CommentKnown, AtStep, OfComment

OfComments == CommentsCounted /\ CommentKnown /\ HasRow

(* What is known of comments when a request begins. *)
LEMMA StartsKnown ==
    ASSUME BlogTyped, OfComments, NEW w \in Workers, Started(w), StartsOn(w)
    PROVE  OfComments'
<1>1. /\ OnlyOf(w) /\ h[w].step = "idle" /\ CallTyped(h'[w])
      /\ h'[w].step = IF h'[w].op = "ingest" THEN "append" ELSE "write"
      /\ UNCHANGED <<tables, phones>> /\ blurred \subseteq blurred'
  BY DEF Started
<1>2. CommentsCounted'
  BY <1>1, CountStays DEF OfComments, Live, tables
<1>3. HasRow'
  <2>1. \A c : Written(c)' => Written(c)
    BY <1>1 DEF Written, AtStep, OnlyOf, phones
  <2>. QED  BY <1>1, <2>1 DEF OfComments, HasRow, tables, phones
<1>4. CommentKnown'
  <2> SUFFICES ASSUME NEW v \in Workers
               PROVE  /\ AtStep(v, "create", "write")' =>
                           /\ comment'[h'[v].on] = "none" /\ h'[v].on \notin logged'
                           /\ Busy(h[v].on)' = {v}
                      /\ AtStep(v, "ingest", "append")' /\ h'[v].on \in Comments \ logged' =>
                           comment'[h'[v].on] = "none"
                      /\ h'[v].op \in {"delete", "moderate"} \/ AtStep(v, "create", "emit")' =>
                           comment'[h'[v].on] # "none"
    BY DEF CommentKnown
  <2>1. CASE v = w
    <3>1. ASSUME AtStep(w, "create", "write")'  PROVE Busy(h[w].on)' = {w}
      <4>. PICK x : x = h'[w].on
        OBVIOUS
      <4>1. Busy(x) = {} /\ h'[w].topic = x /\ h'[w].step # "idle"
        BY <1>1, <3>1 DEF StartsOn, AtStep, CallTyped, OfComment, OfPost
      <4>2. Busy(x)' = {w}
        BY <1>1, <4>1 DEF Busy, OnlyOf
      <4>. QED  BY <4>2
    <3>2. h'[w].op \in {"delete", "moderate"} => comment'[h'[w].on] # "none"
      BY <1>1 DEF StartsOn, Live, tables
    <3>. QED  BY <1>1, <2>1, <3>1, <3>2 DEF StartsOn, AtStep, tables, phones
  <2>2. CASE v # w
    <3>1. h'[v] = h[v]
      BY <1>1, <2>2 DEF OnlyOf
    <3>2. ASSUME AtStep(v, "create", "write")  PROVE Busy(h[v].on)' = {v}
      <4>. PICK x : x = h[v].on
        OBVIOUS
      <4>1. Busy(x) = {v} /\ comment[x] = "none" /\ x \in Comments
        BY <3>2, CallFields DEF OfComments, CommentKnown, AtStep, CallTyped, OfComment, OfPost
      <4>2. h'[w].topic # x
        <5>1. SUFFICES ASSUME h'[w].topic = x  PROVE FALSE
          OBVIOUS
        <5>2. h'[w].op \in OfComment \union {"ingest"} /\ h'[w].on = x
          <6>1. h'[w].op # "idle"
            BY DEF Started
          <6>2. \A e \in Offline : TopicOf(e) = x => e = x
            BY <4>1, TopicFacts
          <6>. QED  BY <1>1, <4>1, <5>1, <6>1, <6>2, TopicFacts DEF CallTyped, OfPost
        <5>3. h'[w].op = "create" => v \notin Busy(x)
          BY <5>2 DEF StartsOn
        <5>4. h'[w].op \in {"delete", "moderate"} => comment[x] # "none"
          BY <5>2 DEF StartsOn, Live
        <5>5. h'[w].op = "ingest" => h[v].on # x
          BY <3>2, <5>2 DEF StartsOn, AtStep
        <5>. QED  BY <4>1, <5>2, <5>3, <5>4, <5>5 DEF OfComment
      <4>3. Busy(x)' = {v}
        BY <1>1, <2>2, <4>1, <4>2 DEF Busy, OnlyOf
      <4>. QED  BY <3>1, <4>3
    <3>. QED  BY <1>1, <3>1, <3>2 DEF OfComments, CommentKnown, AtStep, tables, phones
  <2>. QED  BY <2>1, <2>2
<1>. QED  BY <1>2, <1>3, <1>4 DEF OfComments

(* What is known of comments when a request moves on or dies. *)
LEMMA StepsKnown ==
    ASSUME BlogTyped, OfComments, NEW w \in Workers, CallSteps(w) \/ CallDies(w)
    PROVE  OfComments'
<1>. PICK x : x = h[w].on
  OBVIOUS
<1>0. /\ Progress(w) /\ GoesOn(w) /\ blurred \subseteq blurred' /\ logged \subseteq logged'
      /\ comment \in [Comments -> {"none", "visible", "hidden", "deleted"}]
      /\ CallTyped(h[w]) /\ CommentsCounted /\ CommentKnown /\ HasRow
  BY ProgressFacts, CallFields DEF Progress, OfComments, BlogTyped, BlogTypeOK
<1>1. CASE AppendEntry(w)
  <2>1. /\ h[w].op = "ingest" /\ h[w].step = "append" /\ Then(w, "write")
        /\ logged' = logged \union {x} /\ UNCHANGED <<tables, air, acked, blurred>>
    BY <1>1 DEF AppendEntry, AtStep, blurs
  <2>2. SameCall(w) /\ h'[w].step = "write" /\ OnlyOf(w)
    BY <2>1, ThenFacts
  <2>3. CommentsCounted'
    BY <1>0, <2>1, CountStays DEF Live, tables
  <2>4. HasRow'
    <3>1. \A c : Written(c)' => Written(c)
      BY <2>1, <2>2 DEF Written, AtStep, OnlyOf
    <3>. QED  BY <1>0, <2>1, <3>1 DEF HasRow, tables
  <2>5. CommentKnown'
    <3>1. CASE x \in Comments
      <4>1. w \in Busy(x)
        BY <2>1, <3>1, OnTopic, TopicFacts DEF Busy
      <4>. QED
        BY <1>0, <2>1, <2>2, <3>1, <4>1, KnownRises DEF AtStep, SameCall, tables
    <3>2. CASE x \notin Comments
      <4>1. \A c \in Comments : c \in logged' <=> c \in logged
        BY <2>1, <3>2
      <4> SUFFICES ASSUME NEW v \in Workers, v # w
                   PROVE  /\ AtStep(v, "create", "write") =>
                               /\ comment[h[v].on] = "none" /\ h[v].on \notin logged'
                               /\ Busy(h[v].on)' = {v}
                          /\ AtStep(v, "ingest", "append") /\ h[v].on \in Comments \ logged' =>
                               comment[h[v].on] = "none"
                          /\ h[v].op \in {"delete", "moderate"} \/ AtStep(v, "create", "emit") =>
                               comment[h[v].on] # "none"
        BY <2>1, <2>2 DEF CommentKnown, AtStep, OnlyOf, SameCall, tables
      <4>2. ASSUME AtStep(v, "create", "write")
            PROVE  Busy(h[v].on)' = {v} /\ h[v].on \notin logged'
        <5>. PICK y : y = h[v].on
          OBVIOUS
        <5>1. Busy(y) = {v} /\ y \notin logged /\ y \in Comments
          BY <1>0, <4>2, CallFields DEF CommentKnown, AtStep, CallTyped, OfComment, OfPost
        <5>2. Busy(y)' = {v}
          BY <2>1, <2>2, <5>1 DEF Busy, OnlyOf, SameCall
        <5>3. h'[v] = h[v]
          BY <2>2 DEF OnlyOf
        <5>. QED  BY <4>1, <5>1, <5>2, <5>3
      <4>. QED  BY <1>0, <4>1, <4>2 DEF CommentKnown
    <3>. QED  BY <3>1, <3>2
  <2>. QED  BY <2>3, <2>4, <2>5 DEF OfComments
<1>2. CASE UpsertComment(w) \/ InsertComment(w) \/ MarkDeleted(w) \/ MarkModerated(w)
  <2>1. /\ h[w].step = "write" /\ Then(w, "emit") /\ UNCHANGED <<phones, reactions, blurred>>
        /\ h[w].op \in OfComment \/ (h[w].op = "ingest" /\ x \in Comments)
    BY <1>2
    DEF UpsertComment, InsertComment, MarkDeleted, MarkModerated, AtStep, OfComment, blurs
  <2>2. SameCall(w) /\ h'[w].step = "emit" /\ OnlyOf(w)
    BY <2>1, ThenFacts
  <2>3. x \in Comments /\ w \in Busy(x)
    BY <1>0, <2>1, OnTopic, TopicFacts DEF Busy, CallTyped, OfComment, OfPost
  <2>4. InsertComment(w) => comment[x] = "none" /\ Busy(x) = {w}
    BY <1>0 DEF InsertComment, CommentKnown
  <2>5. MarkDeleted(w) \/ MarkModerated(w) => comment[x] # "none"
    BY <1>0 DEF MarkDeleted, MarkModerated, AtStep, CommentKnown
  <2>6. UpsertComment(w) => x \in logged
    BY DEF UpsertComment, AtStep, BlogTyped
  <2>7. /\ \A c \in Comments \ {x} : comment'[c] = comment[c]
        /\ comment'[x] # "none"
    BY <1>0, <1>2, <2>3, <2>5 DEF UpsertComment, InsertComment, MarkDeleted, MarkModerated
  <2>8. CommentKnown'
    <3>1. comment'[x] = "none" \/ x \in logged' \/ Busy(x) = {w} \/ comment[x] # "none"
      BY <1>0, <1>2, <2>4, <2>5, <2>6
    <3>2. CASE comment[x] = "none"
      BY <1>0, <2>1, <2>2, <2>3, <2>7, <3>1, <3>2, KnownRises DEF AtStep, SameCall, phones
    <3>3. CASE comment[x] # "none"
      <4>1. /\ \A c \in Comments : comment'[c] = "none" <=> comment[c] = "none"
            /\ \A c \in Comments : c \in logged' <=> c \in logged
        BY <2>1, <2>7, <3>3 DEF phones
      <4> SUFFICES ASSUME NEW v \in Workers
                   PROVE  /\ AtStep(v, "create", "write")' =>
                               /\ comment'[h'[v].on] = "none" /\ h'[v].on \notin logged'
                               /\ Busy(h[v].on)' = {v}
                          /\ AtStep(v, "ingest", "append")' /\ h'[v].on \in Comments \ logged' =>
                               comment'[h'[v].on] = "none"
                          /\ h'[v].op \in {"delete", "moderate"} \/ AtStep(v, "create", "emit")' =>
                               comment'[h'[v].on] # "none"
        BY DEF CommentKnown
      <4>2. CASE v = w
        BY <2>2, <2>7, <4>2 DEF AtStep, SameCall
      <4>3. CASE v # w
        <5>1. h'[v] = h[v] /\ CallTyped(h[v])
          BY <2>2, <4>3, CallFields DEF OnlyOf
        <5>2. h[v].op \in OfComment => h[v].on \in Comments
          BY <5>1 DEF CallTyped, OfComment, OfPost
        <5>3. ASSUME AtStep(v, "create", "write")  PROVE Busy(h[v].on)' = {v}
          <6>. PICK y : y = h[v].on
            OBVIOUS
          <6>1. Busy(y) = {v}
            BY <1>0, <5>3 DEF CommentKnown
          <6>2. Busy(y)' = {v}
            BY <2>1, <2>2, <6>1 DEF Busy, OnlyOf, SameCall
          <6>. QED  BY <5>1, <6>2
        <5>. QED
          BY <1>0, <2>1, <4>1, <5>1, <5>2, <5>3 DEF CommentKnown, AtStep, OfComment, phones
      <4>. QED  BY <4>2, <4>3
    <3>. QED  BY <3>2, <3>3
  <2>9. HasRow'
    <3>1. \A c \in Comments : Written(c)' => Written(c) \/ c = x
      BY <2>1, <2>2 DEF Written, AtStep, OnlyOf, SameCall, phones
    <3>. QED  BY <1>0, <2>1, <2>7, <3>1 DEF HasRow, phones
  <2>10. CommentsCounted'
    <3>1. CASE InsertComment(w)
      BY <1>0, <2>3, <2>4, <3>1, CountComes DEF InsertComment
    <3>2. CASE MarkDeleted(w)
      BY <1>0, <2>3, <3>2, CountGoes DEF MarkDeleted
    <3>3. CASE MarkModerated(w)
      <4>1. \A c \in Comments : Live(c)' <=> Live(c)
        BY <1>0, <2>3, <2>5, <3>3 DEF MarkModerated, Live
      <4>. QED  BY <1>0, <3>3, <4>1, CountStays DEF MarkModerated
    <3>4. CASE UpsertComment(w) /\ comment[x] = "none"
      BY <1>0, <2>3, <3>4, CountComes DEF UpsertComment
    <3>5. CASE UpsertComment(w) /\ comment[x] # "none"
      BY <1>0, <3>5, CountStays DEF UpsertComment, Live
    <3>. QED  BY <1>2, <3>1, <3>2, <3>3, <3>4, <3>5
  <2>. QED  BY <2>8, <2>9, <2>10 DEF OfComments
<1>3. CASE ~AppendEntry(w) /\ ~(UpsertComment(w) \/ InsertComment(w) \/ MarkDeleted(w)
           \/ MarkModerated(w))
  <2>1. UNCHANGED <<comment, count, logged>>
    BY <1>3
    DEF CallSteps, CallDies, UpsertReaction, UpsertFails, WriteEdit, WriteTakedown, WriteRestore,
        CloseReports, WriteDelete, InsertReport, CountReports, StoreFlag, WriteReaction,
        DropReaction, CountLikes, StoreLikes, EmitSyncEvent, AnswerEntry, CloseFails,
        CountReportsFails, DeleteFails, CountLikesFails, StoreZero, StoreLikesFails, tables, phones
  <2>2. ASSUME h'[w].step \notin {"append", "write"}, ~AtStep(w, "create", "emit")',
               \A c \in Comments, s \in Schools :
                  Written(c)' /\ <<c, s>> \notin blurred' => Written(c),
               \A a \in air' : a \in air \/ ~(a.at = Home /\ a.what \in Comments)
                              \/ comment[a.what] # "none",
               \A r \in reactions' : r \in reactions \/ r[3] # "phone" \/ r \in logged
        PROVE  OfComments'
    <3>1. /\ \A a \in air' : a.at = Home /\ a.what \in Comments => comment[a.what] # "none"
          /\ \A r \in reactions' : r[3] = "phone" => r \in logged
      BY <1>0, <2>2 DEF HasRow
    <3>2. CommentsCounted' /\ CommentKnown' /\ HasRow'
      BY <1>0, <2>1, <2>2, <3>1, CommentFrame
    <3>. QED  BY <3>2 DEF OfComments
  <2>3. CASE UpsertReaction(w) \/ UpsertFails(w)
    <3>1. /\ h[w].op = "ingest" /\ h[w].step = "write" /\ Then(w, "emit") /\ UNCHANGED phones
          /\ reactions' = reactions \/ reactions' = reactions \union {x}
          /\ UpsertReaction(w) => x \in Rows
          /\ UpsertFails(w) => {h[w].topic} \X Schools \subseteq blurred'
      BY <2>3 DEF UpsertReaction, UpsertFails, AtStep, tables
    <3>2. SameCall(w) /\ h'[w].step = "emit" /\ OnlyOf(w)
      BY <3>1, ThenFacts
    <3>3. x \in logged /\ TopicOf(x) = h[w].topic
      BY <3>1, OnTopic DEF BlogTyped
    <3>4. ASSUME NEW c \in Comments, NEW s \in Schools, Written(c)', <<c, s>> \notin blurred'
          PROVE  Written(c)
      <4>1. c = x => FALSE
        BY <2>3, <3>1, <3>3, <3>4, TopicFacts
      <4>. QED  BY <3>1, <3>2, <3>4, <4>1 DEF Written, AtStep, OnlyOf, SameCall, phones
    <3>. QED  BY <2>2, <3>1, <3>2, <3>3, <3>4 DEF AtStep, SameCall, phones
  <2>4. CASE EmitSyncEvent(w)
    <3>1. /\ Done(w) /\ UNCHANGED <<reactions, acked>>
          /\ \A a \in air' : a \in air \/ a.what = Told(w)
      BY <2>4 DEF EmitSyncEvent, Broadcast, tables
    <3>2. CallEnds(w) /\ OnlyOf(w)
      BY <3>1, DoneFacts
    <3>3. \A c : Written(c)' => Written(c)
      BY <3>1, <3>2 DEF Written, AtStep, CallEnds, OnlyOf
    <3>4. Told(w) \in Comments => comment[Told(w)] # "none"
      BY <1>0, <2>4, EmitsKnown
    <3>. QED  BY <2>2, <3>1, <3>2, <3>3, <3>4 DEF CallEnds, AtStep
  <2>5. CASE AnswerEntry(w)
    <3>1. /\ Done(w) /\ UNCHANGED reactions /\ h[w].op = "ingest" /\ h[w].step = "emit"
          /\ \A a \in air' : a \in air \/ a.at \in Elsewhere
          /\ acked' = acked \/ acked' = acked \union {x}
      BY <2>5 DEF AnswerEntry, Broadcast, AtStep, tables
    <3>2. CallEnds(w) /\ OnlyOf(w)
      BY <3>1, DoneFacts
    <3>3. \A c : Written(c)' => Written(c)
      BY <3>1, <3>2 DEF Written, AtStep, CallEnds, OnlyOf
    <3>. QED  BY <2>2, <3>1, <3>2, <3>3, TopicFacts DEF CallEnds, AtStep
  <2>6. CASE CallDies(w) \/ StoreFlag(w)
    <3>1. Done(w) /\ UNCHANGED <<reactions, acked, air>>
      BY <2>6 DEF CallDies, StoreFlag, tables, phones
    <3>2. CallEnds(w) /\ OnlyOf(w)
      BY <3>1, DoneFacts
    <3>3. \A c : Written(c)' => Written(c)
      BY <3>1, <3>2 DEF Written, AtStep, CallEnds, OnlyOf
    <3>. QED  BY <2>2, <3>1, <3>2, <3>3 DEF CallEnds, AtStep
  <2>7. CASE WriteEdit(w) \/ WriteTakedown(w) \/ WriteRestore(w) \/ CloseReports(w)
             \/ WriteDelete(w) \/ InsertReport(w) \/ CountReports(w) \/ WriteReaction(w)
             \/ DropReaction(w) \/ CountLikes(w) \/ StoreLikes(w)
             \/ CloseFails(w) \/ CountReportsFails(w) \/ DeleteFails(w) \/ CountLikesFails(w)
             \/ StoreZero(w) \/ StoreLikesFails(w)
    <3>1. /\ UNCHANGED <<acked, air>>
          /\ h[w].op \in OfPost \union OfLikes \union {"report"}
          /\ \A r \in reactions' : r \in reactions \/ r = x
          /\ reactions' = reactions \/ h[w].op # "toggle" \/ x[3] = "web"
          /\ h[w].op # "toggle" => reactions' \subseteq reactions
      BY <1>0, <2>7, TopicFacts
      DEF WriteEdit, WriteTakedown, WriteRestore, CloseReports, WriteDelete, InsertReport,
          CountReports, WriteReaction, DropReaction, CountLikes, StoreLikes, CloseFails,
          CountReportsFails, DeleteFails, CountLikesFails, StoreZero, StoreLikesFails, AtStep,
          CallTyped, OfPost, OfLikes, OfComment, phones, tables
    <3>2. h'[w].step \notin {"append", "write"}
      <4>1. CASE CountReports(w) \/ CountLikes(w) \/ CountReportsFails(w)
        <5>1. PICK n : h' = [h EXCEPT ![w].step = "store", ![w].num = n] /\ n \in Nat
          <6>1. CASE CountReports(w)
            BY <6>1, PendingFinite, FS_CardinalityType DEF CountReports, BlogTyped, BlogTypeOK
          <6>2. CASE CountLikes(w)
            BY <6>2, RowsFinite, FS_Subset, FS_CardinalityType
            DEF CountLikes, BlogTyped, BlogTypeOK
          <6>3. CASE CountReportsFails(w)
            <7>1. h' = [h EXCEPT ![w].step = "store", ![w].num = 1]
              BY <6>3 DEF CountReportsFails
            <7>2. 1 \in Nat
              OBVIOUS
            <7>. QED  BY <7>1, <7>2, Zenon
          <6>. QED  BY <4>1, <6>1, <6>2, <6>3
        <5>. QED  BY <5>1, NumFacts
      <4>2. CASE WriteEdit(w)
        <5>1. PICK arg \in {"show", "hide"} : h' = [h EXCEPT ![w].step = "emit", ![w].arg = arg]
          BY <1>0, <4>2 DEF WriteEdit, AtStep, CallTyped, OfComment, OfPost
        <5>. QED  BY <5>1, ArgFacts
      <4>3. CASE Done(w)
        BY <4>3, DoneFacts DEF CallEnds
      <4>4. CASE \E to \in {"emit", "close", "count", "zero"} : Then(w, to)
        BY <4>4, ThenFacts
      <4>. QED
        BY <2>7, <4>1, <4>2, <4>3, <4>4
        DEF WriteTakedown, WriteRestore, CloseReports, WriteDelete, InsertReport, WriteReaction,
            DropReaction, StoreLikes, CloseFails, DeleteFails, CountLikesFails, StoreZero,
            StoreLikesFails, Counted
    <3>3. h'[w].op # "create" /\ h'[w].op # "ingest"
      BY <1>0, <3>1 DEF GoesOn, SameCall, CallEnds, OfPost, OfLikes
    <3>4. \A c : Written(c)' => Written(c)
      BY <1>0, <3>1, <3>3 DEF Written, AtStep, GoesOn, OnlyOf
    <3>. QED  BY <2>2, <3>1, <3>2, <3>3, <3>4 DEF AtStep
  <2>. QED  BY <1>3, <2>3, <2>4, <2>5, <2>6, <2>7 DEF CallSteps
<1>. QED  BY <1>1, <1>2, <1>3

-----------------------------------------------------------------------------
(* Likes are counted by whoever changed the reactions, alone. *)
Counting(c) == c.topic = Likes /\ c.step \in {"count", "store", "zero"}
HomeLikes == <<Likes, Home>>

(* Where nothing is blurred, one request at a time is about likes. *)
LEMMA LikesAlone ==
    ASSUME BlogTyped, ByItself, HomeLikes \notin blurred, NEW w \in Workers, NEW v \in Workers,
           h[w].topic = Likes, h[w].step # "idle", h[v].topic = Likes, h[v].step # "idle"
    PROVE  v = w
<1>1. Likes \in Topics /\ Likes \notin Comments /\ Home \in Schools
  BY TopicsAssumption DEF Topics, Schools
<1>. QED  BY <1>1 DEF ByItself, Matters, HomeLikes

(* Likes stay counted while nobody touches them. *)
LEMMA LikesFrame ==
    ASSUME LikesKnown, UNCHANGED <<reactions, likes, uncounted>>, blurred \subseteq blurred',
           \A v \in Workers : h'[v] = h[v] \/ (~Counting(h[v]) /\ ~Counting(h'[v]))
                              \/ HomeLikes \in blurred'
    PROVE  LikesKnown'
BY DEF LikesKnown, Counting, HomeLikes

(* Every step keeps likes counted, or somebody is counting them. *)
LEMMA LikesStep == BlogTyped /\ ByItself /\ LikesKnown /\ [BlogNext]_blogVars => LikesKnown'
<1> SUFFICES ASSUME BlogTyped, ByItself, LikesKnown, [BlogNext]_blogVars  PROVE LikesKnown'
  OBVIOUS
<1>1. ASSUME NEW w \in Workers, CallStarts(w)  PROVE LikesKnown'
  <2>1. /\ Started(w) /\ UNCHANGED <<reactions, likes, uncounted>> /\ blurred \subseteq blurred'
        /\ OnlyOf(w) /\ h[w].step = "idle" /\ h'[w].step \in {"write", "append"}
    BY <1>1, StartFacts DEF Started, tables
  <2>. QED  BY <2>1, LikesFrame DEF Counting, OnlyOf
<1>2. ASSUME NEW w \in Workers, CallSteps(w) \/ CallDies(w)  PROVE LikesKnown'
  <2>0. /\ GoesOn(w) /\ OnlyOf(w) /\ blurred \subseteq blurred' /\ h[w].step # "idle"
        /\ CallTyped(h[w])
    BY <1>2, ProgressFacts, CallFields DEF Progress, GoesOn
  <2>1. CASE CallDies(w)
    <3>1. /\ UNCHANGED <<reactions, likes, uncounted>> /\ Done(w)
          /\ h[w].op \in {"ingest", "report"} \/ {h[w].topic} \X Schools \subseteq blurred'
      BY <2>1 DEF CallDies, tables
    <3>2. ~Counting(h'[w])
      BY <3>1, DoneFacts DEF CallEnds, Counting
    <3>3. ~Counting(h[w]) \/ HomeLikes \in blurred'
      BY <2>0, <3>1, TopicFacts DEF CallTyped, Counting, HomeLikes, OfComment, OfPost
    <3>. QED  BY <2>0, <3>1, <3>2, <3>3, LikesFrame DEF OnlyOf
  <2>2. CASE h[w].topic # Likes /\ ~CallDies(w)
    <3>1. h'[w].topic # Likes \/ h'[w].step = "idle"
      BY <2>0, <2>2 DEF GoesOn, SameCall, CallEnds
    <3>2. /\ ~UpsertReaction(w) /\ ~WriteReaction(w) /\ ~DropReaction(w) /\ ~StoreLikes(w)
          /\ ~StoreZero(w) /\ ~StoreLikesFails(w)
      BY <2>0, <2>2, TopicFacts
      DEF UpsertReaction, WriteReaction, DropReaction, StoreLikes, StoreZero, StoreLikesFails,
          AtStep, CallTyped, OfComment, OfPost
    <3>3. UNCHANGED <<reactions, likes, uncounted>>
      BY <1>2, <2>2, <3>2
      DEF CallSteps, AppendEntry, UpsertComment, UpsertFails, InsertComment, MarkDeleted,
          MarkModerated, WriteEdit, WriteTakedown, WriteRestore, CloseReports, WriteDelete,
          InsertReport, CountReports, StoreFlag, CountLikes, EmitSyncEvent, AnswerEntry,
          CloseFails, CountReportsFails, DeleteFails, CountLikesFails, tables, blurs
    <3>. QED  BY <2>0, <2>2, <3>1, <3>3, LikesFrame DEF Counting, OnlyOf
  <2>3. CASE h[w].topic = Likes /\ ~CallDies(w)
    <3> SUFFICES ASSUME HomeLikes \notin blurred'
                 PROVE  /\ \A v \in Workers :
                             h'[v].topic = Likes /\ h'[v].step = "store" =>
                                h'[v].num = Cardinality(reactions')
                        /\ \/ uncounted' \/ likes' = Cardinality(reactions')
                           \/ \E v \in Workers : Counting(h'[v])
      BY DEF LikesKnown, Counting, HomeLikes
    <3>0. HomeLikes \notin blurred
      BY <2>0
    <3>1. \A v \in Workers : v # w => ~Counting(h[v]) /\ ~Counting(h'[v])
      <4> TAKE v \in Workers
      <4> HAVE v # w
      <4>1. ~Counting(h[v])
        BY <2>0, <2>3, <3>0, LikesAlone DEF Counting
      <4>. QED  BY <2>0, <4>1 DEF OnlyOf
    <3>2. h[w].op \in OfLikes \union {"ingest"}
      BY <2>0, <2>3, TopicFacts DEF CallTyped, OfComment, OfPost, OfLikes
    <3>3. CASE CountLikes(w)
      <4>1. h' = [h EXCEPT ![w].step = "store", ![w].num = Cardinality(reactions)]
            /\ reactions' = reactions /\ Cardinality(reactions) \in Nat
        BY <3>3, RowsFinite, FS_Subset, FS_CardinalityType
        DEF CountLikes, tables, BlogTyped, BlogTypeOK
      <4>2. SameCall(w) /\ h'[w].num = Cardinality(reactions) /\ h'[w].step = "store"
        BY <4>1, NumFacts
      <4>. QED  BY <2>3, <3>1, <4>1, <4>2 DEF Counting, SameCall
    <3>4. CASE StoreLikes(w)
      <4>1. /\ likes' = h[w].num /\ reactions' = reactions /\ h[w].step = "store"
            /\ Done(w) \/ Then(w, "emit")
        BY <3>4 DEF StoreLikes, Counted
      <4>2. h'[w].step \in {"idle", "emit"}
        BY <4>1, DoneFacts, ThenFacts DEF CallEnds
      <4>3. likes' = Cardinality(reactions')
        BY <2>3, <3>0, <4>1 DEF LikesKnown, HomeLikes
      <4>. QED  BY <3>1, <4>2, <4>3 DEF Counting
    <3>5. CASE WriteReaction(w) \/ DropReaction(w)
      <4>1. \/ Then(w, "count")
            \/ Done(w) /\ UNCHANGED <<reactions, likes, uncounted>> /\ h[w].step = "write"
        BY <3>5 DEF WriteReaction, DropReaction, AtStep, blurs
      <4>2. CASE Then(w, "count")
        <5>1. h'[w].step = "count" /\ h'[w].topic = Likes
          BY <2>3, <4>2, ThenFacts DEF SameCall
        <5>. QED  BY <3>1, <5>1 DEF Counting
      <4>3. CASE Done(w) /\ UNCHANGED <<reactions, likes, uncounted>> /\ h[w].step = "write"
        <5>1. h'[w].step = "idle"
          BY <4>3, DoneFacts DEF CallEnds
        <5>2. uncounted \/ likes = Cardinality(reactions)
          BY <3>0, <3>1, <4>3 DEF LikesKnown, Counting, HomeLikes
        <5>. QED  BY <3>1, <4>3, <5>1, <5>2 DEF Counting
      <4>. QED  BY <4>1, <4>2, <4>3
    <3>6. CASE UpsertReaction(w)
      <4>1. /\ Then(w, "emit") /\ h[w].step = "write" /\ likes' = likes
            /\ uncounted' = (uncounted \/ reactions' # reactions)
        BY <3>6 DEF UpsertReaction, AtStep
      <4>2. h'[w].step = "emit"
        BY <4>1, ThenFacts
      <4>3. uncounted \/ likes = Cardinality(reactions)
        BY <3>0, <3>1, <4>1 DEF LikesKnown, Counting, HomeLikes
      <4>. QED  BY <3>1, <4>1, <4>2, <4>3 DEF Counting
    <3>7. CASE AppendEntry(w) \/ UpsertFails(w) \/ EmitSyncEvent(w) \/ AnswerEntry(w)
      <4>1. /\ UNCHANGED <<reactions, likes, uncounted>> /\ h[w].step \in {"append", "write", "emit"}
            /\ Done(w) \/ Then(w, "write") \/ Then(w, "emit")
        BY <3>7 DEF AppendEntry, UpsertFails, EmitSyncEvent, AnswerEntry, AtStep, tables, blurs
      <4>2. h'[w].step \in {"idle", "write", "emit"}
        BY <4>1, DoneFacts, ThenFacts DEF CallEnds
      <4>3. uncounted \/ likes = Cardinality(reactions)
        BY <3>0, <3>1, <4>1 DEF LikesKnown, Counting, HomeLikes
      <4>. QED  BY <3>1, <4>1, <4>2, <4>3 DEF Counting
    <3>8. ~(UpsertComment(w) \/ InsertComment(w) \/ MarkDeleted(w) \/ MarkModerated(w)
            \/ WriteEdit(w) \/ WriteTakedown(w) \/ WriteRestore(w) \/ CloseReports(w)
            \/ WriteDelete(w) \/ InsertReport(w) \/ CountReports(w) \/ StoreFlag(w)
            \/ CloseFails(w) \/ CountReportsFails(w))
      <4>1. UpsertComment(w) => FALSE
        <5>1. UpsertComment(w) => h[w].on \in Comments /\ h[w].op = "ingest"
          BY DEF UpsertComment, AtStep
        <5>. QED  BY <2>3, <5>1, OnTopic, TopicFacts
      <4>. QED
        BY <3>2, <4>1
        DEF InsertComment, MarkDeleted, MarkModerated, WriteEdit, WriteTakedown, WriteRestore,
            CloseReports, WriteDelete, InsertReport, CountReports, StoreFlag, CloseFails,
            CountReportsFails, AtStep, OfLikes
    <3>9. CASE CountLikesFails(w)
      <4>1. h'[w].step = "zero" /\ h'[w].topic = Likes
        BY <2>3, <3>9, ThenFacts DEF CountLikesFails, SameCall
      <4>. QED  BY <3>1, <4>1 DEF Counting
    <3>10. CASE StoreZero(w) \/ StoreLikesFails(w)
      <4>1. uncounted' /\ (Done(w) \/ Then(w, "emit"))
        BY <3>10 DEF StoreZero, StoreLikesFails, Counted
      <4>2. h'[w].step \in {"idle", "emit"}
        BY <4>1, DoneFacts, ThenFacts DEF CallEnds
      <4>. QED  BY <3>1, <4>1, <4>2 DEF Counting
    <3>11. ~DeleteFails(w)
      BY <2>3, TopicFacts DEF DeleteFails, HomeLikes
    <3>. QED
      BY <1>2, <2>3, <3>3, <3>4, <3>5, <3>6, <3>7, <3>8, <3>9, <3>10, <3>11 DEF CallSteps
  <2>. QED  BY <2>1, <2>2, <2>3
<1>3. ASSUME NEW u \in Reporters, ResolveReport(u)  PROVE LikesKnown'
  BY <1>3, LikesFrame DEF ResolveReport, blurs
<1>4. ASSUME NEW a \in air, Land(a) \/ Miss(a)  PROVE LikesKnown'
  BY <1>4, LikesFrame DEF Land, Miss, tables, blurs
<1>5. CASE UNCHANGED blogVars
  BY <1>5, LikesFrame DEF blogVars, tables, blurs
<1>. QED  BY <1>1, <1>2, <1>3, <1>4, <1>5 DEF BlogNext

-----------------------------------------------------------------------------
(* Reports are filed once by each user whom nothing blurs. *)
ReportsRight == ReportsKnown /\ FlagNeedsReporters

(* Those who reported can be counted. *)
LEMMA ReportingFinite ==
    IsFiniteSet(Reporting) /\ Cardinality(Reporting) \in Nat
BY SizesAssumption, FS_Subset, FS_CardinalityType DEF Reporting

(* They are never fewer. *)
LEMMA ReportingGrows ==
    ASSUME reports \in [Reporters -> [pending : Nat, closed : Nat]],
           \A u \in Reporters : Filed(u) > 0 => Filed(u)' > 0
    PROVE  /\ Cardinality(Reporting) <= Cardinality(Reporting)'
           /\ Cardinality(Reporting) \in Nat /\ Cardinality(Reporting)' \in Nat
<1>. PICK S \in SUBSET Reporters, T \in SUBSET Reporters : S = Reporting /\ T = Reporting'
  BY DEF Reporting
<1>1. S \in SUBSET T
  BY DEF Reporting
<1>2. IsFiniteSet(T)
  BY SizesAssumption, FS_Subset
<1>. QED  BY <1>1, <1>2, FS_Subset, FS_CardinalityType

(* Pending reports are no more than the users who filed, unless blurred. *)
LEMMA PendingBound ==
    ASSUME BlogTyped, ReportsKnown
    PROVE  NotedBy(Cardinality(PendingReports))
<1> SUFFICES ASSUME \A u \in Reporters : ~Exempt(u)
             PROVE  Cardinality(PendingReports) <= Cardinality(Reporting)
  <2>1. Cardinality(PendingReports) \in Nat
    BY PendingFinite, FS_CardinalityType DEF BlogTyped, BlogTypeOK
  <2>. QED  BY <2>1, ReportingFinite, SizesAssumption DEF NotedBy
<1>1. \A u \in Reporters : reports[u].pending \in Nat /\ reports[u].closed \in Nat
  BY DEF BlogTyped, BlogTypeOK
<1>2. \A u \in Reporters : Filed(u) <= 1
  BY DEF ReportsKnown
<1>3. \A u \in Reporters : reports[u].pending <= 1
  BY <1>1, <1>2 DEF Filed
<1>4. \A p \in PendingReports : \E u \in Reporting : p = <<u, 1>>
  <2> TAKE p \in PendingReports
  <2>1. PICK u \in Reporters : \E n \in 1..reports[u].pending : p = <<u, n>>
    BY DEF PendingReports
  <2>2. PICK n \in 1..reports[u].pending : p = <<u, n>>
    BY <2>1
  <2>3. n = 1 /\ reports[u].pending = 1
    BY <1>1, <1>3
  <2>4. Filed(u) > 0
    BY <1>1, <2>3 DEF Filed
  <2>. QED  BY <2>2, <2>3, <2>4 DEF Reporting
<1>. DEFINE f == [p \in PendingReports |-> p[1]]
<1>5. f \in [PendingReports -> Reporting]
  BY <1>4
<1>6. \A p, q \in PendingReports : f[p] = f[q] => p = q
  BY <1>4
<1>. HIDE DEF f
<1>7. f \in Injection(PendingReports, Reporting)
  BY <1>5, <1>6, Fun_IsInj
<1>. QED  BY <1>7, ReportingFinite, FS_Injection

(* Reports stay right while nobody files, notes or flags. *)
LEMMA ReportsFrame ==
    ASSUME BlogTyped, ReportsRight, blurred \subseteq blurred', unseen' = unseen,
           \A u \in Reporters : Filed(u)' = Filed(u),
           post'.flagged => post.flagged,
           \A v \in Workers : \/ h'[v] = h[v]
                              \/ ~AtStep(v, "report", "write")' /\ ~AtStep(v, "report", "store")'
    PROVE  ReportsRight'
<1>1. Reporting' = Reporting
  BY DEF Reporting
<1>2. \A n : NotedBy(n) => NotedBy(n)'
  BY <1>1 DEF NotedBy, Exempt
<1>3. FlagNeedsReporters'
  BY <1>1 DEF FlagNeedsReporters, ReportsRight, Reporting
<1>4. \A u \in Reporters : ~Exempt(u)' =>
          /\ Filed(u)' <= 1
          /\ \A w \in Workers : AtStep(w, "report", "write")' /\ h'[w].on = u => Filed(u)' = 0
  BY DEF ReportsRight, ReportsKnown, AtStep, Exempt
<1>5. \A w \in Workers : AtStep(w, "report", "store")' => NotedBy(h[w].num)'
  <2> TAKE w \in Workers
  <2> HAVE AtStep(w, "report", "store")'
  <2>1. h'[w] = h[w] /\ NotedBy(h[w].num)
    BY DEF ReportsRight, ReportsKnown, AtStep
  <2>2. PICK n : n = h[w].num
    OBVIOUS
  <2>. QED  BY <1>2, <2>1, <2>2
<1>. QED  BY <1>3, <1>4, <1>5 DEF ReportsRight, ReportsKnown

(* Every step keeps reports right. *)
LEMMA ReportsStep == BlogTyped /\ ByItself /\ ReportsRight /\ [BlogNext]_blogVars => ReportsRight'
<1> SUFFICES ASSUME BlogTyped, ByItself, ReportsRight, [BlogNext]_blogVars  PROVE ReportsRight'
  OBVIOUS
<1>0. /\ reports \in [Reporters -> [pending : Nat, closed : Nat]]
      /\ post \in [deleted : BOOLEAN, down : BOOLEAN, published : BOOLEAN, flagged : BOOLEAN]
  BY DEF BlogTyped, BlogTypeOK
<1>1. ASSUME NEW w \in Workers, CallStarts(w)  PROVE ReportsRight'
  <2>1. /\ Started(w) /\ StartsOn(w) /\ UNCHANGED <<reports, post>> /\ blurred \subseteq blurred'
        /\ OnlyOf(w) /\ h'[w].step \in {"write", "append"} /\ CallTyped(h'[w])
        /\ unseen \subseteq unseen'
    BY <1>1, StartFacts DEF Started, tables
  <2>2. FlagNeedsReporters' /\ \A n : NotedBy(n) => NotedBy(n)'
    BY <2>1 DEF ReportsRight, FlagNeedsReporters, NotedBy, Reporting, Filed, Exempt
  <2>3. ASSUME NEW u \in Reporters, ~Exempt(u)'
        PROVE  /\ Filed(u)' <= 1
               /\ \A v \in Workers : AtStep(v, "report", "write")' /\ h'[v].on = u => Filed(u)' = 0
    <3>1. /\ Filed(u)' = Filed(u) /\ Filed(u) <= 1 /\ Filed(u) \in Nat
          /\ \A v \in Workers : AtStep(v, "report", "write") /\ h[v].on = u => Filed(u) = 0
      BY <1>0, <2>1, <2>3 DEF ReportsRight, ReportsKnown, Filed, Exempt
    <3>2. AtStep(w, "report", "write")' /\ h'[w].on = u => Filed(u) # 1
      BY <2>1, <2>3 DEF StartsOn, AtStep, Exempt
    <3>. QED  BY <2>1, <3>1, <3>2 DEF OnlyOf, AtStep
  <2>4. ASSUME NEW v \in Workers, AtStep(v, "report", "store")'  PROVE NotedBy(h[v].num)'
    <3>1. h'[v] = h[v] /\ NotedBy(h[v].num)
      BY <2>1, <2>4 DEF ReportsRight, ReportsKnown, AtStep, OnlyOf
    <3>2. PICK n : n = h[v].num
      OBVIOUS
    <3>. QED  BY <2>2, <3>1, <3>2
  <2>. QED  BY <2>2, <2>3, <2>4 DEF ReportsRight, ReportsKnown
<1>2. ASSUME NEW w \in Workers, CallSteps(w) \/ CallDies(w)  PROVE ReportsRight'
  <2>0. /\ GoesOn(w) /\ OnlyOf(w) /\ blurred \subseteq blurred' /\ h[w].step # "idle"
        /\ CallTyped(h[w]) /\ unseen' = unseen
    BY <1>2, ProgressFacts, CallFields DEF Progress, GoesOn
  <2>1. CASE InsertReport(w)
    <3>. PICK x \in Reporters : x = h[w].on /\ h[w].topic = x
      BY <2>0, <2>1 DEF InsertReport, AtStep, CallTyped, OfComment, OfPost
    <3>1. /\ h[w].op = "report" /\ h[w].step = "write" /\ Then(w, "count")
          /\ reports' = [reports EXCEPT ![x].pending = @ + 1] /\ UNCHANGED <<post, blurred>>
      BY <2>1 DEF InsertReport, AtStep, blurs
    <3>2. h'[w].step = "count"
      BY <3>1, ThenFacts
    <3>3. \A u \in Reporters : /\ Filed(u)' = IF u = x THEN Filed(u) + 1 ELSE Filed(u)
                               /\ Filed(u) \in Nat
      BY <1>0, <3>1 DEF Filed
    <3>4. /\ Cardinality(Reporting) <= Cardinality(Reporting)'
          /\ Cardinality(Reporting) \in Nat /\ Cardinality(Reporting)' \in Nat
      BY <1>0, <3>3, ReportingGrows
    <3>5. FlagNeedsReporters' /\ \A n : NotedBy(n) => NotedBy(n)'
      <4>1. Cardinality(Reporting) >= Threshold => Cardinality(Reporting)' >= Threshold
        BY <3>4, SizesAssumption
      <4>2. \A n : NotedBy(n) => NotedBy(n)'
        BY <2>0, <3>1, <4>1 DEF NotedBy, Exempt
      <4>3. FlagNeedsReporters <=> (post.flagged => Cardinality(Reporting) >= Threshold
                                      \/ \E u \in Reporters : Exempt(u))
        BY DEF FlagNeedsReporters, Reporting, Exempt
      <4>4. FlagNeedsReporters' <=> (post'.flagged => Cardinality(Reporting)' >= Threshold
                                      \/ \E u \in Reporters : Exempt(u)')
        BY DEF FlagNeedsReporters, Reporting, Exempt
      <4>. QED  BY <2>0, <3>1, <4>1, <4>2, <4>3, <4>4 DEF ReportsRight, Exempt
    <3>6. ASSUME NEW u \in Reporters, ~Exempt(u)'
          PROVE  /\ Filed(u)' <= 1
                 /\ \A v \in Workers :
                       AtStep(v, "report", "write")' /\ h'[v].on = u => Filed(u)' = 0
      <4>1. /\ <<u, Home>> \notin blurred /\ Filed(u) <= 1
            /\ \A v \in Workers : AtStep(v, "report", "write") /\ h[v].on = u => Filed(u) = 0
        BY <2>0, <3>1, <3>6 DEF ReportsRight, ReportsKnown, Exempt
      <4>2. CASE u # x
        BY <2>0, <3>2, <3>3, <4>1, <4>2 DEF OnlyOf, AtStep
      <4>3. CASE u = x
        <5>1. Filed(u)' = 1
          BY <3>1, <3>3, <4>1, <4>3 DEF AtStep
        <5>2. ASSUME NEW v \in Workers, v # w, AtStep(v, "report", "write"), h[v].on = u
              PROVE  FALSE
          <6>1. h[v].topic = u
            BY <5>2, CallFields DEF AtStep, CallTyped, OfComment, OfPost
          <6>2. Matters(v, u, Home) /\ Matters(w, u, Home) /\ u \in Topics /\ Home \in Schools
            BY <3>1, <4>3, <5>2, <6>1, TopicFacts DEF Matters, AtStep, Topics
          <6>. QED  BY <4>1, <5>2, <6>2 DEF ByItself
        <5>. QED  BY <2>0, <3>2, <5>1, <5>2 DEF OnlyOf, AtStep
      <4>. QED  BY <4>2, <4>3
    <3>7. ASSUME NEW v \in Workers, AtStep(v, "report", "store")'  PROVE NotedBy(h[v].num)'
      <4>1. h'[v] = h[v] /\ NotedBy(h[v].num)
        BY <2>0, <3>2, <3>7 DEF ReportsRight, ReportsKnown, AtStep, OnlyOf
      <4>2. PICK n : n = h[v].num
        OBVIOUS
      <4>. QED  BY <3>5, <4>1, <4>2
    <3>. QED  BY <3>5, <3>6, <3>7 DEF ReportsRight, ReportsKnown
  <2>2. CASE CountReports(w) \/ CountReportsFails(w)
    <3>4. /\ NotedBy(Cardinality(PendingReports)) /\ NotedBy(1)
          /\ Cardinality(PendingReports) \in Nat
      BY <1>0, PendingBound, PendingFinite, FS_CardinalityType, SizesAssumption
      DEF ReportsRight, NotedBy
    <3>. PICK n \in Nat : /\ NotedBy(n) /\ h' = [h EXCEPT ![w].step = "store", ![w].num = n]
      BY <2>2, <3>4 DEF CountReports, CountReportsFails
    <3>1. h' = [h EXCEPT ![w].step = "store", ![w].num = n] /\ UNCHANGED <<reports, post, blurred>>
      BY <2>2 DEF CountReports, CountReportsFails, tables, blurs
    <3>2. h'[w].step = "store" /\ h'[w].num = n
      BY <3>1, NumFacts
    <3>3. FlagNeedsReporters' /\ \A k : NotedBy(k) => NotedBy(k)'
      BY <2>0, <3>1 DEF ReportsRight, FlagNeedsReporters, NotedBy, Reporting, Filed, Exempt
    <3>5. ASSUME NEW v \in Workers, AtStep(v, "report", "store")'  PROVE NotedBy(h[v].num)'
      <4>1. CASE v = w
        BY <3>2, <3>3, <4>1
      <4>2. CASE v # w
        <5>1. h'[v] = h[v] /\ NotedBy(h[v].num)
          BY <2>0, <3>5, <4>2 DEF ReportsRight, ReportsKnown, AtStep, OnlyOf
        <5>2. PICK k : k = h[v].num
          OBVIOUS
        <5>. QED  BY <3>3, <5>1, <5>2
      <4>. QED  BY <4>1, <4>2
    <3>6. ASSUME NEW u \in Reporters, ~Exempt(u)'
          PROVE  /\ Filed(u)' <= 1
                 /\ \A v \in Workers :
                       AtStep(v, "report", "write")' /\ h'[v].on = u => Filed(u)' = 0
      BY <2>0, <3>1, <3>2, <3>6 DEF ReportsRight, ReportsKnown, Filed, AtStep, OnlyOf, Exempt
    <3>. QED  BY <3>3, <3>5, <3>6 DEF ReportsRight, ReportsKnown
  <2>3. CASE StoreFlag(w)
    <3>1. /\ h[w].op = "report" /\ h[w].step = "store" /\ Done(w) /\ UNCHANGED <<reports, blurred>>
          /\ post' = [post EXCEPT !.flagged = h[w].num >= Threshold]
      BY <2>3 DEF StoreFlag, AtStep, blurs
    <3>2. h'[w].step = "idle"
      BY <3>1, DoneFacts DEF CallEnds
    <3>3. NotedBy(h[w].num)
      BY <3>1 DEF ReportsRight, ReportsKnown, AtStep
    <3>4. post'.flagged => h[w].num >= Threshold
      BY <1>0, <3>1
    <3>5. FlagNeedsReporters'
      BY <2>0, <3>1, <3>3, <3>4 DEF FlagNeedsReporters, NotedBy, Reporting, Filed, Exempt
    <3>6. ReportsKnown'
      <4>1. \A k : NotedBy(k) => NotedBy(k)'
        BY <2>0, <3>1 DEF NotedBy, Reporting, Filed, Exempt
      <4>2. ASSUME NEW v \in Workers, AtStep(v, "report", "store")'  PROVE NotedBy(h[v].num)'
        <5>1. h'[v] = h[v] /\ NotedBy(h[v].num)
          BY <2>0, <3>2, <4>2 DEF ReportsRight, ReportsKnown, AtStep, OnlyOf
        <5>2. PICK k : k = h[v].num
          OBVIOUS
        <5>. QED  BY <4>1, <5>1, <5>2
      <4>3. ASSUME NEW u \in Reporters, ~Exempt(u)'
            PROVE  /\ Filed(u)' <= 1
                   /\ \A v \in Workers :
                         AtStep(v, "report", "write")' /\ h'[v].on = u => Filed(u)' = 0
        BY <2>0, <3>1, <3>2, <4>3 DEF ReportsRight, ReportsKnown, Filed, AtStep, OnlyOf, Exempt
      <4>. QED  BY <4>2, <4>3 DEF ReportsKnown
    <3>. QED  BY <3>5, <3>6 DEF ReportsRight
  <2>4. CASE ~InsertReport(w) /\ ~CountReports(w) /\ ~CountReportsFails(w) /\ ~StoreFlag(w)
    <3>1. \A u \in Reporters : Filed(u)' = Filed(u)
      <4>1. CASE CloseReports(w)
        BY <1>0, <4>1 DEF CloseReports, Filed
      <4>2. CASE ~CloseReports(w)
        <5>1. reports' = reports
          BY <1>2, <2>4, <4>2
          DEF CallSteps, CallDies, AppendEntry, UpsertComment, UpsertReaction, UpsertFails,
              InsertComment, MarkDeleted, MarkModerated, WriteEdit, WriteTakedown, WriteRestore,
              WriteDelete, WriteReaction, DropReaction, CountLikes, StoreLikes, EmitSyncEvent,
              AnswerEntry, CloseFails, DeleteFails, CountLikesFails, StoreZero, StoreLikesFails,
              tables
        <5>. QED  BY <5>1 DEF Filed
      <4>. QED  BY <4>1, <4>2
    <3>2. post'.flagged => post.flagged
      <4>1. CASE WriteEdit(w) \/ WriteTakedown(w) \/ WriteRestore(w) \/ WriteDelete(w)
        BY <1>0, <4>1 DEF WriteEdit, WriteTakedown, WriteRestore, WriteDelete
      <4>2. CASE ~(WriteEdit(w) \/ WriteTakedown(w) \/ WriteRestore(w) \/ WriteDelete(w))
        <5>1. post' = post
          BY <1>2, <2>4, <4>2
          DEF CallSteps, CallDies, AppendEntry, UpsertComment, UpsertReaction, UpsertFails,
              InsertComment, MarkDeleted, MarkModerated, CloseReports, WriteReaction, DropReaction,
              CountLikes, StoreLikes, EmitSyncEvent, AnswerEntry, CloseFails, DeleteFails,
              CountLikesFails, StoreZero, StoreLikesFails, tables
        <5>. QED  BY <5>1
      <4>. QED  BY <4>1, <4>2
    <3>3. h[w].op # "report" \/ CallDies(w)
      BY <1>2, <2>0, <2>4, TopicFacts
      DEF CallSteps, AppendEntry, UpsertComment, UpsertReaction, UpsertFails, InsertComment,
          MarkDeleted, MarkModerated, WriteEdit, WriteTakedown, WriteRestore, CloseReports,
          WriteDelete, WriteReaction, DropReaction, CountLikes, StoreLikes, EmitSyncEvent,
          AnswerEntry, CloseFails, DeleteFails, CountLikesFails, StoreZero, StoreLikesFails, AtStep,
          CallTyped, OfComment, OfPost, OfLikes
    <3>4. h'[w].op # "report" \/ h'[w].step = "idle"
      <4>1. CASE CallDies(w)
        <5>1. Done(w)
          BY <4>1 DEF CallDies
        <5>. QED  BY <5>1, DoneFacts DEF CallEnds
      <4>2. CASE h[w].op # "report"
        BY <2>0, <4>2 DEF GoesOn, SameCall, CallEnds
      <4>. QED  BY <3>3, <4>1, <4>2
    <3>. QED  BY <2>0, <3>1, <3>2, <3>4, ReportsFrame DEF OnlyOf, AtStep
  <2>. QED  BY <2>1, <2>2, <2>3, <2>4
<1>3. ASSUME NEW u \in Reporters, ResolveReport(u)  PROVE ReportsRight'
  <2>1. \A v \in Reporters : Filed(v)' = Filed(v)
    <3>1. /\ reports[u].pending > 0
          /\ reports' = [reports EXCEPT ![u].pending = @ - 1, ![u].closed = @ + 1]
      BY <1>3 DEF ResolveReport
    <3>2. reports' = [reports EXCEPT ![u] = [pending |-> reports[u].pending - 1,
                                             closed |-> reports[u].closed + 1]]
      BY <1>0, <3>1
    <3>3. reports'[u].pending = reports[u].pending - 1 /\ reports'[u].closed = reports[u].closed + 1
          /\ \A v \in Reporters : v # u => reports'[v] = reports[v]
      BY <1>0, <3>2
    <3>4. reports[u].pending \in Nat /\ reports[u].closed \in Nat
      BY <1>0
    <3>. QED  BY <3>3, <3>4 DEF Filed
  <2>. QED  BY <1>3, <2>1, ReportsFrame DEF ResolveReport, blurs
<1>4. ASSUME NEW a \in air, Land(a) \/ Miss(a)  PROVE ReportsRight'
  BY <1>4, ReportsFrame DEF Land, Miss, tables, blurs, Filed
<1>5. CASE UNCHANGED blogVars
  BY <1>5, ReportsFrame DEF blogVars, tables, blurs, Filed
<1>. QED  BY <1>1, <1>2, <1>3, <1>4, <1>5 DEF BlogNext

(* Comments are as they were when a report is resolved or an append lands. *)
LEMMA RestKnown ==
    ASSUME OfComments, UNCHANGED <<comment, count, logged, acked, h, reactions>>,
           blurred \subseteq blurred', air' \subseteq air
    PROVE  OfComments'
<1>1. CommentsCounted' /\ CommentKnown'
  BY CountStays DEF OfComments, CommentKnown, AtStep, Busy, Live
<1>2. \A c : Written(c)' <=> Written(c)
  BY DEF Written, AtStep
<1>3. HasRow'
  BY <1>2 DEF OfComments, HasRow
<1>. QED  BY <1>1, <1>3 DEF OfComments

(* No step makes what is known of comments wrong. *)
LEMMA CommentsStep == BlogTyped /\ OfComments /\ [BlogNext]_blogVars => OfComments'
<1> SUFFICES ASSUME BlogTyped, OfComments, [BlogNext]_blogVars  PROVE OfComments'
  OBVIOUS
<1>1. ASSUME NEW w \in Workers, CallStarts(w)  PROVE OfComments'
  BY <1>1, StartFacts, StartsKnown
<1>2. ASSUME NEW w \in Workers, CallSteps(w) \/ CallDies(w)  PROVE OfComments'
  BY <1>2, StepsKnown
<1>3. ASSUME NEW u \in Reporters, ResolveReport(u)  PROVE OfComments'
  BY <1>3, RestKnown DEF ResolveReport, phones, blurs
<1>4. ASSUME NEW a \in air, Land(a) \/ Miss(a)  PROVE OfComments'
  BY <1>4, RestKnown DEF Land, Miss, tables, blurs
<1>5. CASE UNCHANGED blogVars
  BY <1>5, RestKnown DEF blogVars, tables, phones, blurs
<1>. QED  BY <1>1, <1>2, <1>3, <1>4, <1>5 DEF BlogNext

-----------------------------------------------------------------------------
(* The invariant holds at first, and no step breaks it. *)
LEMMA BlogInitIInv == BlogInit => BlogIInv
<1> SUFFICES ASSUME BlogInit  PROVE BlogIInv
  OBVIOUS
<1>1. \A w \in Workers : h[w] = NoCall
  BY DEF BlogInit
<1>2. \A w \in Workers : h[w].op = "idle" /\ h[w].step = "idle"
  BY <1>1 DEF NoCall
<1>3. BlogTyped
  <2>1. h \in [Workers -> Handler]
    BY DEF BlogInit, NoCall, Handler
  <2>2. count \in Nat
    BY LiveFinite DEF BlogInit, LiveOnes
  <2>3. shown \subseteq Things \X Schools
    BY DEF BlogInit, Readers, Schools
  <2>4. requests \in 0..MaxRequests /\ mishaps \in 0..MaxMishaps
    BY SizesAssumption DEF BlogInit
  <2>5. /\ platform \in BOOLEAN /\ uncounted \in BOOLEAN /\ likes \in Nat /\ reactions \subseteq Rows
        /\ post \in [deleted : BOOLEAN, down : BOOLEAN, published : BOOLEAN, flagged : BOOLEAN]
        /\ comment \in [Comments -> {"none", "visible", "hidden", "deleted"}]
        /\ reports \in [Reporters -> [pending : Nat, closed : Nat]]
        /\ air = {} /\ logged = {} /\ acked = {} /\ blurred = {} /\ unseen = {}
    BY DEF BlogInit
  <2>6. \A w \in Workers : CallTyped(h[w])
    BY <1>2 DEF CallTyped
  <2>. QED  BY <1>2, <2>1, <2>2, <2>3, <2>4, <2>5, <2>6 DEF BlogTyped, BlogTypeOK
<1>4. CommentsCounted /\ CommentKnown /\ HasRow
  BY <1>2 DEF BlogInit, CommentsCounted, CommentKnown, HasRow, Written, AtStep
<1>5. ByItself /\ Reliable
  BY <1>2 DEF ByItself, Reliable, Matters
<1>6. InTune
  <2>1. SUFFICES ASSUME NEW e \in Things, NEW s \in Readers
                 PROVE  Sound(e, s)
    BY DEF InTune, Claimed
  <2>2. \A w \in Workers : ~Telling(w)
    BY <1>2 DEF Telling, Tells
  <2>3. air = {} /\ logged = {}
    BY DEF BlogInit
  <2>4. <<e, s>> \in shown <=> Promised(e)
    BY <2>3 DEF BlogInit, Promised
  <2>. QED  BY <2>2, <2>3, <2>4 DEF Sound
<1>7. LikesKnown /\ ReportsKnown /\ FlagNeedsReporters
  <2>1. LikesKnown
    BY <1>2, FS_EmptySet DEF BlogInit, LikesKnown
  <2>2. \A u \in Reporters : Filed(u) = 0
    BY DEF BlogInit, Filed
  <2>. QED  BY <1>2, <2>1, <2>2 DEF BlogInit, ReportsKnown, FlagNeedsReporters, AtStep
<1>. QED  BY <1>3, <1>4, <1>5, <1>6, <1>7 DEF BlogIInv

(* Every step keeps the invariant. *)
LEMMA BlogNextIInv == BlogIInv /\ [BlogNext]_blogVars => BlogIInv'
BY BlogTypedStep, CommentsStep, InTouchStep, LikesStep, ReportsStep
DEF BlogIInv, OfComments, InTouch, ReportsRight

(* Likes are counted where nobody is counting them. *)
LEMMA InvOfBlogIInv == BlogIInv => DiscourseInv
<1> SUFFICES ASSUME BlogIInv  PROVE DiscourseInv
  OBVIOUS
<1>1. LikesCounted
  BY DEF LikesCounted, LikesKnown, BlogIInv, Busy
<1>. QED  BY <1>1 DEF BlogIInv, BlogTyped, DiscourseInv

(* Of a thing that is quiet nothing is told any more, and a comment that   *)
(* was acknowledged has its row.                                           *)
LEMMA InStepOfBlogIInv == BlogIInv => PhonesInStep
<1> SUFFICES ASSUME BlogIInv, NEW e \in Things, NEW s \in Readers, Quiet(e),
                    <<TopicOf(e), s>> \notin blurred
             PROVE  <<e, s>> \in shown <=> Visible(e)
  BY DEF PhonesInStep
<1>1. s \in Schools /\ Claimed(e, s)
  BY DEF Readers, Schools, Claimed, Quiet
<1>2. Sound(e, s)
  BY <1>1 DEF BlogIInv, InTune
<1>3. \A w \in Workers : ~(Telling(w) /\ Told(w) = e)
  BY ToldTopic DEF Quiet, Busy, BlogIInv
<1>4. <<e, s>> \in shown <=> Promised(e)
  BY <1>2, <1>3 DEF Sound, Quiet
<1>5. ~(e \in Comments \intersect logged /\ comment[e] = "none")
  BY <1>1, TopicFacts DEF BlogIInv, HasRow, Written, Quiet
<1>. QED  BY <1>4, <1>5 DEF Promised

(* A post's discourse: BlogIInv is kept by every step.                     *)
THEOREM BlogSpecIInv == BlogSpec => []BlogIInv
BY BlogInitIInv, BlogNextIInv, PTL DEF BlogSpec

(* The trigger keeps comments_count right whatever crosses or fails.  The  *)
(* likes are counted between requests, and a flag needs Threshold users,   *)
(* but where requests crossed, or the very lookup, count or update that    *)
(* BlogService leaves unchecked failed (uncounted, unseen, blurred).       *)
THEOREM DiscourseHolds == BlogSpec => []DiscourseInv
BY BlogSpecIInv, InvOfBlogIInv, PTL

(* A phone that read its school's log shows what the web shows of a thing  *)
(* that is quiet, unless what it was told of it is blurred: emitSyncEvent  *)
(* after a write that crossed another or failed without being looked at.   *)
THEOREM PhonesFollowTheWeb == BlogSpec => []PhonesInStep
BY BlogSpecIInv, InStepOfBlogIInv, PTL
=============================================================================
