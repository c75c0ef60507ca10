------------------------------ MODULE ClassRoll ------------------------------
(***************************************************************************)
(* The accounts, the roll and the chat groups of a school's classes.       *)
(* StudentsService enrols students over three stores and moves them from   *)
(* class to class, ClassesService appoints teachers under a lock in Redis  *)
(* that it also does without, and after each change ChatService brings the *)
(* participants of the class's group in step with the roll.  Only the      *)
(* school's student cap is enforced by the database, in triggers.          *)
(***************************************************************************)
EXTENDS Integers, FiniteSets

CONSTANTS
    Admins,         \* requests that run at the same time
    Students,       \* by their e-mail address
    Teachers,
    Classes,
    Cap,            \* active students of a COMMUNITY school
    Capacity,       \* school_policy.max_students_per_class
    MaxCalls,       \* bound on the requests
    MaxFailures     \* bound on failed calls and deaths

ASSUME BoundsAssumption == {Cap, Capacity, MaxCalls, MaxFailures} \subseteq Nat

VARIABLES
    auth,       \* e-mail addresses with an account at Supabase Auth
    user,       \* users rows of students and whether they are active
    student,    \* students rows and their class
    staff,      \* class_teachers, and who of them has the homeroom
    group,      \* chat_participants of the class's conversation
    lock,       \* edulanka:lock:class_teacher, by class
    admin,      \* what each request is doing
    crossed,    \* classes where an admission was under way when another began,
                \* or to which an inactive student came back
    unread,     \* full classes admitted to because a query failed
    unlocked,   \* classes where teachers were assigned without the lock
    uncleared,  \* classes whose last unset of a homeroom teacher failed
    behind,     \* classes whose group was not brought in step
    stray,      \* addresses whose enrolment was not undone, or whose user is gone
    calls, failures

accounts == <<auth, user, student>>
classes == <<staff, group, lock>>
ghosts == <<crossed, unread, unlocked, uncleared, behind, stray>>
vars == <<accounts, classes, admin, ghosts, calls, failures>>

Nobody == "nobody"
Row == [step : {"idle", "auth", "user", "student", "undo", "move", "unset", "set", "read",
                "add", "list", "prune", "unlock"},
        who : Students \union Teachers \union {Nobody}, class : Classes \union {Nobody},
        homeroom : BOOLEAN, members : SUBSET (Students \union Teachers)]
Idle == [step |-> "idle", who |-> Nobody, class |-> Nobody, homeroom |-> FALSE, members |-> {}]

ASSUME PeopleAssumption ==
    /\ IsFiniteSet(Students) /\ Students \intersect Teachers = {}
    /\ Nobody \notin Admins \union Classes

TypeOK ==
    /\ auth \subseteq Students /\ stray \subseteq Students
    /\ user \in [Students -> {"none", "active", "inactive"}]
    /\ student \in [Students -> Classes \union {Nobody}]
    /\ staff \in [Classes -> [Teachers -> {"no", "yes", "homeroom"}]]
    /\ group \in [Classes -> SUBSET (Students \union Teachers)]
    /\ lock \in [Classes -> Admins \union {Nobody}]
    /\ admin \in [Admins -> Row]
    /\ {crossed, unread, unlocked, uncleared, behind} \subseteq SUBSET Classes
    /\ calls \in 0..MaxCalls /\ failures \in 0..MaxFailures

Enrolled(s) == student[s] # Nobody
Active(s) == Enrolled(s) /\ user[s] = "active"
ActiveIn(c) == {s \in Students : Active(s) /\ student[s] = c}
Members(c) == {s \in Students : student[s] = c} \union {t \in Teachers : staff[c][t] # "no"}

(* Some students are enrolled already, and every group is in step. *)
Init ==
    /\ student \in [Students -> Classes \union {Nobody}]
    /\ Cardinality({s \in Students : Enrolled(s)}) <= Cap
    /\ user = [s \in Students |-> IF Enrolled(s) THEN "active" ELSE "none"]
    /\ auth = {s \in Students : Enrolled(s)}
    /\ \A c \in Classes : Cardinality(ActiveIn(c)) <= Capacity
    /\ staff = [c \in Classes |-> [t \in Teachers |-> "no"]]
    /\ group = [c \in Classes |-> Members(c)]
    /\ lock = [c \in Classes |-> Nobody]
    /\ admin = [a \in Admins |-> Idle]
    /\ crossed = {} /\ unread = {} /\ unlocked = {} /\ uncleared = {} /\ behind = {} /\ stray = {}
    /\ calls = 0 /\ failures = 0

Failure == failures < MaxFailures /\ failures' = failures + 1
At(a, step) == admin[a].step = step
Goto(a, step) == admin' = [admin EXCEPT ![a].step = step]
Rest(a) == admin' = [admin EXCEPT ![a] = Idle]
Begin(a, step, p, c, h) ==
    /\ admin[a] = Idle
    /\ calls < MaxCalls /\ calls' = calls + 1
    /\ admin' = [admin EXCEPT ![a] = [step |-> step, who |-> p, class |-> c, homeroom |-> h,
                                      members |-> {}]]

-----------------------------------------------------------------------------
(* StudentsService.enroll and assignToClass *)

Admitting(c) == \E a \in Admins : /\ admin[a].step \in {"auth", "user", "student", "move"}
                                  /\ admin[a].class = c

(* A full class is closed, unless an error of the policy's or the count's  *)
(* query keeps the limit from being looked at.                             *)
Admit(c) ==
    /\ IF Cardinality(ActiveIn(c)) < Capacity THEN UNCHANGED <<unread, failures>>
                                              ELSE Failure /\ unread' = unread \union {c}
    /\ crossed' = IF Admitting(c) THEN crossed \union {c} ELSE crossed

(* assertClassCapacity counts; the row is written some calls later. *)
Enrol(a, s, c) ==
    /\ Admit(c)
    /\ Begin(a, "auth", s, c, FALSE)
    /\ UNCHANGED <<accounts, classes, unlocked, uncleared, behind, stray>>

CreateAuth(a) ==
    /\ At(a, "auth")
    /\ auth' = auth \union {admin[a].who}
    /\ IF admin[a].who \in auth THEN Rest(a) ELSE Goto(a, "user")
    /\ UNCHANGED <<user, student, classes, ghosts, calls, failures>>

(* It fails, or makes the account and its answer is lost: nothing is undone. *)
AuthFails(a) ==
    /\ At(a, "auth")
    /\ Failure
    /\ \/ UNCHANGED <<auth, stray>>
       \/ /\ auth' = auth \union {admin[a].who}
          /\ stray' = stray \union ({admin[a].who} \ auth)
    /\ Rest(a)
    /\ UNCHANGED <<user, student, classes, crossed, unread, unlocked, uncleared, behind, calls>>

(* The rows an enrolment makes.  To a request that knew the address by its *)
(* former, deleted user, the new one is a stranger.                        *)
MakeUser(s) ==
    /\ user[s] = "none"
    /\ user' = [user EXCEPT ![s] = "active"]
    /\ behind' = behind \union {c \in Classes : \E b \in Admins :
                                    At(b, "add") /\ admin[b].class = c /\ s \in admin[b].members}

Moving(s, c) == \E a \in Admins : At(a, "move") /\ admin[a].who = s /\ admin[a].class = c
UnderCap == Cardinality({s \in Students : Active(s)}) < Cap

MakeStudent(s, c) ==
    /\ UnderCap /\ user[s] # "none"
    /\ student' = [student EXCEPT ![s] = c]
    /\ crossed' = crossed \union {d \in Classes : Moving(s, d)}

(* The address is unique among the school's users. *)
InsertUser(a) ==
    /\ At(a, "user")
    /\ IF user[admin[a].who] = "none"
       THEN MakeUser(admin[a].who) /\ Goto(a, "student")
       ELSE UNCHANGED <<user, behind>> /\ Goto(a, "undo")
    /\ UNCHANGED <<auth, student, classes, crossed, unread, unlocked, uncleared, stray,
                   calls, failures>>

(* Mutant of InsertStudent: no trigger counts the active students. *)
InsertUncounted(a) ==
    /\ At(a, "student")
    /\ user[admin[a].who] # "none"
    /\ student' = [student EXCEPT ![admin[a].who] = admin[a].class]
    /\ Goto(a, "read")
    /\ UNCHANGED <<auth, user, classes, ghosts, calls, failures>>

(* enforce_student_cap counts under a lock of the school. *)
InsertStudent(a) ==
    /\ At(a, "student")
    /\ IF UnderCap /\ user[admin[a].who] # "none"
       THEN MakeStudent(admin[a].who, admin[a].class) /\ Goto(a, "read")
       ELSE UNCHANGED <<student, crossed>> /\ Goto(a, "undo")
    /\ UNCHANGED <<auth, user, classes, unread, unlocked, uncleared, behind, stray, calls, failures>>

(* An insert is answered by an error, whether or not the row was made. *)
InsertFails(a) ==
    /\ admin[a].step \in {"user", "student"}
    /\ Failure
    /\ \/ UNCHANGED <<user, student, crossed, behind>>
       \/ At(a, "user") /\ MakeUser(admin[a].who) /\ UNCHANGED <<student, crossed>>
       \/ /\ At(a, "student") /\ MakeStudent(admin[a].who, admin[a].class)
          /\ behind' = behind \union {admin[a].class}
          /\ UNCHANGED user
    /\ Goto(a, "undo")
    /\ UNCHANGED <<auth, classes, unread, unlocked, uncleared, stray, calls>>

(* Mutant of Undo: the account stays. *)
UndoNothing(a) ==
    /\ At(a, "undo")
    /\ Rest(a)
    /\ UNCHANGED <<accounts, classes, ghosts, calls, failures>>

(* Only the account is deleted: a users row stays behind.  It is done      *)
(* again on the way out, so that one failed deletion is made good.         *)
Undo(a) ==
    /\ At(a, "undo")
    /\ auth' = auth \ {admin[a].who}
    /\ Rest(a)
    /\ UNCHANGED <<user, student, classes, ghosts, calls, failures>>

(* Neither deletion succeeds, and their errors are not looked at. *)
UndoFails(a) ==
    /\ At(a, "undo")
    /\ Failure
    /\ stray' = stray \union {admin[a].who}
    /\ Rest(a)
    /\ UNCHANGED <<accounts, classes, crossed, unread, unlocked, uncleared, behind, calls>>

(* The capacity is asked about unless the student is in the class already. *)
Move(a, s, c) ==
    /\ Enrolled(s)
    /\ IF student[s] = c THEN UNCHANGED <<crossed, unread, failures>> ELSE Admit(c)
    /\ Begin(a, "move", s, c, FALSE)
    /\ UNCHANGED <<accounts, classes, unlocked, uncleared, behind, stray>>

(* The class the student leaves is not brought in step. *)
WriteMove(a) ==
    /\ At(a, "move")
    /\ LET s == admin[a].who  c == admin[a].class IN
       IF ~Enrolled(s) THEN Rest(a) /\ UNCHANGED <<student, behind>>
       ELSE /\ student' = [student EXCEPT ![s] = c]
            /\ behind' = behind \union ({student[s]} \ {c})
            /\ Goto(a, "read")
    /\ UNCHANGED <<auth, user, classes, crossed, unread, unlocked, uncleared, stray,
                   calls, failures>>

-----------------------------------------------------------------------------
(* Accounts are switched off and on; the latter under the cap, in a        *)
(* trigger, but not the capacity.  The hard delete keeps the auth account. *)

Deactivate(s) ==
    /\ Active(s)
    /\ user' = [user EXCEPT ![s] = "inactive"]
    /\ calls < MaxCalls /\ calls' = calls + 1
    /\ UNCHANGED <<auth, student, classes, admin, ghosts, failures>>

Reactivate(s) ==
    /\ user[s] = "inactive"
    /\ UnderCap
    /\ user' = [user EXCEPT ![s] = "active"]
    /\ crossed' = crossed \union {c \in Classes : student[s] = c \/ Moving(s, c)}
    /\ calls < MaxCalls /\ calls' = calls + 1
    /\ UNCHANGED <<auth, student, classes, admin, unread, unlocked, uncleared, behind, stray,
                   failures>>

Remove(s) ==
    /\ user[s] # "none"
    /\ user' = [user EXCEPT ![s] = "none"]
    /\ student' = [student EXCEPT ![s] = Nobody]
    /\ group' = [c \in Classes |-> group[c] \ {s}]
    /\ stray' = stray \union {s}
    /\ calls < MaxCalls /\ calls' = calls + 1
    /\ UNCHANGED <<auth, staff, lock, admin, crossed, unread, unlocked, uncleared, behind,
                   failures>>

-----------------------------------------------------------------------------
(* ClassesService.assignTeacher and removeTeacher *)

(* Ends the request, giving the lock back if it was taken for it. *)
Leave(a) == IF lock[admin[a].class] = a THEN Goto(a, "unlock") ELSE Rest(a)

(* The lock is tried twice; the request goes on without it, as it does if  *)
(* Redis is not to be reached.                                             *)
Appoint(a, t, c, h) ==
    /\ Begin(a, IF h THEN "unset" ELSE "set", t, c, h)
    /\ \/ /\ lock[c] = Nobody
          /\ lock' = [lock EXCEPT ![c] = a]
          /\ UNCHANGED <<unlocked, failures>>
       \/ /\ IF lock[c] = Nobody THEN Failure ELSE UNCHANGED failures
          /\ unlocked' = unlocked \union {c}
          /\ UNCHANGED lock
    /\ UNCHANGED <<accounts, staff, group, crossed, unread, uncleared, behind, stray>>

(* Mutant of Unset: the former homeroom teacher is left in place. *)
UnsetNobody(a) ==
    /\ At(a, "unset")
    /\ Goto(a, "set")
    /\ UNCHANGED <<accounts, classes, ghosts, calls, failures>>

Unset(a) ==
    /\ At(a, "unset")
    /\ LET c == admin[a].class IN
       staff' = [staff EXCEPT ![c] = [t \in Teachers |-> IF @[t] = "homeroom" THEN "yes" ELSE @[t]]]
    /\ uncleared' = uncleared \ {admin[a].class}
    /\ Goto(a, "set")
    /\ UNCHANGED <<accounts, group, lock, crossed, unread, unlocked, behind, stray, calls, failures>>

(* The error of the update is not looked at. *)
UnsetFails(a) ==
    /\ At(a, "unset")
    /\ Failure
    /\ uncleared' = uncleared \union {admin[a].class}
    /\ Goto(a, "set")
    /\ UNCHANGED <<accounts, classes, crossed, unread, unlocked, behind, stray, calls>>

Set(a) ==
    /\ At(a, "set")
    /\ staff' = [staff EXCEPT ![admin[a].class][admin[a].who] =
                    IF admin[a].homeroom THEN "homeroom" ELSE "yes"]
    /\ Goto(a, "read")
    /\ UNCHANGED <<accounts, group, lock, ghosts, calls, failures>>

(* A lookup or the upsert fails: the request ends, with nothing to sync. *)
AppointFails(a) ==
    /\ admin[a].step \in {"unset", "set"}
    /\ Failure
    /\ Leave(a)
    /\ UNCHANGED <<accounts, classes, ghosts, calls>>

Dismiss(a, t, c) ==
    /\ staff[c][t] # "no"
    /\ staff' = [staff EXCEPT ![c][t] = "no"]
    /\ Begin(a, "read", t, c, FALSE)
    /\ UNCHANGED <<accounts, group, lock, ghosts, failures>>

(* The key is deleted by whoever thinks to hold it. *)
Unlock(a) ==
    /\ At(a, "unlock")
    /\ lock' = [lock EXCEPT ![admin[a].class] = Nobody]
    /\ Rest(a)
    /\ UNCHANGED <<accounts, staff, group, ghosts, calls, failures>>

(* Five seconds are over. *)
LockExpires(c) ==
    /\ lock[c] # Nobody
    /\ Failure
    /\ lock' = [lock EXCEPT ![c] = Nobody]
    /\ unlocked' = unlocked \union {c}
    /\ UNCHANGED <<accounts, staff, group, admin, crossed, unread, uncleared, behind, stray, calls>>

-----------------------------------------------------------------------------
(* ChatService.syncClassParticipants *)

Syncing(b, c) == admin[b].step \in {"add", "list", "prune"} /\ admin[b].class = c
Others(a) == Admins \ {a}

(* A sync that begins alone makes good what others have left undone. *)
ReadMembers(a) ==
    /\ At(a, "read")
    /\ LET c == admin[a].class IN
       /\ admin' = [admin EXCEPT ![a].step = "add", ![a].members = Members(c)]
       /\ behind' = IF \E b \in Others(a) : Syncing(b, c) THEN behind \union {c} ELSE behind \ {c}
    /\ UNCHANGED <<accounts, classes, crossed, unread, unlocked, uncleared, stray, calls, failures>>

(* An error of either query is not looked at: its members are missing. *)
ReadFails(a) ==
    /\ At(a, "read")
    /\ Failure
    /\ \E lost \in {Students, Teachers} :
          admin' = [admin EXCEPT ![a].step = "add", ![a].members = Members(admin[a].class) \ lost]
    /\ behind' = behind \union {admin[a].class}
    /\ UNCHANGED <<accounts, classes, crossed, unread, unlocked, uncleared, stray, calls>>

(* A member whose user was deleted meanwhile fails the whole upsert. *)
AddMembers(a) ==
    /\ At(a, "add")
    /\ LET c == admin[a].class  m == admin[a].members IN
       IF \A s \in m \intersect Students : user[s] # "none"
       THEN group' = [group EXCEPT ![c] = @ \union m] /\ Goto(a, "list") /\ UNCHANGED behind
       ELSE UNCHANGED group /\ Leave(a) /\ behind' = behind \union {c}
    /\ UNCHANGED <<accounts, staff, lock, crossed, unread, unlocked, uncleared, stray,
                   calls, failures>>

(* Mutant of ListStale: the group is not looked at for stale participants. *)
ListNothing(a) ==
    /\ At(a, "list")
    /\ admin' = [admin EXCEPT ![a].step = "prune", ![a].members = {}]
    /\ UNCHANGED <<accounts, classes, ghosts, calls, failures>>

(* The participants who are no members, to be deleted by the next call. *)
ListStale(a) ==
    /\ At(a, "list")
    /\ admin' = [admin EXCEPT ![a].step = "prune",
                              ![a].members = group[admin[a].class] \ @]
    /\ UNCHANGED <<accounts, classes, ghosts, calls, failures>>

Prune(a) ==
    /\ At(a, "prune")
    /\ group' = [group EXCEPT ![admin[a].class] = @ \ admin[a].members]
    /\ Leave(a)
    /\ UNCHANGED <<accounts, staff, lock, ghosts, calls, failures>>

(* The error is logged and the request succeeds; or there was no sync as   *)
(* the write before it was made but answered by an error.                  *)
SyncFails(a) ==
    /\ admin[a].step \in {"read", "add", "list", "prune"}
    /\ Failure
    /\ behind' = behind \union {admin[a].class}
    /\ Leave(a)
    /\ UNCHANGED <<accounts, classes, crossed, unread, unlocked, uncleared, stray, calls>>

(* Who is in the class leaves its group, or is removed by a moderator. *)
Withdraw(c, m) ==
    /\ m \in group[c]
    /\ group' = [group EXCEPT ![c] = @ \ {m}]
    /\ behind' = behind \union {c}
    /\ calls < MaxCalls /\ calls' = calls + 1
    /\ UNCHANGED <<accounts, staff, lock, admin, crossed, unread, unlocked, uncleared, stray,
                   failures>>

(* The process dies, or at the end fails to give the lock back: the lock   *)
(* is left to expire.                                                      *)
Dies(a) ==
    /\ ~At(a, "idle")
    /\ Failure
    /\ Rest(a)
    /\ LET c == admin[a].class IN
       /\ behind' = IF At(a, "read") \/ Syncing(a, c) THEN behind \union {c} ELSE behind
       /\ stray' = IF admin[a].step \in {"user", "student", "undo"} THEN stray \union {admin[a].who}
                                                                   ELSE stray
       /\ unlocked' = IF lock[c] = a THEN unlocked \union {c} ELSE unlocked
    /\ UNCHANGED <<accounts, classes, crossed, unread, uncleared, calls>>

-----------------------------------------------------------------------------
Enrolment(a) == CreateAuth(a) \/ InsertUser(a) \/ InsertStudent(a) \/ Undo(a) \/ WriteMove(a)
Sync(a) == ReadMembers(a) \/ AddMembers(a) \/ ListStale(a) \/ Prune(a)

Next ==
    \/ \E a \in Admins :
          \/ \E c \in Classes : \/ \E s \in Students : Enrol(a, s, c) \/ Move(a, s, c)
                                \/ \E t \in Teachers : \/ Dismiss(a, t, c)
                                                       \/ \E h \in BOOLEAN : Appoint(a, t, c, h)
          \/ Enrolment(a) \/ AuthFails(a) \/ InsertFails(a) \/ UndoFails(a)
          \/ Unset(a) \/ UnsetFails(a) \/ Set(a) \/ AppointFails(a) \/ Unlock(a)
          \/ Sync(a) \/ ReadFails(a) \/ SyncFails(a) \/ Dies(a)
    \/ \E s \in Students : Deactivate(s) \/ Reactivate(s) \/ Remove(s)
    \/ \E c \in Classes : LockExpires(c) \/ \E m \in Students \union Teachers : Withdraw(c, m)

Spec == Init /\ [][Next]_vars

-----------------------------------------------------------------------------
(* A COMMUNITY school never has more active students than the cap, however *)
(* enrolments and reactivations cross; a class takes more than its         *)
(* capacity only if two admissions crossed, a student came back to it, or  *)
(* a query of the capacity check failed when it was full.                  *)
CapKept == Cardinality({s \in Students : Active(s)}) <= Cap
CapacityKept ==
    \A c \in Classes : Cardinality(ActiveIn(c)) > Capacity => c \in crossed \union unread

RollInv == TypeOK /\ CapKept /\ CapacityKept

(* Once no request is bringing it in step, the group of a class has exactly *)
(* the students on its roll and its teachers, unless the last student to    *)
(* leave it, somebody who left the group, or a failed or a crossing sync    *)
(* left it behind, or an insert that was made but failed in its answer.     *)
GroupInStep ==
    \A c \in Classes \ behind :
        (\E a \in Admins : (At(a, "read") \/ Syncing(a, c)) /\ admin[a].class = c)
        \/ group[c] = Members(c)

(* A class has one homeroom teacher, unless the lock was not there or the  *)
(* last unset failed.                                                      *)
OneHomeroom ==
    \A c \in Classes \ (unlocked \union uncleared), t, u \in Teachers :
        staff[c][t] = "homeroom" /\ staff[c][u] = "homeroom" => t = u

(* An account of Supabase Auth has its users row, unless a process died    *)
(* while it was made, the answer to its making was lost, its deletion      *)
(* failed twice, or the user was deleted: a refused enrolment leaves no    *)
(* account behind.                                                         *)
NoOrphanAccount ==
    \A s \in auth \ stray :
        user[s] # "none" \/ \E a \in Admins : /\ admin[a].step \in {"user", "undo"}
                                               /\ admin[a].who = s
=============================================================================
