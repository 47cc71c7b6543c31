------------------------ MODULE PlatformAdminsProofs ------------------------
(* Theorems about PlatformAdmins, for every finite set of administrators and *)
(* every set of handlers, with their proofs.                                 *)
EXTENDS PlatformAdmins, FiniteSetTheorems, TLAPS

\* A job that is to be stored, is admitted or is about to save holds a row.
RowHeld == \A h \in Handlers :
              jobs[h] # None /\ jobs[h].at \in {"store", "admitted", "save"}
                 => jobs[h].row \in Row

TypeInv == TypeOK /\ RowHeld

\* Typing of the two ways a job begins.
LEMMA NewJobTyped ==
    ASSUME NEW at \in {"store", "admitted"}, NEW then \in {"admitted", "done"},
           NEW actor \in Admins, NEW on \in Admins, NEW row \in Row
    PROVE  /\ NewJob(at, then, actor, on, row) \in Job
           /\ NewJob(at, then, actor, on, row) # None
           /\ NewJob(at, then, actor, on, row).at = at
           /\ NewJob(at, then, actor, on, row).row = row
<1>1. NewJob(at, then, actor, on, row) \in Job
  BY DEF NewJob, Job
<1>2. NewJob(at, then, actor, on, row) # None
  BY <1>1, NoneAssumption
<1> QED
  BY <1>1, <1>2 DEF NewJob

ChangeJob(at, actor, on, row, stale) ==
    [at |-> at, then |-> "done", actor |-> actor, on |-> on, row |-> row,
     stale |-> stale, overtaken |-> FALSE]

LEMMA ChangeJobTyped ==
    ASSUME NEW at \in {"save", "delete"}, NEW actor \in Admins, NEW on \in Admins,
           NEW row \in Row \cup {None}, NEW stale \in BOOLEAN
    PROVE  /\ ChangeJob(at, actor, on, row, stale) \in Job
           /\ ChangeJob(at, actor, on, row, stale) # None
<1>1. ChangeJob(at, actor, on, row, stale) \in Job
  BY DEF ChangeJob, Job
<1> QED
  BY <1>1, NoneAssumption

\* Replacing one job keeps the types when the new job holds the row it needs.
LEMMA SetJob ==
    ASSUME TypeInv, NEW h \in Handlers, NEW job \in Job \cup {None},
           jobs' = [jobs EXCEPT ![h] = job],
           job # None /\ job.at \in {"store", "admitted", "save"} => job.row \in Row
    PROVE  jobs' \in [Handlers -> Job \cup {None}] /\ RowHeld'
<1>1. jobs' \in [Handlers -> Job \cup {None}]
  BY DEF TypeInv, TypeOK
<1>2. ASSUME NEW g \in Handlers, jobs'[g] # None, jobs'[g].at \in {"store", "admitted", "save"}
      PROVE  jobs'[g].row \in Row
  <2>1. CASE g = h
    BY <1>2, <2>1 DEF TypeInv, TypeOK
  <2>2. CASE g # h
    BY <1>2, <2>2 DEF TypeInv, TypeOK, RowHeld
  <2> QED
    BY <2>1, <2>2
<1> QED
  BY <1>1, <1>2 DEF RowHeld

LEMMA JobFields ==
    ASSUME TypeInv, NEW h \in Handlers, jobs[h] # None
    PROVE  /\ jobs[h] \in Job
           /\ jobs[h].actor \in Admins /\ jobs[h].on \in Admins
           /\ jobs[h].at \in {"store", "admitted", "save", "delete"}
           /\ jobs[h].row \in Row \cup {None}
           /\ jobs[h].stale \in BOOLEAN /\ jobs[h].overtaken \in BOOLEAN
           /\ jobs[h].at \in {"store", "admitted", "save"} => jobs[h].row \in Row
<1>1. jobs[h] \in Job
  BY DEF TypeInv, TypeOK
<1> QED
  BY <1>1 DEF TypeInv, RowHeld, Job

\* What a change does, whichever it is.
LEMMA ChangeTyped ==
    ASSUME TypeInv, NEW h \in Handlers, At(h, "admitted"), NEW b \in Admins,
           NEW at \in {"save", "delete"}, NEW row \in Row \cup {None},
           at = "save" => row \in Row, Change(h, at, b, row)
    PROVE  TypeInv'
<1>1. jobs[h] # None /\ jobs[h].actor \in Admins
  BY JobFields DEF At
<1> DEFINE job == ChangeJob(at, jobs[h].actor, b, row, jobs[h].actor \notin ActiveSupers)
<1>2. (jobs[h].actor \notin ActiveSupers) \in BOOLEAN
  OBVIOUS
<1>3. job \in Job
  BY <1>1, <1>2, ChangeJobTyped
<1>4. job.at = at /\ job.row = row
  BY DEF ChangeJob
<1>5. jobs' = [jobs EXCEPT ![h] = job]
  BY DEF Change, ChangeJob
<1>6. jobs' \in [Handlers -> Job \cup {None}] /\ RowHeld'
  <2> HIDE DEF job
  <2> QED
    BY <1>3, <1>4, <1>5, SetJob
<1>7. cache' \in [Admins -> Entry \cup {None}]
  BY DEF Change, TypeInv, TypeOK
<1>8. UNCHANGED <<rows, tokens, raced>>
  BY DEF Change
<1> QED
  BY <1>6, <1>7, <1>8 DEF TypeInv, TypeOK

LEMMA FinishTyped ==
    ASSUME TypeInv, NEW h \in Handlers, Finish(h)
    PROVE  jobs' \in [Handlers -> Job \cup {None}] /\ RowHeld'
BY SetJob DEF Finish

-----------------------------------------------------------------------------
LEMMA TypeInit == Init => TypeInv
<1> SUFFICES ASSUME Init PROVE TypeInv
  OBVIOUS
<1>1. Super \in Row
  BY DEF Super, Row, Roles, Statuses
<1>2. rows \in [Admins -> Row \cup {None}]
  BY <1>1 DEF Init
<1> QED
  BY <1>2 DEF Init, TypeInv, TypeOK, RowHeld

LEMMA TypeStep == TypeInv /\ [Next]_vars => TypeInv'
<1> SUFFICES ASSUME TypeInv, [Next]_vars PROVE TypeInv'
  OBVIOUS
<1>0. /\ rows \in [Admins -> Row \cup {None}] /\ cache \in [Admins -> Entry \cup {None}]
      /\ tokens \subseteq Admins /\ jobs \in [Handlers -> Job \cup {None}] /\ raced \in BOOLEAN
  BY DEF TypeInv, TypeOK
<1>1. ASSUME NEW h \in Handlers, NEW a \in Admins, Login(h, a) PROVE TypeInv'
  <2>1. rows[a] \in Row
    BY <1>0, <1>1 DEF Login, IsActive
  <2> DEFINE job == NewJob("store", "done", a, a, rows[a])
  <2>2. job \in Job /\ job.row \in Row
    BY <2>1, NewJobTyped
  <2>3. jobs' = [jobs EXCEPT ![h] = job]
    BY <1>1 DEF Login
  <2>4. jobs' \in [Handlers -> Job \cup {None}] /\ RowHeld'
    <3> HIDE DEF job
    <3> QED
      BY <2>2, <2>3, SetJob
  <2> QED
    BY <1>0, <1>1, <2>4 DEF Login, TypeInv, TypeOK
<1>2. ASSUME NEW h \in Handlers, NEW a \in Admins, ValidateToken(h, a) PROVE TypeInv'
  <2>1. CASE cache[a] # None
    <3> DEFINE job == NewJob("admitted", "done", a, a, cache[a].row)
    <3>1. cache[a].row \in Row
      BY <1>0, <2>1 DEF Entry
    <3>2. job \in Job /\ job.row \in Row
      BY <3>1, NewJobTyped
    <3>3. jobs' = [jobs EXCEPT ![h] = job]
      BY <1>2, <2>1 DEF ValidateToken
    <3>4. jobs' \in [Handlers -> Job \cup {None}] /\ RowHeld'
      <4> HIDE DEF job
      <4> QED
        BY <3>2, <3>3, SetJob
    <3> QED
      BY <1>0, <1>2, <3>4 DEF ValidateToken, TypeInv, TypeOK
  <2>2. CASE cache[a] = None
    <3> DEFINE job == NewJob("store", "admitted", a, a, rows[a])
    <3>1. rows[a] \in Row
      BY <1>0, <1>2, <2>2 DEF ValidateToken, IsActive
    <3>2. job \in Job /\ job.row \in Row
      BY <3>1, NewJobTyped
    <3>3. jobs' = [jobs EXCEPT ![h] = job]
      BY <1>2, <2>2 DEF ValidateToken
    <3>4. jobs' \in [Handlers -> Job \cup {None}] /\ RowHeld'
      <4> HIDE DEF job
      <4> QED
        BY <3>2, <3>3, SetJob
    <3> QED
      BY <1>0, <1>2, <3>4 DEF ValidateToken, TypeInv, TypeOK
  <2> QED
    BY <2>1, <2>2
<1>3. ASSUME NEW h \in Handlers, NEW b \in Admins, GetAdmin(h, b) PROVE TypeInv'
  <2>1. rows[b] \in Row /\ jobs[h] # None
    BY <1>0, <1>3 DEF GetAdmin, IsActive, At
  <2> DEFINE job == NewJob("store", "done", jobs[h].actor, b, rows[b])
  <2>2. jobs[h].actor \in Admins
    BY <2>1, JobFields
  <2>3. job \in Job /\ job.row \in Row
    BY <2>1, <2>2, NewJobTyped
  <2>4. jobs' = [jobs EXCEPT ![h] = job]
    BY <1>3 DEF GetAdmin
  <2>5. jobs' \in [Handlers -> Job \cup {None}] /\ RowHeld'
    <3> HIDE DEF job
    <3> QED
      BY <2>3, <2>4, SetJob
  <2> QED
    BY <1>0, <1>3, <2>5 DEF GetAdmin, TypeInv, TypeOK
<1>4. ASSUME NEW h \in Handlers, CacheAdmin(h) PROVE TypeInv'
  <2>1. /\ jobs[h] # None /\ jobs[h].at = "store" /\ jobs[h] \in Job
        /\ jobs[h].row \in Row /\ jobs[h].on \in Admins
    BY <1>4, JobFields DEF CacheAdmin, At
  <2>2. (Changing(jobs[h].on) \/ jobs[h].row # rows[jobs[h].on]) \in BOOLEAN
    OBVIOUS
  <2>3. [row |-> jobs[h].row, raced |-> Changing(jobs[h].on) \/ jobs[h].row # rows[jobs[h].on]] \in Entry
    BY <2>1, <2>2 DEF Entry
  <2>4. cache' \in [Admins -> Entry \cup {None}]
    BY <1>0, <1>4, <2>3 DEF CacheAdmin
  <2>5. jobs' \in [Handlers -> Job \cup {None}] /\ RowHeld'
    <3>1. CASE jobs[h].then = "admitted"
      <4> DEFINE job == [jobs[h] EXCEPT !.at = "admitted"]
      <4>1. job \in Job /\ job.row \in Row
        BY <2>1 DEF Job
      <4>2. jobs' = [jobs EXCEPT ![h] = job]
        BY <1>0, <1>4, <3>1 DEF CacheAdmin
      <4> HIDE DEF job
      <4> QED
        BY <4>1, <4>2, SetJob
    <3>2. CASE jobs[h].then # "admitted"
      BY <1>4, <3>2, FinishTyped DEF CacheAdmin
    <3> QED
      BY <3>1, <3>2
  <2> QED
    BY <1>0, <1>4, <2>4, <2>5 DEF CacheAdmin, TypeInv, TypeOK
<1>5. ASSUME NEW h \in Handlers, Leave(h) PROVE TypeInv'
  BY <1>0, <1>5, FinishTyped DEF Leave, TypeInv, TypeOK
<1>6. ASSUME NEW h \in Handlers, NEW b \in Admins, NEW role \in Roles, CreateAdmin(h, b, role)
      PROVE  TypeInv'
  <2>1. [role |-> role, status |-> "active"] \in Row
    BY DEF Row, Statuses
  <2>2. rows' \in [Admins -> Row \cup {None}]
    BY <1>0, <1>6, <2>1 DEF CreateAdmin
  <2> QED
    BY <1>0, <1>6, <2>2, FinishTyped DEF CreateAdmin, TypeInv, TypeOK
<1>7. ASSUME NEW h \in Handlers, NEW b \in Admins, NEW new \in Row, UpdateAdmin(h, b, new)
      PROVE  TypeInv'
  BY <1>7, ChangeTyped DEF UpdateAdmin, ActsAsSuper
<1>8. ASSUME NEW h \in Handlers, NEW b \in Admins, DeleteAdmin(h, b) PROVE TypeInv'
  BY <1>8, ChangeTyped DEF DeleteAdmin, ActsAsSuper
<1>9. ASSUME NEW h \in Handlers, Write(h) PROVE TypeInv'
  <2>1. jobs[h] # None
    BY <1>9 DEF Write, At
  <2>2. /\ jobs[h].on \in Admins /\ jobs[h].row \in Row \cup {None}
        /\ jobs[h].stale \in BOOLEAN /\ jobs[h].overtaken \in BOOLEAN
    BY <2>1, JobFields
  <2>3. rows' \in [Admins -> Row \cup {None}] /\ raced' \in BOOLEAN
    BY <1>0, <1>9, <2>2 DEF Write
  <2>4. ASSUME NEW g \in Handlers
        PROVE  /\ jobs'[g] \in Job \cup {None}
               /\ jobs'[g] # None /\ jobs'[g].at \in {"store", "admitted", "save"}
                    => jobs'[g].row \in Row
    <3>1. CASE g = h \/ jobs[g] = None
      BY <1>9, <3>1 DEF Write
    <3>2. CASE g # h /\ jobs[g] # None
      <4>1. jobs'[g] = [jobs[g] EXCEPT !.overtaken = TRUE]
        BY <1>9, <3>2 DEF Write
      <4>2. jobs[g] \in Job /\ (jobs[g].at \in {"store", "admitted", "save"} => jobs[g].row \in Row)
        BY <3>2, JobFields
      <4>3. jobs'[g] \in Job /\ jobs'[g].at = jobs[g].at /\ jobs'[g].row = jobs[g].row
        BY <4>1, <4>2 DEF Job
      <4> QED
        BY <4>2, <4>3
    <3> QED
      BY <3>1, <3>2
  <2>5. jobs' \in [Handlers -> Job \cup {None}]
    BY <1>9, <2>4 DEF Write
  <2> QED
    BY <1>0, <1>9, <2>3, <2>4, <2>5 DEF Write, TypeInv, TypeOK, RowHeld
<1>10. ASSUME NEW a \in Admins, ExpireCache(a) PROVE TypeInv'
  BY <1>0, <1>10 DEF ExpireCache, TypeInv, TypeOK, RowHeld
<1>11. CASE Restart
  BY <1>0, <1>11 DEF Restart, TypeInv, TypeOK, RowHeld
<1>12. CASE UNCHANGED vars
  BY <1>12 DEF vars, TypeInv, TypeOK, RowHeld
<1> QED
  BY <1>1, <1>2, <1>3, <1>4, <1>5, <1>6, <1>7, <1>8, <1>9, <1>10, <1>11, <1>12
  DEF Next, SuperRequest

\* The variables keep their types, and a job that needs a row holds one.
THEOREM TypeCorrect == Spec => []TypeOK
<1>1. Spec => []TypeInv
  BY TypeInit, TypeStep, PTL DEF Spec
<1> QED
  BY <1>1, PTL DEF TypeInv

-----------------------------------------------------------------------------
(* A super administrator remains. *)

\* A change about to be written that was based on facts that still hold.
Sound(h) == /\ jobs[h] # None /\ jobs[h].at \in {"save", "delete"}
            /\ ~jobs[h].stale /\ ~jobs[h].overtaken

\* Such a change leaves an active super administrator.
SuperKept == \A h \in Handlers : Sound(h) =>
                \E s \in Admins : (IF s = jobs[h].on THEN jobs[h].row ELSE rows[s]) = Super

SuperInv == TypeInv /\ SuperAdminRemains /\ SuperKept

LEMMA ActiveFinite == IsFiniteSet(ActiveSupers)
<1>1. ActiveSupers \subseteq Admins
  BY DEF ActiveSupers
<1> QED
  BY <1>1, AdminsAssumption, FS_Subset

\* The count of superAdminCount above one means that there is another one.
LEMMA AnotherSuper ==
    ASSUME Cardinality(ActiveSupers) > 1, NEW b \in Admins
    PROVE  \E s \in ActiveSupers : s # b
<1> SUFFICES ASSUME \A s \in ActiveSupers : s = b PROVE FALSE
  OBVIOUS
<1>1. IsFiniteSet({b}) /\ Cardinality({b}) = 1
  BY FS_Singleton
<1>2. Cardinality(ActiveSupers) <= Cardinality({b})
  BY <1>1, FS_Subset
<1>3. Cardinality(ActiveSupers) \in Nat
  BY ActiveFinite, FS_CardinalityType
<1> QED
  BY <1>1, <1>2, <1>3

\* A job that begins a change is sound only if it leaves a super administrator.
LEMMA ChangeKeeps ==
    ASSUME TypeInv, SuperKept, NEW h \in Handlers, At(h, "admitted"), NEW b \in Admins,
           NEW at \in {"save", "delete"}, NEW row, Change(h, at, b, row),
           jobs[h].actor \in ActiveSupers =>
             \E s \in Admins : (IF s = b THEN row ELSE rows[s]) = Super
    PROVE  SuperKept'
<1> SUFFICES ASSUME NEW g \in Handlers, Sound(g)'
             PROVE  \E s \in Admins : (IF s = jobs'[g].on THEN jobs'[g].row ELSE rows'[s]) = Super
  BY DEF SuperKept, Super
<1>1. rows' = rows /\ jobs \in [Handlers -> Job \cup {None}]
  BY DEF Change, TypeInv, TypeOK
<1>2. jobs' = [jobs EXCEPT ![h] = ChangeJob(at, jobs[h].actor, b, row, jobs[h].actor \notin ActiveSupers)]
  BY DEF Change, ChangeJob
<1>3. CASE g = h
  <2>1. jobs'[g] = ChangeJob(at, jobs[h].actor, b, row, jobs[h].actor \notin ActiveSupers)
    BY <1>1, <1>2, <1>3
  <2>2. jobs'[g].on = b /\ jobs'[g].row = row /\ jobs'[g].stale = (jobs[h].actor \notin ActiveSupers)
    BY <2>1 DEF ChangeJob
  <2>3. jobs[h].actor \in ActiveSupers
    BY <2>2 DEF Sound
  <2> QED
    BY <1>1, <2>2, <2>3
<1>4. CASE g # h
  <2>1. jobs'[g] = jobs[g]
    BY <1>1, <1>2, <1>4
  <2>2. Sound(g)
    BY <2>1 DEF Sound
  <2> QED
    BY <1>1, <2>1, <2>2 DEF SuperKept
<1> QED
  BY <1>3, <1>4

\* A step that leaves the table alone and makes no job sound keeps it.
LEMMA QuietKeeps ==
    ASSUME SuperKept, UNCHANGED rows,
           \A g \in Handlers : Sound(g)' => jobs'[g] = jobs[g]
    PROVE  SuperKept'
BY DEF SuperKept, Sound, Super

\* The same for a step that gives one handler a job that saves nothing.
LEMMA OneJobKeeps ==
    ASSUME TypeInv, SuperKept, UNCHANGED rows, NEW h \in Handlers, NEW job,
           jobs' = [jobs EXCEPT ![h] = job],
           job # None => job.at \notin {"save", "delete"}
    PROVE  SuperKept'
<1>1. ASSUME NEW g \in Handlers, Sound(g)' PROVE jobs'[g] = jobs[g]
  BY <1>1 DEF Sound, TypeInv, TypeOK
<1> QED
  BY <1>1, QuietKeeps

LEMMA SuperInit == Init => SuperInv
<1> SUFFICES ASSUME Init PROVE SuperInv
  OBVIOUS
<1>1. TypeInv
  BY TypeInit
<1>2. PICK first \in Admins : rows = [a \in Admins |-> IF a = first THEN Super ELSE None]
  BY DEF Init
<1>3. first \in ActiveSupers
  BY <1>2 DEF ActiveSupers
<1>4. SuperKept
  BY DEF SuperKept, Sound, Init
<1> QED
  BY <1>1, <1>3, <1>4 DEF SuperInv, SuperAdminRemains

LEMMA SuperStep == SuperInv /\ [Next]_vars => SuperInv'
<1> SUFFICES ASSUME SuperInv, [Next]_vars PROVE SuperInv'
  OBVIOUS
<1>0. TypeInv /\ SuperAdminRemains /\ SuperKept /\ TypeInv'
  BY TypeStep DEF SuperInv
<1>t. rows \in [Admins -> Row \cup {None}] /\ jobs \in [Handlers -> Job \cup {None}]
  BY <1>0 DEF TypeInv, TypeOK
<1>q. ASSUME UNCHANGED <<rows, raced>>, SuperKept' PROVE SuperInv'
  BY <1>0, <1>q DEF SuperInv, SuperAdminRemains, ActiveSupers, Super
<1>1. ASSUME NEW h \in Handlers, NEW a \in Admins, Login(h, a) PROVE SuperInv'
  <2>1. NewJob("store", "done", a, a, rows[a]).at = "store"
    BY DEF NewJob
  <2> QED
    BY <1>0, <1>q, <1>1, <2>1, OneJobKeeps DEF Login
<1>2. ASSUME NEW h \in Handlers, NEW a \in Admins, ValidateToken(h, a) PROVE SuperInv'
  <2>1. /\ NewJob("admitted", "done", a, a, cache[a].row).at = "admitted"
        /\ NewJob("store", "admitted", a, a, rows[a]).at = "store"
    BY DEF NewJob
  <2>2. CASE cache[a] # None
    BY <1>0, <1>q, <1>2, <2>1, <2>2, OneJobKeeps DEF ValidateToken
  <2>3. CASE cache[a] = None
    BY <1>0, <1>q, <1>2, <2>1, <2>3, OneJobKeeps DEF ValidateToken
  <2> QED
    BY <2>2, <2>3
<1>3. ASSUME NEW h \in Handlers, NEW b \in Admins, GetAdmin(h, b) PROVE SuperInv'
  <2>1. NewJob("store", "done", jobs[h].actor, b, rows[b]).at = "store"
    BY DEF NewJob
  <2> QED
    BY <1>0, <1>q, <1>3, <2>1, OneJobKeeps DEF GetAdmin
<1>4. ASSUME NEW h \in Handlers, CacheAdmin(h) PROVE SuperInv'
  <2>1. UNCHANGED <<rows, raced>>
    BY <1>4 DEF CacheAdmin
  <2>2. CASE jobs[h].then = "admitted"
    <3>1. jobs[h] \in Job
      BY <1>0, <1>4, JobFields DEF CacheAdmin, At
    <3> DEFINE job == [jobs[h] EXCEPT !.at = "admitted"]
    <3>2. job.at = "admitted"
      BY <3>1 DEF Job
    <3>3. jobs' = [jobs EXCEPT ![h] = job]
      BY <1>4, <1>t, <2>2 DEF CacheAdmin
    <3>4. SuperKept'
      <4> HIDE DEF job
      <4> QED
        BY <1>0, <2>1, <3>2, <3>3, OneJobKeeps
    <3> QED
      BY <1>q, <2>1, <3>4
  <2>3. CASE jobs[h].then # "admitted"
    BY <1>0, <1>q, <1>4, <2>1, <2>3, OneJobKeeps DEF CacheAdmin, Finish
  <2> QED
    BY <2>2, <2>3
<1>5. ASSUME NEW h \in Handlers, Leave(h) PROVE SuperInv'
  BY <1>0, <1>q, <1>5, OneJobKeeps DEF Leave, Finish
<1>6. ASSUME NEW h \in Handlers, NEW b \in Admins, NEW role \in Roles, CreateAdmin(h, b, role)
      PROVE  SuperInv'
  <2>1. rows[b] = None /\ rows' = [rows EXCEPT ![b] = [role |-> role, status |-> "active"]]
        /\ raced' = raced /\ jobs' = [jobs EXCEPT ![h] = None]
    BY <1>6 DEF CreateAdmin, Finish
  <2>2. Super \in Row
    BY DEF Super, Row, Roles, Statuses
  <2>3. rows[b] # Super
    BY <2>1, <2>2, NoneAssumption
  <2>4. \A s \in Admins : s # b => rows'[s] = rows[s]
    BY <1>t, <2>1
  <2>5. ActiveSupers \subseteq ActiveSupers'
    BY <2>3, <2>4 DEF ActiveSupers, Super
  <2>6. SuperKept'
    <3> SUFFICES ASSUME NEW g \in Handlers, Sound(g)'
                 PROVE  \E s \in Admins : (IF s = jobs'[g].on THEN jobs'[g].row ELSE rows'[s]) = Super
      BY DEF SuperKept, Super
    <3>1. g # h /\ jobs'[g] = jobs[g]
      BY <1>t, <2>1 DEF Sound
    <3>2. Sound(g) /\ jobs[g] # None
      BY <3>1 DEF Sound
    <3>3. PICK s \in Admins : (IF s = jobs[g].on THEN jobs[g].row ELSE rows[s]) = Super
      BY <1>0, <3>2 DEF SuperKept
    <3>4. jobs[g].on # b
      BY <1>6, <3>2 DEF CreateAdmin
    <3> QED
      BY <2>3, <2>4, <3>1, <3>3, <3>4
  <2> QED
    BY <1>0, <2>1, <2>5, <2>6 DEF SuperInv, SuperAdminRemains
<1>7. ASSUME NEW h \in Handlers, NEW b \in Admins, NEW new \in Row, UpdateAdmin(h, b, new)
      PROVE  SuperInv'
  <2>1. /\ At(h, "admitted") /\ rows[b] # None
        /\ new.role # "super_admin" => OneOfSeveral(b)
        /\ jobs[h].actor = b /\ new.status = "suspended" => rows[b].status = "suspended"
        /\ Change(h, "save", b, new)
    BY <1>7 DEF UpdateAdmin, ActsAsSuper
  <2>2. ASSUME jobs[h].actor \in ActiveSupers
        PROVE  \E s \in Admins : (IF s = b THEN new ELSE rows[s]) = Super
    <3>1. jobs[h].actor \in Admins /\ rows[jobs[h].actor] = Super
      BY <2>2 DEF ActiveSupers
    <3>2. CASE jobs[h].actor # b
      BY <3>1, <3>2
    <3>3. CASE jobs[h].actor = b /\ new.role = "super_admin"
      <4>1. rows[b].status = "active"
        BY <3>1, <3>3 DEF Super
      <4>2. new.status = "active"
        BY <2>1, <3>3, <4>1 DEF Row, Statuses
      <4>3. new = Super
        BY <3>3, <4>2 DEF Super, Row
      <4> QED
        BY <4>3
    <3>4. CASE jobs[h].actor = b /\ new.role # "super_admin"
      <4>1. rows[b].role = "super_admin"
        BY <3>1, <3>4 DEF Super
      <4>2. PICK s \in ActiveSupers : s # b
        BY <2>1, <3>4, <4>1, AnotherSuper DEF OneOfSeveral
      <4> QED
        BY <4>2 DEF ActiveSupers
    <3> QED
      BY <3>2, <3>3, <3>4
  <2>3. SuperKept'
    BY <1>0, <2>1, <2>2, ChangeKeeps
  <2> QED
    BY <1>q, <2>1, <2>3 DEF Change
<1>8. ASSUME NEW h \in Handlers, NEW b \in Admins, DeleteAdmin(h, b) PROVE SuperInv'
  <2>1. At(h, "admitted") /\ jobs[h].actor # b /\ Change(h, "delete", b, None)
    BY <1>8 DEF DeleteAdmin, ActsAsSuper
  <2>2. jobs[h].actor \in ActiveSupers =>
          \E s \in Admins : (IF s = b THEN None ELSE rows[s]) = Super
    BY <2>1 DEF ActiveSupers
  <2>3. SuperKept'
    BY <1>0, <2>1, <2>2, ChangeKeeps
  <2> QED
    BY <1>q, <2>1, <2>3 DEF Change
<1>9. ASSUME NEW h \in Handlers, Write(h) PROVE SuperInv'
  <2>1. /\ jobs[h] # None /\ jobs[h].at \in {"save", "delete"}
        /\ rows' = [rows EXCEPT ![jobs[h].on] = jobs[h].row]
        /\ raced' = (raced \/ jobs[h].stale \/ jobs[h].overtaken)
    BY <1>9 DEF Write, At
  <2>2. SuperKept'
    <3> SUFFICES ASSUME NEW g \in Handlers, Sound(g)' PROVE FALSE
      BY DEF SuperKept
    <3>1. jobs'[g] # None
      BY DEF Sound
    <3>2. jobs[g] # None /\ jobs'[g] = [jobs[g] EXCEPT !.overtaken = TRUE]
      BY <1>9, <3>1 DEF Write
    <3>3. jobs'[g].overtaken
      BY <1>0, <3>2, JobFields DEF Job
    <3> QED
      BY <3>3 DEF Sound
  <2>3. SuperAdminRemains'
    <3>1. CASE Sound(h)
      <4>1. PICK s \in Admins : (IF s = jobs[h].on THEN jobs[h].row ELSE rows[s]) = Super
        BY <1>0, <3>1 DEF SuperKept
      <4>2. rows'[s] = Super
        BY <1>t, <2>1, <4>1
      <4> QED
        BY <4>2 DEF SuperAdminRemains, ActiveSupers, Super
    <3>2. CASE ~Sound(h)
      BY <2>1, <3>2 DEF Sound, SuperAdminRemains
    <3> QED
      BY <3>1, <3>2
  <2> QED
    BY <1>0, <2>2, <2>3 DEF SuperInv
<1>10. ASSUME NEW a \in Admins, ExpireCache(a) PROVE SuperInv'
  BY <1>0, <1>q, <1>10, QuietKeeps DEF ExpireCache
<1>11. CASE Restart
  <2>1. SuperKept'
    BY <1>11 DEF Restart, SuperKept, Sound
  <2> QED
    BY <1>q, <1>11, <2>1 DEF Restart
<1>12. CASE UNCHANGED vars
  BY <1>0, <1>q, <1>12, QuietKeeps DEF vars
<1> QED
  BY <1>1, <1>2, <1>3, <1>4, <1>5, <1>6, <1>7, <1>8, <1>9, <1>10, <1>11, <1>12
  DEF Next, SuperRequest

\* An active super administrator remains, unless a change was saved on facts
\* that no longer held (UpdateAdmin, DeleteAdmin).
THEOREM SuperRemains == Spec => []SuperAdminRemains
<1>1. Spec => []SuperInv
  BY SuperInit, SuperStep, PTL DEF Spec
<1> QED
  BY <1>1, PTL DEF SuperInv

-----------------------------------------------------------------------------
(* The cache. *)

\* An entry that is there while its row is about to be saved is marked.
ChangeSeen == \A h \in Handlers :
    jobs[h] # None /\ jobs[h].at \in {"save", "delete"} /\ cache[jobs[h].on] # None
        => cache[jobs[h].on].raced

CacheInv == TypeInv /\ CacheCurrent /\ ChangeSeen

\* A step after which every job about to save was one before, on the same row,
\* keeps the marks as long as no entry appears or loses its mark.
LEMMA SeenKept ==
    ASSUME ChangeSeen,
           \A g \in Handlers : jobs'[g] # None /\ jobs'[g].at \in {"save", "delete"} =>
              /\ jobs[g] # None /\ jobs[g].at = jobs'[g].at /\ jobs[g].on = jobs'[g].on
              /\ cache'[jobs[g].on] # None => cache'[jobs[g].on] = cache[jobs[g].on]
    PROVE  ChangeSeen'
BY DEF ChangeSeen

\* The same for a step that gives one handler a job that saves nothing.
LEMMA SeenKeptByOne ==
    ASSUME TypeInv, ChangeSeen, UNCHANGED cache, NEW h \in Handlers, NEW job,
           jobs' = [jobs EXCEPT ![h] = job],
           job # None => job.at \notin {"save", "delete"}
    PROVE  ChangeSeen'
<1>1. ASSUME NEW g \in Handlers, jobs'[g] # None, jobs'[g].at \in {"save", "delete"}
      PROVE  jobs'[g] = jobs[g]
  BY <1>1 DEF TypeInv, TypeOK
<1> QED
  BY <1>1, SeenKept

\* A change drops the entry of the row it is about.
LEMMA ChangeDrops ==
    ASSUME TypeInv, CacheCurrent, ChangeSeen, NEW h \in Handlers, At(h, "admitted"),
           NEW b \in Admins, NEW at \in {"save", "delete"}, NEW row, Change(h, at, b, row)
    PROVE  CacheCurrent' /\ ChangeSeen'
<1>1. /\ cache \in [Admins -> Entry \cup {None}] /\ jobs \in [Handlers -> Job \cup {None}]
      /\ rows' = rows /\ cache' = [cache EXCEPT ![b] = None]
  BY DEF Change, TypeInv, TypeOK
<1>2. jobs' = [jobs EXCEPT ![h] = ChangeJob(at, jobs[h].actor, b, row, jobs[h].actor \notin ActiveSupers)]
  BY DEF Change, ChangeJob
<1>3. CacheCurrent'
  BY <1>1 DEF CacheCurrent
<1>4. ASSUME NEW g \in Handlers, jobs'[g] # None, jobs'[g].at \in {"save", "delete"},
             cache'[jobs'[g].on] # None
      PROVE  cache'[jobs'[g].on].raced
  <2>1. CASE g = h
    <3>1. jobs'[g].on = b
      BY <1>1, <1>2, <2>1 DEF ChangeJob
    <3> QED
      BY <1>1, <1>4, <3>1
  <2>2. CASE g # h
    <3>1. jobs'[g] = jobs[g]
      BY <1>1, <1>2, <2>2
    <3>2. jobs[g].on \in Admins
      BY <1>4, <3>1, JobFields
    <3>3. jobs[g].on # b /\ cache'[jobs[g].on] = cache[jobs[g].on]
      BY <1>1, <1>4, <3>1, <3>2
    <3> QED
      BY <1>4, <3>1, <3>3 DEF ChangeSeen
  <2> QED
    BY <2>1, <2>2
<1> QED
  BY <1>3, <1>4 DEF ChangeSeen

LEMMA CacheInit == Init => CacheInv
BY TypeInit DEF Init, CacheInv, CacheCurrent, ChangeSeen

LEMMA CacheStep == CacheInv /\ [Next]_vars => CacheInv'
<1> SUFFICES ASSUME CacheInv, [Next]_vars PROVE CacheInv'
  OBVIOUS
<1>0. TypeInv /\ CacheCurrent /\ ChangeSeen /\ TypeInv'
  BY TypeStep DEF CacheInv
<1>t. /\ rows \in [Admins -> Row \cup {None}] /\ jobs \in [Handlers -> Job \cup {None}]
      /\ cache \in [Admins -> Entry \cup {None}]
  BY <1>0 DEF TypeInv, TypeOK
<1>q. ASSUME UNCHANGED <<rows, cache>>, ChangeSeen' PROVE CacheInv'
  BY <1>0, <1>q DEF CacheInv, CacheCurrent
<1>1. ASSUME NEW h \in Handlers, NEW a \in Admins, Login(h, a) PROVE CacheInv'
  <2>1. NewJob("store", "done", a, a, rows[a]).at = "store"
    BY DEF NewJob
  <2> QED
    BY <1>0, <1>q, <1>1, <2>1, SeenKeptByOne DEF Login
<1>2. ASSUME NEW h \in Handlers, NEW a \in Admins, ValidateToken(h, a) PROVE CacheInv'
  <2>1. /\ NewJob("admitted", "done", a, a, cache[a].row).at = "admitted"
        /\ NewJob("store", "admitted", a, a, rows[a]).at = "store"
    BY DEF NewJob
  <2>2. CASE cache[a] # None
    BY <1>0, <1>q, <1>2, <2>1, <2>2, SeenKeptByOne DEF ValidateToken
  <2>3. CASE cache[a] = None
    BY <1>0, <1>q, <1>2, <2>1, <2>3, SeenKeptByOne DEF ValidateToken
  <2> QED
    BY <2>2, <2>3
<1>3. ASSUME NEW h \in Handlers, NEW b \in Admins, GetAdmin(h, b) PROVE CacheInv'
  <2>1. NewJob("store", "done", jobs[h].actor, b, rows[b]).at = "store"
    BY DEF NewJob
  <2> QED
    BY <1>0, <1>q, <1>3, <2>1, SeenKeptByOne DEF GetAdmin
<1>4. ASSUME NEW h \in Handlers, CacheAdmin(h) PROVE CacheInv'
  <2> DEFINE b == jobs[h].on
             marked == Changing(b) \/ jobs[h].row # rows[b]
  <2>1. jobs[h] # None /\ jobs[h].at = "store" /\ jobs[h] \in Job /\ b \in Admins
    BY <1>0, <1>4, JobFields DEF CacheAdmin, At
  <2>2. rows' = rows /\ cache' = [cache EXCEPT ![b] = [row |-> jobs[h].row, raced |-> marked]]
    BY <1>4 DEF CacheAdmin
  <2>3. CacheCurrent'
    <3> SUFFICES ASSUME NEW a \in Admins, cache'[a] # None, cache'[a].row # rows'[a]
                 PROVE  cache'[a].raced
      BY DEF CacheCurrent
    <3>1. CASE a = b
      BY <1>t, <2>1, <2>2, <3>1
    <3>2. CASE a # b
      BY <1>0, <1>t, <2>1, <2>2, <3>2 DEF CacheCurrent
    <3> QED
      BY <3>1, <3>2
  <2>4. ASSUME NEW g \in Handlers, jobs'[g] # None, jobs'[g].at \in {"save", "delete"}
        PROVE  g # h /\ jobs'[g] = jobs[g]
    <3>1. CASE jobs[h].then = "admitted"
      <4>1. jobs' = [jobs EXCEPT ![h].at = "admitted"]
        BY <1>4, <3>1 DEF CacheAdmin
      <4>2. jobs'[h].at = "admitted"
        BY <1>t, <2>1, <4>1 DEF Job
      <4> QED
        BY <1>t, <2>4, <4>1, <4>2
    <3>2. CASE jobs[h].then # "admitted"
      <4>1. jobs' = [jobs EXCEPT ![h] = None]
        BY <1>4, <3>2 DEF CacheAdmin, Finish
      <4> QED
        BY <1>t, <2>4, <4>1
    <3> QED
      BY <3>1, <3>2
  <2>5. ChangeSeen'
    <3> SUFFICES ASSUME NEW g \in Handlers, jobs'[g] # None, jobs'[g].at \in {"save", "delete"},
                        cache'[jobs'[g].on] # None
                 PROVE  cache'[jobs'[g].on].raced
      BY DEF ChangeSeen
    <3>1. jobs'[g] = jobs[g]
      BY <2>4
    <3>2. jobs[g] # None /\ jobs[g].at \in {"save", "delete"} /\ jobs[g].on \in Admins
      BY <1>0, <3>1, JobFields
    <3>3. CASE jobs[g].on = b
      <4>1. Changing(b)
        BY <3>2, <3>3 DEF Changing
      <4>2. cache'[b].raced = marked
        BY <1>t, <2>1, <2>2
      <4> QED
        BY <3>1, <3>3, <4>1, <4>2
    <3>4. CASE jobs[g].on # b
      <4>1. cache'[jobs[g].on] = cache[jobs[g].on]
        BY <1>t, <2>1, <2>2, <3>2, <3>4
      <4> QED
        BY <1>0, <3>1, <3>2, <4>1 DEF ChangeSeen
    <3> QED
      BY <3>3, <3>4
  <2> QED
    BY <1>0, <2>3, <2>5 DEF CacheInv
<1>5. ASSUME NEW h \in Handlers, Leave(h) PROVE CacheInv'
  BY <1>0, <1>q, <1>5, SeenKeptByOne DEF Leave, Finish
<1>6. ASSUME NEW h \in Handlers, NEW b \in Admins, NEW role \in Roles, CreateAdmin(h, b, role)
      PROVE  CacheInv'
  <2>1. /\ rows[b] = None /\ rows' = [rows EXCEPT ![b] = [role |-> role, status |-> "active"]]
        /\ cache' = cache /\ jobs' = [jobs EXCEPT ![h] = None]
    BY <1>6 DEF CreateAdmin, Finish
  <2>2. ChangeSeen'
    BY <1>0, <2>1, SeenKeptByOne
  <2>3. ASSUME NEW a \in Admins, cache'[a] # None, cache'[a].row # rows'[a]
        PROVE  cache'[a].raced
    <3>1. CASE a = b
      <4>1. cache[b] \in Entry
        BY <1>t, <2>1, <2>3, <3>1
      <4>2. cache[b].row \in Row
        BY <4>1 DEF Entry
      <4>3. cache[b].row # rows[b]
        BY <2>1, <4>2, NoneAssumption
      <4> QED
        BY <1>0, <2>1, <2>3, <3>1, <4>3 DEF CacheCurrent
    <3>2. CASE a # b
      BY <1>0, <1>t, <2>1, <2>3, <3>2 DEF CacheCurrent
    <3> QED
      BY <3>1, <3>2
  <2> QED
    BY <1>0, <2>2, <2>3 DEF CacheInv, CacheCurrent
<1>7. ASSUME NEW h \in Handlers, NEW b \in Admins, NEW new \in Row, UpdateAdmin(h, b, new)
      PROVE  CacheInv'
  BY <1>0, <1>7, ChangeDrops DEF UpdateAdmin, ActsAsSuper, CacheInv
<1>8. ASSUME NEW h \in Handlers, NEW b \in Admins, DeleteAdmin(h, b) PROVE CacheInv'
  BY <1>0, <1>8, ChangeDrops DEF DeleteAdmin, ActsAsSuper, CacheInv
<1>9. ASSUME NEW h \in Handlers, Write(h) PROVE CacheInv'
  <2>1. /\ jobs[h] # None /\ jobs[h].at \in {"save", "delete"} /\ cache' = cache
        /\ rows' = [rows EXCEPT ![jobs[h].on] = jobs[h].row]
    BY <1>9 DEF Write, At
  <2>2. jobs[h].on \in Admins
    BY <1>0, <2>1, JobFields
  <2>3. ASSUME NEW a \in Admins, cache'[a] # None, cache'[a].row # rows'[a]
        PROVE  cache'[a].raced
    <3>1. CASE a = jobs[h].on
      BY <1>0, <2>1, <2>3, <3>1 DEF ChangeSeen
    <3>2. CASE a # jobs[h].on
      BY <1>0, <1>t, <2>1, <2>2, <2>3, <3>2 DEF CacheCurrent
    <3> QED
      BY <3>1, <3>2
  <2>4. ASSUME NEW g \in Handlers, jobs'[g] # None
        PROVE  jobs[g] # None /\ jobs[g].at = jobs'[g].at /\ jobs[g].on = jobs'[g].on
    <3>1. jobs[g] # None /\ jobs'[g] = [jobs[g] EXCEPT !.overtaken = TRUE]
      BY <1>9, <2>4 DEF Write
    <3> QED
      BY <1>0, <3>1, JobFields DEF Job
  <2>5. ChangeSeen'
    BY <1>0, <2>1, <2>4, SeenKept
  <2> QED
    BY <1>0, <2>3, <2>5 DEF CacheInv, CacheCurrent
<1>10. ASSUME NEW a \in Admins, ExpireCache(a) PROVE CacheInv'
  <2>1. cache' = [cache EXCEPT ![a] = None] /\ UNCHANGED <<rows, jobs>>
    BY <1>10 DEF ExpireCache
  <2>2. CacheCurrent'
    BY <1>0, <1>t, <2>1 DEF CacheCurrent
  <2>3. ASSUME NEW g \in Handlers, jobs[g] # None, cache'[jobs[g].on] # None
        PROVE  cache'[jobs[g].on] = cache[jobs[g].on]
    BY <1>0, <1>t, <2>1, <2>3, JobFields
  <2>4. ChangeSeen'
    BY <1>0, <2>1, <2>3 DEF ChangeSeen
  <2> QED
    BY <1>0, <2>2, <2>4 DEF CacheInv
<1>11. CASE Restart
  BY <1>0, <1>11 DEF Restart, CacheInv, CacheCurrent, ChangeSeen
<1>12. CASE UNCHANGED vars
  <2>1. UNCHANGED <<rows, cache, jobs>>
    BY <1>12 DEF vars
  <2>2. ChangeSeen'
    BY <1>0, <2>1 DEF ChangeSeen
  <2> QED
    BY <1>q, <2>1, <2>2
<1> QED
  BY <1>1, <1>2, <1>3, <1>4, <1>5, <1>6, <1>7, <1>8, <1>9, <1>10, <1>11, <1>12
  DEF Next, SuperRequest

\* The cache says what the database says, unless the entry was stored in the
\* middle of a change or from a read a change had overtaken (invalidateCache).
THEOREM CacheIsCurrent == Spec => []CacheCurrent
<1>1. Spec => []CacheInv
  BY CacheInit, CacheStep, PTL DEF Spec
<1> QED
  BY <1>1, PTL DEF CacheInv

=============================================================================
