------------------------- MODULE MemberQuotasProofs -------------------------
(* Types, UsageKept, Linked and OvershootBounded, for any members, quotas,    *)
(* callers and limits.                                                       *)
(*                                                                           *)
(* UsageKept alone is not inductive: that a save loses no usage depends on   *)
(* what the copy being saved has in common with the row.  A copy that nobody *)
(* has overtaken equals the user's row, and its usage is that of the live    *)
(* quota or none (CopiesFresh); a job that names a quota names a row that    *)
(* is there (Holds); nothing was counted on a row that is not (Fresh).       *)
(*                                                                           *)
(* LInv strengthens the other two on top of that: LinkOrder says what a       *)
(* creation and a deletion have done of their two changes, and that a         *)
(* creation which nobody has overtaken is not about to link a quota that is   *)
(* being removed.                                                            *)
EXTENDS MemberQuotas, FiniteSetTheorems, TLAPS

(* What a job carries at each of its points.                                  *)
JobHolds(j) ==
    /\ j.id # None => j.id \in Ids /\ quotas[j.id] # None
    /\ j.at \in {"link", "readUser", "unlink", "remove", "quota", "use"} => j.id # None
    /\ j.at \in {"insert", "link", "unlink", "user"} => j.userRow # None
    /\ j.at = "quota" <=> j.quotaRow # None

JobFresh(j) ==
    /\ j.userRow # None => j.userRow = users[j.user]
    /\ j.quotaRow # None => /\ j.id # None /\ Live(j.id)
                            /\ j.quotaRow.used \in {0, quotas[j.id].used}

Holds       == \A c \in Callers : jobs[c] # None => JobHolds(jobs[c])
CopiesFresh == \A c \in Callers : jobs[c] # None /\ ~jobs[c].overtaken => JobFresh(jobs[c])

Fresh == \A i \in Ids : quotas[i] = None => counted[i] = 0

IInv == TypeOK /\ Holds /\ CopiesFresh /\ Fresh /\ UsageKept

-----------------------------------------------------------------------------
(* Jobs.                                                                     *)

LEMMA NoneApart == None \notin UserRow /\ None \notin QuotaRow /\ None \notin Job
                   /\ None \notin Ids /\ None \notin Callers
  BY NoneAssumption, QuotaAssumption

(* Being overtaken changes nothing else of a job.                             *)
LEMMA OvertakeFields ==
  ASSUME NEW d \in Callers, jobs[d] \in Job \cup {None}, NEW wrote \in BOOLEAN
  PROVE  LET j == Overtake(d, wrote) IN
         /\ j \in Job \cup {None}
         /\ jobs[d] = None <=> j = None
         /\ jobs[d] # None =>
              /\ j.at = jobs[d].at /\ j.user = jobs[d].user /\ j.id = jobs[d].id
              /\ j.userRow = jobs[d].userRow /\ j.quotaRow = jobs[d].quotaRow
              /\ j.overtaken = (jobs[d].overtaken \/ wrote)
<1>1. CASE jobs[d] # None /\ wrote
  <2>1. jobs[d] \in Job /\ Overtake(d, wrote) = [jobs[d] EXCEPT !.overtaken = TRUE]
    BY <1>1 DEF Overtake
  <2>2. [jobs[d] EXCEPT !.overtaken = TRUE] \in Job
    BY <2>1 DEF Job
  <2>3. Overtake(d, wrote) # None
    BY <2>1, <2>2, NoneApart
  <2> QED
    BY <1>1, <2>1, <2>2, <2>3 DEF Job
<1>2. CASE ~(jobs[d] # None /\ wrote)
  <2>1. Overtake(d, wrote) = jobs[d]
    BY <1>2 DEF Overtake
  <2>2. jobs[d] # None => jobs[d].overtaken \in BOOLEAN
    BY DEF Job
  <2> QED
    BY <1>2, <2>1, <2>2
<1> QED
  BY <1>1, <1>2

LEMMA JobFields ==
  ASSUME IInv, NEW c \in Callers, jobs[c] # None
  PROVE  /\ jobs[c] \in Job /\ JobHolds(jobs[c])
         /\ ~jobs[c].overtaken => JobFresh(jobs[c])
         /\ jobs[c].user \in Users /\ jobs[c].id \in Ids \cup {None}
         /\ jobs[c].userRow \in UserRow \cup {None}
         /\ jobs[c].quotaRow \in QuotaRow \cup {None}
         /\ jobs[c].overtaken \in BOOLEAN
<1>1. jobs[c] \in Job
  BY DEF IInv, TypeOK
<1>2. JobHolds(jobs[c]) /\ (~jobs[c].overtaken => JobFresh(jobs[c]))
  BY DEF IInv, Holds, CopiesFresh
<1> QED
  BY <1>1, <1>2 DEF Job

(* The jobs after a step that writes neither row, a user's row, a quota.      *)
JobsOK == jobs \in [Callers -> Job \cup {None}] /\ Holds /\ CopiesFresh

LEMMA GotoKeeps ==
  ASSUME IInv, NEW c \in Callers, NEW job \in Job \cup {None},
         job # None => JobHolds(job) /\ (~job.overtaken => JobFresh(job)),
         jobs' = [jobs EXCEPT ![c] = job], UNCHANGED <<users, quotas>>
  PROVE  JobsOK'
<1>1. jobs \in [Callers -> Job \cup {None}]
  BY DEF IInv, TypeOK
<1>2. jobs' \in [Callers -> Job \cup {None}]
  BY <1>1
<1>3. ASSUME NEW d \in Callers, jobs'[d] # None
      PROVE  JobHolds(jobs[d])' /\ (~jobs'[d].overtaken => JobFresh(jobs[d])')
  <2>1. CASE d = c
    <3>1. jobs'[d] = job
      BY <1>1, <2>1
    <3> QED
      BY <1>3, <3>1 DEF JobHolds, JobFresh, Live
  <2>2. CASE d # c
    <3>1. jobs'[d] = jobs[d]
      BY <1>1, <2>2
    <3> QED
      BY <1>3, <3>1, JobFields DEF JobHolds, JobFresh, Live
  <2> QED
    BY <2>1, <2>2
<1> QED
  BY <1>2, <1>3 DEF JobsOK, Holds, CopiesFresh

LEMMA WroteUserKeeps ==
  ASSUME IInv, NEW c \in Callers \cup {None}, NEW u \in Users, NEW job \in Job \cup {None},
         job # None => JobHolds(job) /\ job.userRow = None /\ (~job.overtaken => JobFresh(job)),
         WroteUser(c, u, job), \A v \in Users : v # u => users'[v] = users[v],
         UNCHANGED quotas
  PROVE  JobsOK'
<1>1. jobs \in [Callers -> Job \cup {None}]
  BY DEF IInv, TypeOK
<1>2. ASSUME NEW d \in Callers
      PROVE  /\ jobs'[d] \in Job \cup {None}
             /\ jobs'[d] # None => JobHolds(jobs[d])' /\ (~jobs'[d].overtaken => JobFresh(jobs[d])')
  <2>1. CASE d = c
    <3>1. jobs'[d] = job
      BY <2>1 DEF WroteUser
    <3> QED
      BY <3>1 DEF JobHolds, JobFresh, Live
  <2>2. CASE d # c
    <3> DEFINE wrote == jobs[d].user = u /\ jobs[d].userRow # None
    <3>1. jobs'[d] = Overtake(d, wrote)
      BY <2>2 DEF WroteUser
    <3>2. wrote \in BOOLEAN /\ jobs[d] \in Job \cup {None}
      BY <1>1
    <3> HIDE DEF wrote
    <3>3. /\ jobs'[d] \in Job \cup {None} /\ (jobs[d] = None <=> jobs'[d] = None)
          /\ jobs[d] # None =>
               /\ jobs'[d].at = jobs[d].at /\ jobs'[d].user = jobs[d].user /\ jobs'[d].id = jobs[d].id
               /\ jobs'[d].userRow = jobs[d].userRow /\ jobs'[d].quotaRow = jobs[d].quotaRow
               /\ jobs'[d].overtaken = (jobs[d].overtaken \/ wrote)
      BY <3>1, <3>2, OvertakeFields
    <3>4. ASSUME jobs'[d] # None PROVE JobHolds(jobs[d])'
      BY <3>3, <3>4, JobFields DEF JobHolds
    <3>5. ASSUME jobs'[d] # None, ~jobs'[d].overtaken PROVE JobFresh(jobs[d])'
      <4>1. jobs[d] # None /\ ~jobs[d].overtaken /\ ~wrote
        BY <3>3, <3>5
      <4>2. JobFresh(jobs[d]) /\ jobs[d].user \in Users
        BY <4>1, JobFields
      <4>3. jobs[d].userRow # None => users'[jobs[d].user] = users[jobs[d].user]
        BY <4>1, <4>2 DEF wrote
      <4> QED
        BY <3>3, <4>1, <4>2, <4>3 DEF JobFresh, Live
    <3> QED
      BY <3>3, <3>4, <3>5
  <2> QED
    BY <2>1, <2>2
<1>3. jobs' \in [Callers -> Job \cup {None}]
  BY <1>2 DEF WroteUser
<1> QED
  BY <1>2, <1>3 DEF JobsOK, Holds, CopiesFresh

LEMMA WroteQuotaKeeps ==
  ASSUME IInv, NEW c \in Callers, NEW i \in Ids, NEW row \in QuotaRow,
         WroteQuota(c, i, None), quotas' = [quotas EXCEPT ![i] = row],
         UNCHANGED users
  PROVE  JobsOK'
<1>1. jobs \in [Callers -> Job \cup {None}] /\ quotas \in [Ids -> QuotaRow \cup {None}]
  BY DEF IInv, TypeOK
<1>2. ASSUME NEW d \in Callers
      PROVE  /\ jobs'[d] \in Job \cup {None}
             /\ jobs'[d] # None => JobHolds(jobs[d])' /\ (~jobs'[d].overtaken => JobFresh(jobs[d])')
  <2>1. CASE d = c
    BY <2>1 DEF WroteQuota
  <2>2. CASE d # c
    <3> DEFINE wrote == jobs[d].id = i /\ jobs[d].quotaRow # None
    <3>1. jobs'[d] = Overtake(d, wrote)
      BY <2>2 DEF WroteQuota
    <3>2. wrote \in BOOLEAN /\ jobs[d] \in Job \cup {None}
      BY <1>1
    <3> HIDE DEF wrote
    <3>3. /\ jobs'[d] \in Job \cup {None} /\ (jobs[d] = None <=> jobs'[d] = None)
          /\ jobs[d] # None =>
               /\ jobs'[d].at = jobs[d].at /\ jobs'[d].user = jobs[d].user /\ jobs'[d].id = jobs[d].id
               /\ jobs'[d].userRow = jobs[d].userRow /\ jobs'[d].quotaRow = jobs[d].quotaRow
               /\ jobs'[d].overtaken = (jobs[d].overtaken \/ wrote)
      BY <3>1, <3>2, OvertakeFields
    <3>4. ASSUME jobs'[d] # None PROVE JobHolds(jobs[d])'
      <4>1. JobHolds(jobs[d])
        BY <3>3, <3>4, JobFields
      <4>2. jobs[d].id # None => quotas'[jobs[d].id] # None
        BY <1>1, <4>1, NoneApart DEF JobHolds
      <4> QED
        BY <3>3, <3>4, <4>1, <4>2 DEF JobHolds
    <3>5. ASSUME jobs'[d] # None, ~jobs'[d].overtaken PROVE JobFresh(jobs[d])'
      <4>1. jobs[d] # None /\ ~jobs[d].overtaken /\ ~wrote
        BY <3>3, <3>5
      <4>2. JobFresh(jobs[d])
        BY <4>1, JobFields
      <4>3. jobs[d].quotaRow # None => jobs[d].id # i
        BY <4>1 DEF wrote
      <4>4. jobs[d].quotaRow # None => quotas'[jobs[d].id] = quotas[jobs[d].id]
        BY <1>1, <4>3
      <4> QED
        BY <3>3, <4>1, <4>2, <4>4 DEF JobFresh, Live
    <3> QED
      BY <3>3, <3>4, <3>5
  <2> QED
    BY <2>1, <2>2
<1>3. jobs' \in [Callers -> Job \cup {None}]
  BY <1>2 DEF WroteQuota
<1> QED
  BY <1>2, <1>3 DEF JobsOK, Holds, CopiesFresh

-----------------------------------------------------------------------------
(* The invariant after the steps that only read.                             *)
LEMMA Remains ==
  ASSUME IInv, JobsOK', UNCHANGED <<users, quotas, counted, paid>>,
         late' \in BOOLEAN, late => late', halfway' \in BOOLEAN
  PROVE  IInv'
<1>1. TypeOK'
  BY DEF IInv, TypeOK, JobsOK
<1>2. Holds' /\ CopiesFresh'
  BY DEF JobsOK
<1>3. Fresh' /\ UsageKept'
  BY DEF IInv, Fresh, UsageKept, Live
<1> QED
  BY <1>1, <1>2, <1>3 DEF IInv

LEMMA Flags == IInv => late \in BOOLEAN /\ halfway \in BOOLEAN
  BY DEF IInv, TypeOK

(* A step that leaves the rows alone gives the caller a new job or none.      *)
LEMMA ReadsRemain ==
  ASSUME IInv, NEW c \in Callers, NEW job \in Job \cup {None},
         job # None => JobHolds(job) /\ (~job.overtaken => JobFresh(job)),
         Goto(c, job), UNCHANGED <<users, quotas, counted, paid>>,
         late' \in BOOLEAN, late => late', halfway' \in BOOLEAN
  PROVE  IInv'
<1>1. jobs' = [jobs EXCEPT ![c] = job]
  BY DEF Goto
<1>2. JobsOK'
  BY <1>1, GotoKeeps
<1> QED
  BY <1>2, Remains

(* A job that goes on with some of its fields changed.                        *)
LEMMA ChangedJob ==
  ASSUME NEW j \in Job, NEW at \in {"link", "remove"}, NEW i \in Ids
  PROVE  /\ LET k == [j EXCEPT !.at = at, !.id = i] IN
            /\ k \in Job /\ k # None /\ k.at = at /\ k.user = j.user /\ k.id = i
            /\ k.userRow = j.userRow /\ k.quotaRow = j.quotaRow /\ k.overtaken = j.overtaken
         /\ LET k == [j EXCEPT !.at = at] IN
            /\ k \in Job /\ k # None /\ k.at = at /\ k.user = j.user /\ k.id = j.id
            /\ k.userRow = j.userRow /\ k.quotaRow = j.quotaRow /\ k.overtaken = j.overtaken
         /\ LET k == [j EXCEPT !.at = at, !.userRow = None] IN
            /\ k \in Job /\ k # None /\ k.at = at /\ k.user = j.user /\ k.id = j.id
            /\ k.userRow = None /\ k.quotaRow = j.quotaRow /\ k.overtaken = j.overtaken
<1>1. [j EXCEPT !.at = at, !.id = i] \in Job /\ [j EXCEPT !.at = at] \in Job
      /\ [j EXCEPT !.at = at, !.userRow = None] \in Job
  BY DEF Job
<1>2. [j EXCEPT !.at = at, !.id = i] # None /\ [j EXCEPT !.at = at] # None
      /\ [j EXCEPT !.at = at, !.userRow = None] # None
  BY <1>1, NoneApart
<1> QED
  BY <1>1, <1>2 DEF Job

-----------------------------------------------------------------------------
(* Reading steps.                                                            *)

LEMMA CreateMemberQuotaStep ==
  ASSUME IInv, NEW c \in Callers, NEW u \in Users, CreateMemberQuota(c, u)
  PROVE  IInv'
<1> DEFINE job == NewJob("insert", u, None, users[u], None)
<1>1. users[u] \in UserRow
  BY DEF IInv, TypeOK
<1>2a. job \in Job
  BY <1>1 DEF NewJob, Job
<1>2. /\ job \in Job /\ job # None /\ job.at = "insert" /\ job.user = u /\ job.id = None
      /\ job.userRow = users[u] /\ job.quotaRow = None /\ job.overtaken = FALSE
  BY <1>2a, NoneApart DEF NewJob
<1>3. Goto(c, job) /\ UNCHANGED <<users, quotas, counted, paid, late, halfway>>
  BY DEF CreateMemberQuota
<1> HIDE DEF job
<1>4. JobHolds(job) /\ JobFresh(job)
  BY <1>1, <1>2, NoneApart DEF JobHolds, JobFresh
<1> QED
  BY <1>2, <1>3, <1>4, Flags, ReadsRemain

LEMMA DeleteMemberQuotaStep ==
  ASSUME IInv, NEW c \in Callers, NEW i \in Ids, DeleteMemberQuota(c, i)
  PROVE  IInv'
<1> DEFINE job == NewJob("readUser", quotas[i].user, i, None, None)
<1>1. quotas[i] \in QuotaRow /\ quotas[i] # None
  BY DEF DeleteMemberQuota, Live, IInv, TypeOK
<1>2. quotas[i].user \in Users
  BY <1>1 DEF QuotaRow
<1>3a. job \in Job
  BY <1>2 DEF NewJob, Job
<1>3. /\ job \in Job /\ job # None /\ job.at = "readUser" /\ job.id = i
      /\ job.userRow = None /\ job.quotaRow = None /\ job.overtaken = FALSE
  BY <1>3a, NoneApart DEF NewJob
<1>4. Goto(c, job) /\ UNCHANGED <<users, quotas, counted, paid, late, halfway>>
  BY DEF DeleteMemberQuota
<1> HIDE DEF job
<1>5. JobHolds(job) /\ JobFresh(job)
  BY <1>1, <1>3, NoneApart DEF JobHolds, JobFresh
<1> QED
  BY <1>3, <1>4, <1>5, Flags, ReadsRemain

LEMMA ReadUserStep ==
  ASSUME IInv, NEW c \in Callers, ReadUser(c)
  PROVE  IInv'
<1>1. /\ jobs[c] \in Job /\ JobHolds(jobs[c]) /\ jobs[c].at = "readUser"
      /\ ~jobs[c].overtaken => JobFresh(jobs[c])
      /\ jobs[c].user \in Users /\ jobs[c].id \in Ids /\ quotas[jobs[c].id] # None
  BY JobFields DEF ReadUser, Busy, JobHolds
<1>2. UNCHANGED <<users, quotas, counted, paid, late>>
  BY DEF ReadUser
<1>3. CASE /\ Goto(c, NewJob("unlink", jobs[c].user, jobs[c].id, users[jobs[c].user], None))
           /\ UNCHANGED halfway
  <2> DEFINE job == NewJob("unlink", jobs[c].user, jobs[c].id, users[jobs[c].user], None)
  <2>1. users[jobs[c].user] \in UserRow
    BY <1>1 DEF IInv, TypeOK
  <2>2a. job \in Job
    BY <1>1, <2>1 DEF NewJob, Job
  <2>2. /\ job \in Job /\ job # None /\ job.at = "unlink" /\ job.id = jobs[c].id
        /\ job.user = jobs[c].user
        /\ job.userRow = users[jobs[c].user] /\ job.quotaRow = None /\ job.overtaken = FALSE
    BY <2>2a, NoneApart DEF NewJob
  <2>3. Goto(c, job)
    BY <1>3
  <2> HIDE DEF job
  <2>4. JobHolds(job) /\ JobFresh(job)
    BY <1>1, <2>1, <2>2, NoneApart DEF JobHolds, JobFresh
  <2> QED
    BY <1>2, <1>3, <2>2, <2>3, <2>4, Flags, ReadsRemain
<1>4. CASE Goto(c, [jobs[c] EXCEPT !.at = "remove"]) /\ halfway' = TRUE
  <2> DEFINE job == [jobs[c] EXCEPT !.at = "remove"]
  <2>1. /\ job \in Job /\ job # None /\ job.at = "remove" /\ job.user = jobs[c].user
        /\ job.id = jobs[c].id /\ job.userRow = jobs[c].userRow
        /\ job.quotaRow = jobs[c].quotaRow /\ job.overtaken = jobs[c].overtaken
    BY <1>1, ChangedJob
  <2>2. Goto(c, job)
    BY <1>4
  <2> HIDE DEF job
  <2>3. JobHolds(job) /\ (~job.overtaken => JobFresh(job))
    BY <1>1, <2>1, NoneApart DEF JobHolds, JobFresh
  <2> QED
    BY <1>2, <1>4, <2>1, <2>2, <2>3, Flags, ReadsRemain
<1> QED
  BY <1>3, <1>4 DEF ReadUser

(* The copies that ReadQuota holds differ from the row in no more than its    *)
(* usage being reset.                                                        *)
LEMMA ReadQuotaStep ==
  ASSUME IInv, NEW c \in Callers, NEW i \in Ids, ReadQuota(c, i)
  PROVE  IInv'
<1> DEFINE q == quotas[i]
<1>1. q \in QuotaRow /\ q # None /\ q.live
  BY DEF ReadQuota, Live, IInv, TypeOK
<1>2. q.user \in Users
  BY <1>1 DEF QuotaRow
<1>3. PICK row \in UpdateMemberQuota(q) \cup SetTokenQuotaLimit(q) \cup SetCostLimit(q)
                     \cup {ResetMemberQuota(q), SuspendMember(q), ActivateMember(q)} :
         Goto(c, NewJob("quota", q.user, i, None, row))
  BY DEF ReadQuota
<1>4. UNCHANGED <<users, quotas, counted, paid, late, halfway>>
  BY DEF ReadQuota
<1>5. row \in QuotaRow /\ row.used \in {0, q.used}
  <2> HIDE DEF q
  <2>1. CASE row \in UpdateMemberQuota(q)
    BY <1>1, <2>1 DEF UpdateMemberQuota, QuotaRow
  <2>2. CASE row \in SetTokenQuotaLimit(q)
    <3>1. PICK n \in Limits : row = [q EXCEPT !.limit = n]
      BY <2>2 DEF SetTokenQuotaLimit
    <3> QED
      BY <1>1, <3>1 DEF QuotaRow
  <2>3. CASE row \in SetCostLimit(q)
    BY <1>1, <2>3 DEF SetCostLimit
  <2>4. CASE row \in {ResetMemberQuota(q), SuspendMember(q), ActivateMember(q)}
    <3>1. [q EXCEPT !.used = 0, !.status = "active"] \in QuotaRow
      BY <1>1 DEF QuotaRow
    <3>2. [q EXCEPT !.status = "suspended"] \in QuotaRow /\ [q EXCEPT !.status = "active"] \in QuotaRow
      BY <1>1 DEF QuotaRow
    <3>3. /\ [q EXCEPT !.used = 0, !.status = "active"].used = 0
          /\ [q EXCEPT !.status = "suspended"].used = q.used
          /\ [q EXCEPT !.status = "active"].used = q.used
      BY <1>1 DEF QuotaRow
    <3> QED
      BY <2>4, <3>1, <3>2, <3>3 DEF ResetMemberQuota, SuspendMember, ActivateMember
  <2> QED
    BY <1>3, <2>1, <2>2, <2>3, <2>4
<1> DEFINE job == NewJob("quota", q.user, i, None, row)
<1>6a. job \in Job
  BY <1>2, <1>5 DEF NewJob, Job
<1>6. /\ job \in Job /\ job # None /\ job.at = "quota" /\ job.id = i
      /\ job.userRow = None /\ job.quotaRow = row /\ job.overtaken = FALSE
  BY <1>6a, NoneApart DEF NewJob
<1> HIDE DEF job
<1>7. row # None
  BY <1>5, NoneApart
<1>8. JobHolds(job) /\ JobFresh(job)
  BY <1>1, <1>5, <1>6, <1>7, NoneApart DEF JobHolds, JobFresh, Live
<1> QED
  BY <1>3, <1>4, <1>6, <1>8, Flags, ReadsRemain DEF job

LEMMA SetUserBudgetStep ==
  ASSUME IInv, NEW c \in Callers, NEW u \in Users, SetUserBudget(c, u)
  PROVE  IInv'
<1> DEFINE job == NewJob("user", u, None, users[u], None)
<1>1. users[u] \in UserRow
  BY DEF IInv, TypeOK
<1>2a. job \in Job
  BY <1>1 DEF NewJob, Job
<1>2. /\ job \in Job /\ job # None /\ job.at = "user" /\ job.user = u /\ job.id = None
      /\ job.userRow = users[u] /\ job.quotaRow = None /\ job.overtaken = FALSE
  BY <1>2a, NoneApart DEF NewJob
<1>3. Goto(c, job) /\ UNCHANGED <<users, quotas, counted, paid, late, halfway>>
  BY DEF SetUserBudget
<1> HIDE DEF job
<1>4. JobHolds(job) /\ JobFresh(job)
  BY <1>1, <1>2, NoneApart DEF JobHolds, JobFresh
<1> QED
  BY <1>2, <1>3, <1>4, Flags, ReadsRemain

LEMMA CheckMemberQuotaStep ==
  ASSUME IInv, NEW c \in Callers, NEW i \in Ids, CheckMemberQuota(c, i)
  PROVE  IInv'
<1> DEFINE job == NewJob("use", quotas[i].user, i, None, None)
<1>1. quotas[i] \in QuotaRow /\ quotas[i] # None
  BY DEF CheckMemberQuota, Live, IInv, TypeOK
<1>2. quotas[i].user \in Users
  BY <1>1 DEF QuotaRow
<1>3a. job \in Job
  BY <1>2 DEF NewJob, Job
<1>3. /\ job \in Job /\ job # None /\ job.at = "use" /\ job.id = i
      /\ job.userRow = None /\ job.quotaRow = None /\ job.overtaken = FALSE
  BY <1>3a, NoneApart DEF NewJob
<1>4. Goto(c, job) /\ UNCHANGED <<users, quotas, counted, paid, late, halfway>>
  BY DEF CheckMemberQuota
<1> HIDE DEF job
<1>5. JobHolds(job) /\ JobFresh(job)
  BY <1>1, <1>3, NoneApart DEF JobHolds, JobFresh
<1> QED
  BY <1>3, <1>4, <1>5, Flags, ReadsRemain

(* A caller that gives up leaves the rows alone.                              *)
LEMMA GiveUpStep ==
  ASSUME IInv, NEW c \in Callers, Goto(c, None), UNCHANGED <<users, quotas, counted, paid, late>>,
         halfway' \in BOOLEAN
  PROVE  IInv'
  BY Flags, ReadsRemain

-----------------------------------------------------------------------------
(* Writing steps: the rows first, then the history.                          *)

LEMMA CreateStep ==
  ASSUME IInv, NEW c \in Callers, Create(c)
  PROVE  IInv'
<1> DEFINE u == jobs[c].user
<1>1. /\ jobs[c] \in Job /\ JobHolds(jobs[c]) /\ jobs[c].at = "insert"
      /\ ~jobs[c].overtaken => JobFresh(jobs[c])
      /\ u \in Users /\ jobs[c].userRow # None /\ jobs[c].quotaRow = None
  BY JobFields DEF Create, Busy, JobHolds
<1>2. UNCHANGED <<users, counted, paid, late, halfway>>
  BY DEF Create
<1>3. ASSUME Goto(c, None), UNCHANGED quotas PROVE IInv'
  BY <1>2, <1>3, Flags, GiveUpStep
<1>4. ASSUME NEW i \in Ids, NEW n \in Limits, quotas[i] = None,
             quotas' = [quotas EXCEPT ![i] = [live |-> TRUE, user |-> u, status |-> "active",
                                              limit |-> n, used |-> 0]],
             Goto(c, [jobs[c] EXCEPT !.at = "link", !.id = i])
      PROVE  IInv'
  <2> DEFINE row == [live |-> TRUE, user |-> u, status |-> "active", limit |-> n, used |-> 0]
             job == [jobs[c] EXCEPT !.at = "link", !.id = i]
  <2>1. row \in QuotaRow /\ row.used = 0
    BY <1>1 DEF QuotaRow
  <2>2. /\ job \in Job /\ job # None /\ job.at = "link" /\ job.user = u /\ job.id = i
        /\ job.userRow = jobs[c].userRow /\ job.quotaRow = jobs[c].quotaRow
        /\ job.overtaken = jobs[c].overtaken
    <3>1. job \in Job
      BY <1>1 DEF Job
    <3> QED
      BY <1>1, <3>1, NoneApart DEF Job
  <2>3a. jobs' = [jobs EXCEPT ![c] = job]
    BY <1>4 DEF Goto
  <2>3b. quotas' = [quotas EXCEPT ![i] = row]
    BY <1>4
  <2>3. jobs' = [jobs EXCEPT ![c] = job] /\ quotas' = [quotas EXCEPT ![i] = row]
    BY <2>3a, <2>3b
  <2> HIDE DEF row, job
  <2>4. quotas \in [Ids -> QuotaRow \cup {None}] /\ jobs \in [Callers -> Job \cup {None}]
    BY DEF IInv, TypeOK
  <2>5. quotas' \in [Ids -> QuotaRow \cup {None}] /\ jobs' \in [Callers -> Job \cup {None}]
    BY <2>1, <2>2, <2>3, <2>4
  <2>6. row # None
    BY <2>1, NoneApart
  <2>7. ASSUME NEW d \in Callers, jobs'[d] # None
        PROVE  JobHolds(jobs[d])' /\ (~jobs'[d].overtaken => JobFresh(jobs[d])')
    <3>1. CASE d = c
      <4>1. jobs'[d] = job /\ quotas'[i] = row
        BY <2>3, <2>4, <3>1
      <4>2. JobHolds(jobs[d])'
        <5>1. job.at = "link" /\ job.id = i /\ job.userRow # None /\ job.quotaRow = None
          BY <1>1, <2>2
        <5>2. quotas'[job.id] # None /\ job.id \in Ids
          BY <2>6, <4>1, <5>1
        <5>3. /\ jobs'[d].at = "link" /\ jobs'[d].id = i /\ jobs'[d].userRow # None
              /\ jobs'[d].quotaRow = None /\ jobs'[d].id # None
          BY <4>1, <5>1, NoneApart
        <5> QED
          BY <4>1, <5>2, <5>3 DEF JobHolds
      <4>3. ~job.overtaken => job.userRow = users[u]
        BY <1>1, <2>2 DEF JobFresh
      <4>4. ~job.overtaken => job.quotaRow = None
        BY <1>1, <2>2
      <4> QED
        BY <1>2, <2>2, <4>1, <4>2, <4>3, <4>4 DEF JobFresh
    <3>2. CASE d # c
      <4>1. jobs'[d] = jobs[d] /\ jobs[d] # None
        BY <2>3, <2>4, <2>7, <3>2
      <4>2. JobHolds(jobs[d]) /\ (~jobs[d].overtaken => JobFresh(jobs[d]))
        BY <4>1, JobFields
      <4>3. jobs[d].id # None => quotas'[jobs[d].id] = quotas[jobs[d].id]
        BY <1>4, <2>3, <2>4, <4>2 DEF JobHolds
      <4> QED
        BY <1>2, <4>1, <4>2, <4>3 DEF JobHolds, JobFresh, Live
    <3> QED
      BY <3>1, <3>2
  <2>8. Holds' /\ CopiesFresh'
    BY <2>7 DEF Holds, CopiesFresh
  <2>9. TypeOK'
    BY <1>2, <2>5 DEF IInv, TypeOK
  <2>10. counted[i] = 0
    BY <1>4 DEF IInv, Fresh
  <2>11. Fresh'
    BY <1>2, <2>3, <2>4, <2>6 DEF IInv, Fresh
  <2>12. UsageKept'
    BY <1>2, <2>1, <2>3, <2>4, <2>10 DEF IInv, UsageKept, Live
  <2> QED
    BY <2>8, <2>9, <2>11, <2>12 DEF IInv
<1> QED
  BY <1>3, <1>4 DEF Create

(* A copy of a user's row, changed but for what was paid, is saved.           *)
LEMMA SaveUserRowKeeps ==
  ASSUME IInv, NEW c \in Callers, jobs[c] # None, jobs[c].userRow # None,
         NEW row \in UserRow, row.paid = jobs[c].userRow.paid,
         SaveUserRow(c, row), JobsOK', UNCHANGED <<quotas, counted, paid>>,
         halfway' \in BOOLEAN
  PROVE  IInv'
<1>1. /\ jobs[c].user \in Users /\ jobs[c].overtaken \in BOOLEAN
      /\ ~jobs[c].overtaken => jobs[c].userRow = users[jobs[c].user]
  BY JobFields DEF JobFresh
<1>2. users' = [users EXCEPT ![jobs[c].user] = row] /\ late' = (late \/ jobs[c].overtaken)
  BY DEF SaveUserRow
<1>3. users \in [Users -> UserRow] /\ late \in BOOLEAN
  BY DEF IInv, TypeOK
<1>4. users' \in [Users -> UserRow] /\ late' \in BOOLEAN
  BY <1>1, <1>2, <1>3
<1>5. TypeOK'
  BY <1>4 DEF IInv, TypeOK, JobsOK
<1>6. Fresh'
  BY DEF IInv, Fresh
<1>7. UsageKept'
  <2>1. ASSUME ~late' PROVE \A u \in Users : users'[u].paid = users[u].paid
    <3>1. jobs[c].userRow = users[jobs[c].user]
      BY <1>1, <1>2, <2>1
    <3> QED
      BY <1>1, <1>2, <1>3, <3>1
  <2> QED
    BY <1>2, <2>1 DEF IInv, UsageKept, Live
<1> QED
  BY <1>5, <1>6, <1>7 DEF IInv, JobsOK

LEMMA LinkUserStep ==
  ASSUME IInv, NEW c \in Callers, LinkUser(c)
  PROVE  IInv'
<1>1. /\ jobs[c] # None /\ JobHolds(jobs[c]) /\ jobs[c].user \in Users
      /\ jobs[c].id \in Ids /\ jobs[c].userRow \in UserRow /\ jobs[c].userRow # None
  BY JobFields DEF LinkUser, Busy, JobHolds
<1>2. UNCHANGED <<quotas, counted, paid>>
  BY DEF LinkUser
<1> DEFINE row == [jobs[c].userRow EXCEPT !.member = TRUE, !.quota = jobs[c].id]
<1>3. CASE SaveUserRow(c, row) /\ WroteUser(c, jobs[c].user, None) /\ UNCHANGED halfway
  <2>1. row \in UserRow /\ row.paid = jobs[c].userRow.paid
    BY <1>1 DEF UserRow
  <2> HIDE DEF row
  <2>2. \A v \in Users : v # jobs[c].user => users'[v] = users[v]
    BY <1>3 DEF SaveUserRow, IInv, TypeOK
  <2>3. JobsOK'
    BY <1>1, <1>2, <1>3, <2>2, WroteUserKeeps
  <2> QED
    BY <1>1, <1>2, <1>3, <2>1, <2>3, Flags, SaveUserRowKeeps
<1>4. CASE Goto(c, None) /\ halfway' = TRUE /\ UNCHANGED <<users, late>>
  BY <1>2, <1>4, GiveUpStep
<1> QED
  BY <1>3, <1>4 DEF LinkUser

LEMMA UnlinkUserStep ==
  ASSUME IInv, NEW c \in Callers, UnlinkUser(c)
  PROVE  IInv'
<1>1. /\ jobs[c] \in Job /\ jobs[c] # None /\ JobHolds(jobs[c]) /\ jobs[c].user \in Users
      /\ ~jobs[c].overtaken => JobFresh(jobs[c])
      /\ jobs[c].id \in Ids /\ jobs[c].userRow \in UserRow /\ jobs[c].userRow # None
      /\ quotas[jobs[c].id] # None /\ jobs[c].quotaRow = None
  BY JobFields DEF UnlinkUser, Busy, JobHolds
<1>2. UNCHANGED <<quotas, counted, paid>>
  BY DEF UnlinkUser
<1> DEFINE row == [jobs[c].userRow EXCEPT !.member = FALSE, !.quota = None]
           job == [jobs[c] EXCEPT !.at = "remove", !.userRow = None]
<1>3. /\ job \in Job /\ job # None /\ job.at = "remove" /\ job.user = jobs[c].user
      /\ job.id = jobs[c].id /\ job.userRow = None /\ job.quotaRow = jobs[c].quotaRow
      /\ job.overtaken = jobs[c].overtaken
  BY <1>1, ChangedJob
<1>4. row \in UserRow /\ row.paid = jobs[c].userRow.paid
  BY <1>1 DEF UserRow
<1>5. CASE SaveUserRow(c, row) /\ WroteUser(c, jobs[c].user, job) /\ UNCHANGED halfway
  <2> HIDE DEF row, job
  <2>1. JobHolds(job) /\ (~job.overtaken => JobFresh(job))
    BY <1>1, <1>3, NoneApart DEF JobHolds, JobFresh
  <2>2. \A v \in Users : v # jobs[c].user => users'[v] = users[v]
    BY <1>5 DEF SaveUserRow, IInv, TypeOK
  <2>3. JobsOK'
    BY <1>1, <1>2, <1>3, <1>5, <2>1, <2>2, WroteUserKeeps
  <2> QED
    BY <1>1, <1>2, <1>4, <1>5, <2>3, Flags, SaveUserRowKeeps
<1>6. CASE Goto(c, job) /\ halfway' = TRUE /\ UNCHANGED <<users, late>>
  <2> HIDE DEF row, job
  <2>1. JobHolds(job) /\ (~job.overtaken => JobFresh(job))
    BY <1>1, <1>3, NoneApart DEF JobHolds, JobFresh
  <2> QED
    BY <1>2, <1>3, <1>6, <2>1, Flags, ReadsRemain
<1> QED
  BY <1>5, <1>6 DEF UnlinkUser

LEMMA SaveUserStep ==
  ASSUME IInv, NEW c \in Callers, SaveUser(c)
  PROVE  IInv'
<1>1. /\ jobs[c] # None /\ JobHolds(jobs[c]) /\ jobs[c].user \in Users
      /\ jobs[c].userRow \in UserRow /\ jobs[c].userRow # None
  BY JobFields DEF SaveUser, Busy, JobHolds
<1>2. UNCHANGED <<quotas, counted, paid, halfway>>
  BY DEF SaveUser
<1>3. CASE SaveUserRow(c, jobs[c].userRow) /\ WroteUser(c, jobs[c].user, None)
  <2>1. \A v \in Users : v # jobs[c].user => users'[v] = users[v]
    BY <1>3 DEF SaveUserRow, IInv, TypeOK
  <2>2. JobsOK'
    BY <1>1, <1>2, <1>3, <2>1, WroteUserKeeps
  <2> QED
    BY <1>1, <1>2, <1>3, <2>2, Flags, SaveUserRowKeeps
<1>4. CASE Goto(c, None) /\ UNCHANGED <<users, late>>
  BY <1>2, <1>4, Flags, GiveUpStep
<1> QED
  BY <1>3, <1>4 DEF SaveUser

(* A step that writes a quota, with what was counted on it.                   *)
LEMMA QuotaWritten ==
  ASSUME IInv, NEW i \in Ids, NEW row \in QuotaRow, NEW n \in Nat,
         quotas' = [quotas EXCEPT ![i] = row], counted' = [counted EXCEPT ![i] = n],
         ~late' => ~late /\ (row.live => row.used = n),
         late' \in BOOLEAN, JobsOK', UNCHANGED <<users, paid>>, halfway' \in BOOLEAN
  PROVE  IInv'
<1>1. /\ quotas \in [Ids -> QuotaRow \cup {None}] /\ counted \in [Ids -> Nat]
      /\ Fresh /\ UsageKept
  BY DEF IInv, TypeOK
<1>2. quotas' \in [Ids -> QuotaRow \cup {None}] /\ counted' \in [Ids -> Nat]
  BY <1>1
<1>3. TypeOK'
  BY <1>2 DEF IInv, TypeOK, JobsOK
<1>4. row # None
  BY NoneApart
<1>5. Fresh'
  BY <1>1, <1>4 DEF Fresh
<1>6. UsageKept'
  BY <1>1 DEF UsageKept, Live
<1> QED
  BY <1>3, <1>5, <1>6 DEF IInv, JobsOK

LEMMA DeleteStep ==
  ASSUME IInv, NEW c \in Callers, Delete(c)
  PROVE  IInv'
<1> DEFINE i == jobs[c].id
           row == [quotas[i] EXCEPT !.live = FALSE]
<1>1. i \in Ids /\ quotas[i] # None
  BY JobFields DEF Delete, Busy, JobHolds
<1>2. UNCHANGED <<users, counted, paid, late>>
  BY DEF Delete
<1>3. CASE /\ quotas' = [quotas EXCEPT ![i].live = FALSE]
           /\ WroteQuota(c, i, None) /\ UNCHANGED halfway
  <2>1. quotas \in [Ids -> QuotaRow \cup {None}] /\ counted \in [Ids -> Nat]
    BY DEF IInv, TypeOK
  <2>2. row \in QuotaRow /\ ~row.live
    BY <1>1, <2>1 DEF QuotaRow
  <2>3. quotas' = [quotas EXCEPT ![i] = row]
    BY <1>3
  <2>4. counted' = [counted EXCEPT ![i] = counted[i]] /\ counted[i] \in Nat
    BY <1>1, <1>2, <2>1
  <2> HIDE DEF i, row
  <2>5. JobsOK'
    BY <1>1, <1>2, <1>3, <2>2, <2>3, WroteQuotaKeeps
  <2> QED
    BY <1>1, <1>2, <1>3, <2>2, <2>3, <2>4, <2>5, Flags, QuotaWritten
<1>4. CASE Goto(c, None) /\ halfway' = TRUE /\ UNCHANGED quotas
  BY <1>2, <1>4, GiveUpStep
<1> QED
  BY <1>3, <1>4 DEF Delete

LEMMA SaveQuotaStep ==
  ASSUME IInv, NEW c \in Callers, SaveQuota(c)
  PROVE  IInv'
<1> DEFINE i == jobs[c].id
           row == jobs[c].quotaRow
           n == IF row.used = 0 THEN 0 ELSE counted[i]
<1>1. /\ i \in Ids /\ quotas[i] # None /\ row \in QuotaRow /\ row # None
      /\ jobs[c].overtaken \in BOOLEAN
      /\ ~jobs[c].overtaken => Live(i) /\ row.used \in {0, quotas[i].used}
  BY JobFields DEF SaveQuota, Busy, JobHolds, JobFresh
<1>2. UNCHANGED <<users, paid, halfway>>
  BY DEF SaveQuota
<1>3. CASE /\ SaveQuotaRow(c)
           /\ counted' = IF row.used = 0 THEN [counted EXCEPT ![i] = 0] ELSE counted
           /\ WroteQuota(c, i, None)
  <2>1. counted \in [Ids -> Nat] /\ UsageKept
    BY DEF IInv, TypeOK
  <2>2. quotas' = [quotas EXCEPT ![i] = row] /\ late' = (late \/ jobs[c].overtaken)
    BY <1>3 DEF SaveQuotaRow
  <2>3. counted' = [counted EXCEPT ![i] = n] /\ n \in Nat
    BY <1>1, <1>3, <2>1
  <2>4. ~late' => ~late /\ (row.live => row.used = n)
    BY <1>1, <2>1, <2>2 DEF UsageKept
  <2>5. late' \in BOOLEAN
    BY <1>1, <2>2, Flags
  <2> HIDE DEF i, row, n
  <2>6. JobsOK'
    BY <1>1, <1>2, <1>3, <2>2, WroteQuotaKeeps
  <2> QED
    BY <1>1, <1>2, <2>2, <2>3, <2>4, <2>5, <2>6, Flags, QuotaWritten
<1>4. CASE Goto(c, None) /\ UNCHANGED <<quotas, counted, late>>
  BY <1>2, <1>4, Flags, GiveUpStep
<1> QED
  BY <1>3, <1>4 DEF SaveQuota

LEMMA IncrementTokensUsedStep ==
  ASSUME IInv, NEW c \in Callers, IncrementTokensUsed(c)
  PROVE  IInv'
<1> DEFINE i == jobs[c].id
           row == [quotas[i] EXCEPT !.used = @ + 1]
           n == IF late THEN counted[i] ELSE counted[i] + 1
<1>1. i \in Ids
  BY JobFields DEF IncrementTokensUsed, Busy, JobHolds
<1>2. UNCHANGED <<users, paid, late, halfway>>
  BY DEF IncrementTokensUsed
<1>3. CASE /\ Live(i) /\ quotas[i].used < MaxUsed
           /\ quotas' = [quotas EXCEPT ![i].used = @ + 1]
           /\ counted' = IF late THEN counted ELSE [counted EXCEPT ![i] = @ + 1]
           /\ WroteQuota(c, i, None)
  <2>1. /\ quotas \in [Ids -> QuotaRow \cup {None}] /\ counted \in [Ids -> Nat]
        /\ UsageKept
    BY DEF IInv, TypeOK
  <2>2. quotas[i] \in QuotaRow
    BY <1>1, <1>3, <2>1 DEF Live
  <2>3. row \in QuotaRow /\ row.used = quotas[i].used + 1
    BY <2>2 DEF QuotaRow
  <2>4. quotas' = [quotas EXCEPT ![i] = row]
    BY <1>3
  <2>5. n \in Nat
    BY <1>1, <2>1
  <2>6. counted' = [counted EXCEPT ![i] = n]
    BY <1>1, <1>3, <2>1
  <2>7. ~late => row.used = n
    BY <1>1, <1>3, <2>1, <2>3 DEF UsageKept
  <2> HIDE DEF i, row, n
  <2>8. JobsOK'
    BY <1>1, <1>2, <1>3, <2>3, <2>4, WroteQuotaKeeps
  <2> QED
    BY <1>1, <1>2, <2>3, <2>4, <2>5, <2>6, <2>7, <2>8, Flags, QuotaWritten
<1>4. CASE Goto(c, None) /\ UNCHANGED <<quotas, counted>>
  BY <1>2, <1>4, Flags, GiveUpStep
<1> QED
  BY <1>3, <1>4 DEF IncrementTokensUsed

LEMMA DeductBalanceStep ==
  ASSUME IInv, NEW u \in Users, DeductBalance(u)
  PROVE  IInv'
<1>1. users \in [Users -> UserRow] /\ paid \in [Users -> Nat] /\ UsageKept
  BY DEF IInv, TypeOK
<1>2. /\ users' = [users EXCEPT ![u].paid = @ + 1] /\ paid' = [paid EXCEPT ![u] = @ + 1]
      /\ WroteUser(None, u, None) /\ UNCHANGED <<quotas, counted, late, halfway>>
  BY DEF DeductBalance
<1>3. [users[u] EXCEPT !.paid = @ + 1] \in UserRow
  BY <1>1 DEF UserRow
<1>4. users' \in [Users -> UserRow] /\ paid' \in [Users -> Nat]
  BY <1>1, <1>2, <1>3
<1>5. \A v \in Users : v # u => users'[v] = users[v]
  BY <1>1, <1>2
<1>6. JobsOK'
  BY <1>2, <1>5, WroteUserKeeps
<1>7. TypeOK'
  BY <1>2, <1>4, <1>6 DEF IInv, TypeOK, JobsOK
<1>8. Fresh'
  BY <1>2 DEF IInv, Fresh
<1>9. \A v \in Users : users[v].paid = paid[v] => users'[v].paid = paid'[v]
  BY <1>1, <1>2 DEF UserRow
<1>10. UsageKept'
  BY <1>1, <1>2, <1>9 DEF UsageKept, Live
<1> QED
  BY <1>6, <1>7, <1>8, <1>10 DEF IInv, JobsOK

-----------------------------------------------------------------------------
LEMMA Initially == Init => IInv
<1> SUFFICES ASSUME Init PROVE IInv
  OBVIOUS
<1>1. TypeOK
  BY DEF Init, TypeOK, UserRow
<1> QED
  BY <1>1 DEF Init, IInv, Holds, CopiesFresh, Fresh, UsageKept, Live

LEMMA Step == IInv /\ [Next]_vars => IInv'
<1> SUFFICES ASSUME IInv, [Next]_vars PROVE IInv'
  OBVIOUS
<1>1. ASSUME NEW c \in Callers, MemberQuotaRoutes(c) PROVE IInv'
  BY <1>1, CreateMemberQuotaStep, DeleteMemberQuotaStep, ReadQuotaStep DEF MemberQuotaRoutes
<1>2. ASSUME NEW c \in Callers, BudgetTools(c) PROVE IInv'
  BY <1>2, SetUserBudgetStep DEF BudgetTools
<1>3. ASSUME NEW c \in Callers, Continue(c) PROVE IInv'
  BY <1>3, CreateStep, LinkUserStep, ReadUserStep, UnlinkUserStep, DeleteStep,
     SaveQuotaStep, SaveUserStep DEF Continue
<1>4. ASSUME NEW c \in Callers, NEW i \in Ids, CheckMemberQuota(c, i) PROVE IInv'
  BY <1>4, CheckMemberQuotaStep
<1>5. ASSUME NEW c \in Callers, IncrementTokensUsed(c) PROVE IInv'
  BY <1>5, IncrementTokensUsedStep
<1>6. ASSUME NEW u \in Users, DeductBalance(u) PROVE IInv'
  BY <1>6, DeductBalanceStep
<1>7. ASSUME UNCHANGED vars PROVE IInv'
  BY <1>7 DEF vars, IInv, TypeOK, Holds, CopiesFresh, Fresh, UsageKept, JobHolds, JobFresh, Live
<1> QED
  BY <1>1, <1>2, <1>3, <1>4, <1>5, <1>6, <1>7 DEF Next

(* The rows, the copies of them and the history have their types, whatever    *)
(* the administrators and requests of member_quota_service.go do at once.      *)
THEOREM TypeCorrect == Spec => []TypeOK
<1>1. IInv => TypeOK
  BY DEF IInv
<1> QED
  BY <1>1, Initially, Step, PTL DEF Spec

(* As long as no row is saved late, no save of an administrator                *)
(* (member_quota_service.go) loses or repeats what requests have used and paid. *)
THEOREM UsageIsKept == Spec => []UsageKept
<1>1. IInv => UsageKept
  BY DEF IInv
<1> QED
  BY <1>1, Initially, Step, PTL DEF Spec

-----------------------------------------------------------------------------
(* Linked and OvershootBounded, on top of IInv.                               *)

(* A user has one row, deleted or not, and a job for a quota is for the user   *)
(* of its row.                                                               *)
NamesIn(j, rows) == /\ j.id # None => rows[j.id].user = j.user
                    /\ j.quotaRow # None => j.quotaRow.live /\ j.quotaRow.user = j.user

RowsUnique == \A i, j \in Ids : quotas[i] # None /\ quotas[j] # None
                                  /\ quotas[i].user = quotas[j].user => i = j
Named == \A c \in Callers : jobs[c] # None => NamesIn(jobs[c], quotas)

(* The two rows of a user agree, except between the two changes of a creation  *)
(* or a deletion; what is about to be removed is unlinked; a creation that     *)
(* nobody has overtaken is about to link a quota that nobody removes.          *)
Unlinked(u)    == ~users[u].member /\ users[u].quota = None
LinkedTo(u, i) == users[u].member /\ users[u].quota = i /\ Live(i) /\ quotas[i].user = u
Changing(u)    == \E c \in Callers : (Busy(c, "link") \/ Busy(c, "remove")) /\ jobs[c].user = u

LinkOrder ==
    /\ \A u \in Users : Unlinked(u) \/ \E i \in Ids : LinkedTo(u, i)
    /\ \A u \in Users : Has(u) /\ Unlinked(u) => Changing(u)
    /\ \A c \in Callers : Busy(c, "remove") => Unlinked(jobs[c].user)
    /\ \A c, d \in Callers : Busy(c, "link") /\ ~jobs[c].overtaken =>
         Live(jobs[c].id) /\ (Busy(d, "remove") => jobs[d].id # jobs[c].id)

Shape == RowsUnique /\ Named
Using(i) == {c \in Callers : Busy(c, "use") /\ jobs[c].id = i}

LInv == Shape /\ (~late /\ ~halfway => LinkOrder) /\ OvershootBounded

(* After a step of c, which goes on with job, the other jobs are what they     *)
(* were, or overtaken.                                                       *)
Same(d) ==
    /\ jobs[d] = None <=> jobs'[d] = None
    /\ jobs[d] # None =>
         /\ jobs'[d].at = jobs[d].at /\ jobs'[d].user = jobs[d].user /\ jobs'[d].id = jobs[d].id
         /\ jobs'[d].userRow = jobs[d].userRow /\ jobs'[d].quotaRow = jobs[d].quotaRow
         /\ jobs[d].overtaken => jobs'[d].overtaken
Replaced(c, job) == \A d \in Callers : IF d = c THEN jobs'[d] = job ELSE Same(d)

LEMMA GotoReplaces ==
  ASSUME IInv, NEW c \in Callers, NEW job, Goto(c, job)
  PROVE  Replaced(c, job)
  BY DEF Goto, Replaced, Same, IInv, TypeOK

LEMMA WroteUserReplaces ==
  ASSUME IInv, NEW c, NEW u, NEW job, WroteUser(c, u, job)
  PROVE  /\ Replaced(c, job)
         /\ \A d \in Callers : d # c /\ jobs[d] # None /\ jobs[d].user = u /\ jobs[d].userRow # None
                                 => jobs'[d].overtaken
<1> SUFFICES ASSUME NEW d \in Callers
             PROVE  /\ IF d = c THEN jobs'[d] = job ELSE Same(d)
                    /\ d # c /\ jobs[d] # None /\ jobs[d].user = u /\ jobs[d].userRow # None
                         => jobs'[d].overtaken
  BY DEF Replaced
<1> DEFINE wrote == jobs[d].user = u /\ jobs[d].userRow # None
<1>1. CASE d = c
  BY <1>1 DEF WroteUser
<1>2. CASE d # c
  <2>1. jobs'[d] = Overtake(d, wrote)
    BY <1>2 DEF WroteUser
  <2>2. jobs[d] \in Job \cup {None} /\ wrote \in BOOLEAN
    BY DEF IInv, TypeOK
  <2> HIDE DEF wrote
  <2>3. /\ jobs[d] = None <=> jobs'[d] = None
        /\ jobs[d] # None =>
             /\ jobs'[d].at = jobs[d].at /\ jobs'[d].user = jobs[d].user /\ jobs'[d].id = jobs[d].id
             /\ jobs'[d].userRow = jobs[d].userRow /\ jobs'[d].quotaRow = jobs[d].quotaRow
             /\ jobs'[d].overtaken = (jobs[d].overtaken \/ wrote)
    BY <2>1, <2>2, OvertakeFields
  <2> QED
    BY <1>2, <2>3 DEF Same, wrote
<1> QED
  BY <1>1, <1>2

LEMMA WroteQuotaReplaces ==
  ASSUME IInv, NEW c, NEW i, NEW job, WroteQuota(c, i, job)
  PROVE  Replaced(c, job)
<1> SUFFICES ASSUME NEW d \in Callers
             PROVE  IF d = c THEN jobs'[d] = job ELSE Same(d)
  BY DEF Replaced
<1> DEFINE wrote == jobs[d].id = i /\ jobs[d].quotaRow # None
<1>1. CASE d = c
  BY <1>1 DEF WroteQuota
<1>2. CASE d # c
  <2>1. jobs'[d] = Overtake(d, wrote)
    BY <1>2 DEF WroteQuota
  <2>2. jobs[d] \in Job \cup {None} /\ wrote \in BOOLEAN
    BY DEF IInv, TypeOK
  <2> HIDE DEF wrote
  <2>3. /\ jobs[d] = None <=> jobs'[d] = None
        /\ jobs[d] # None =>
             /\ jobs'[d].at = jobs[d].at /\ jobs'[d].user = jobs[d].user /\ jobs'[d].id = jobs[d].id
             /\ jobs'[d].userRow = jobs[d].userRow /\ jobs'[d].quotaRow = jobs[d].quotaRow
             /\ jobs'[d].overtaken = (jobs[d].overtaken \/ wrote)
    BY <2>1, <2>2, OvertakeFields
  <2> QED
    BY <1>2, <2>3 DEF Same
<1> QED
  BY <1>1, <1>2

(* What keeps each part of LInv.                                             *)
RowsStay == \A i \in Ids : /\ quotas'[i] = None <=> quotas[i] = None
                           /\ quotas[i] # None => quotas'[i].user = quotas[i].user

LEMMA ShapeFrame ==
  ASSUME IInv, Shape, RowsStay,
         NEW c, NEW job, Replaced(c, job), job # None => NamesIn(job, quotas')
  PROVE  Shape'
<1>1. RowsUnique'
  BY DEF Shape, RowsUnique, RowsStay
<1>2. ASSUME NEW d \in Callers, jobs'[d] # None PROVE NamesIn(jobs'[d], quotas')
  <2>1. CASE d = c
    BY <1>2, <2>1 DEF Replaced
  <2>2. CASE d # c
    <3>1. Same(d) /\ jobs[d] # None
      BY <1>2, <2>2 DEF Replaced, Same
    <3>2. NamesIn(jobs[d], quotas) /\ JobHolds(jobs[d])
      BY <3>1, JobFields DEF Shape, Named
    <3> QED
      BY <3>1, <3>2 DEF Same, NamesIn, JobHolds, RowsStay
  <2> QED
    BY <2>1, <2>2
<1> QED
  BY <1>1, <1>2 DEF Shape, Named

LEMMA LinkFrame ==
  ASSUME LinkOrder, NEW c, NEW job, Replaced(c, job),
         \A u \in Users : users'[u].member = users[u].member /\ users'[u].quota = users[u].quota,
         \A i \in Ids : /\ Live(i)' <=> Live(i)
                        /\ Live(i) => quotas'[i].user = quotas[i].user,
         c \in Callers => ~Busy(c, "link") /\ ~Busy(c, "remove"),
         job # None => job.at \notin {"link", "remove"},
         \A d \in Callers : jobs[d] # None => jobs[d].user \in Users /\ jobs[d].id \in Ids \cup {None},
         \A d \in Callers : Busy(d, "link") => jobs[d].id \in Ids
  PROVE  LinkOrder'
<1>1. ASSUME NEW d \in Callers, NEW at \in {"link", "remove"}
      PROVE  /\ Busy(d, at)' <=> Busy(d, at)
             /\ Busy(d, at) => /\ jobs'[d].user = jobs[d].user /\ jobs'[d].id = jobs[d].id
                               /\ jobs[d].overtaken => jobs'[d].overtaken
  BY DEF Busy, Replaced, Same
<1>2. ASSUME NEW u \in Users
      PROVE  /\ Unlinked(u)' <=> Unlinked(u)
             /\ \A i \in Ids : LinkedTo(u, i)' <=> LinkedTo(u, i)
             /\ Has(u)' <=> Has(u)
             /\ Changing(u) => Changing(u)'
  BY <1>1 DEF Unlinked, LinkedTo, Has, Changing
<1>3. \A d \in Callers : Busy(d, "remove")' => Unlinked(jobs[d].user)'
  <2> SUFFICES ASSUME NEW d \in Callers, Busy(d, "remove")' PROVE Unlinked(jobs[d].user)'
    OBVIOUS
  <2>1. Busy(d, "remove") /\ jobs'[d].user = jobs[d].user /\ jobs[d].user \in Users
    BY <1>1 DEF Busy
  <2> QED
    BY <2>1 DEF LinkOrder, Unlinked
<1>4. \A d, e \in Callers : Busy(d, "link")' /\ ~jobs'[d].overtaken =>
         Live(jobs[d].id)' /\ (Busy(e, "remove")' => jobs'[e].id # jobs'[d].id)
  <2> SUFFICES ASSUME NEW d \in Callers, NEW e \in Callers, Busy(d, "link")', ~jobs'[d].overtaken
               PROVE  Live(jobs[d].id)' /\ (Busy(e, "remove")' => jobs'[e].id # jobs'[d].id)
    OBVIOUS
  <2>1. Busy(d, "link") /\ jobs'[d].id = jobs[d].id /\ ~jobs[d].overtaken /\ jobs[d].id \in Ids
    BY <1>1
  <2>2. Live(jobs[d].id) /\ (Busy(e, "remove") => jobs[e].id # jobs[d].id)
    BY <2>1 DEF LinkOrder
  <2>3. Live(jobs[d].id)'
    BY <2>1, <2>2 DEF Live
  <2> QED
    BY <1>1, <2>1, <2>2, <2>3
<1> QED
  BY <1>2, <1>3, <1>4 DEF LinkOrder

LEMMA OvershootFrame ==
  ASSUME OvershootBounded, NEW c, NEW job, Replaced(c, job), IInv, IInv',
         late => late', job # None => job.at # "use",
         ~late' => \A i \in Ids : Live(i)' => Live(i) /\ quotas'[i].used <= quotas[i].used
  PROVE  OvershootBounded'
<1> SUFFICES ASSUME ~late', NEW i \in Ids, Live(i)'
             PROVE  \E n \in Limits : quotas'[i].used + Cardinality(Using(i)') < n + Cardinality(Callers)
  BY DEF OvershootBounded, Using
<1>1. Live(i) /\ quotas'[i].used <= quotas[i].used
  OBVIOUS
<1>2. PICK n \in Limits : quotas[i].used + Cardinality(Using(i)) < n + Cardinality(Callers)
  BY <1>1 DEF OvershootBounded, Using
<1>3. Using(i)' \subseteq Using(i) /\ Using(i) \subseteq Callers
  BY DEF Using, Busy, Replaced, Same
<1>4. /\ Cardinality(Using(i)') <= Cardinality(Using(i))
      /\ Cardinality(Using(i)') \in Nat /\ Cardinality(Using(i)) \in Nat /\ Cardinality(Callers) \in Nat
  BY <1>3, FS_Subset, FS_CardinalityType, QuotaAssumption
<1>5. quotas[i].used \in Nat /\ quotas'[i].used \in Nat /\ n \in Nat
  BY <1>1, QuotaAssumption DEF Live, IInv, TypeOK, QuotaRow
<1> QED
  BY <1>1, <1>2, <1>4, <1>5

(* Most steps leave the references and the liveness of the quotas alone,       *)
(* unless a row is saved late or a change stays half done.                     *)
LEMMA QuietStep ==
  ASSUME IInv, IInv', LInv, NEW c, NEW job, Replaced(c, job), RowsStay,
         late => late', halfway => halfway',
         job # None => NamesIn(job, quotas') /\ job.at # "use",
         ~late' => /\ \A u \in Users : /\ users'[u].member = users[u].member
                                       /\ users'[u].quota = users[u].quota
                   /\ \A i \in Ids : /\ Live(i)' <=> Live(i)
                                     /\ Live(i)' => quotas'[i].used <= quotas[i].used,
         ~halfway' => /\ c \in Callers => ~Busy(c, "link") /\ ~Busy(c, "remove")
                      /\ job # None => job.at \notin {"link", "remove"}
  PROVE  LInv'
<1>1. Shape'
  BY ShapeFrame DEF LInv
<1>2. OvershootBounded'
  BY OvershootFrame DEF LInv
<1>3. ASSUME ~late', ~halfway' PROVE LinkOrder'
  <2>1. LinkOrder
    BY <1>3 DEF LInv
  <2>2. \A d \in Callers : jobs[d] # None => jobs[d].user \in Users /\ jobs[d].id \in Ids \cup {None}
    BY JobFields
  <2>3. \A d \in Callers : Busy(d, "link") => jobs[d].id \in Ids
    BY JobFields DEF Busy, JobHolds
  <2>4. \A i \in Ids : Live(i) => quotas'[i].user = quotas[i].user
    BY DEF RowsStay, Live
  <2> QED
    BY <1>3, <2>1, <2>2, <2>3, <2>4, LinkFrame
<1> QED
  BY <1>1, <1>2, <1>3 DEF LInv

(* Steps that write no row.                                                  *)
LEMMA ReadStep ==
  ASSUME IInv, IInv', LInv, NEW c \in Callers, NEW job, Goto(c, job), UNCHANGED <<users, quotas>>,
         late => late', halfway => halfway',
         job # None => NamesIn(job, quotas) /\ job.at # "use",
         ~halfway' => /\ ~Busy(c, "link") /\ ~Busy(c, "remove")
                      /\ job # None => job.at \notin {"link", "remove"}
  PROVE  LInv'
<1>1. Replaced(c, job) /\ RowsStay
  BY GotoReplaces DEF RowsStay
<1>2. \A i \in Ids : /\ Live(i)' <=> Live(i)
                     /\ Live(i)' => quotas'[i].used <= quotas[i].used
  BY DEF Live, IInv, TypeOK, QuotaRow
<1> QED
  BY <1>1, <1>2, QuietStep

LEMMA NewJobFields ==
  ASSUME NEW at, NEW u, NEW i, NEW userRow, NEW quotaRow
  PROVE  LET j == NewJob(at, u, i, userRow, quotaRow) IN
         j.at = at /\ j.user = u /\ j.id = i /\ j.userRow = userRow /\ j.quotaRow = quotaRow
  BY DEF NewJob

LEMMA CreateMemberQuotaLinks ==
  ASSUME IInv, IInv', LInv, NEW c \in Callers, NEW u \in Users,
         CreateMemberQuota(c, u) \/ SetUserBudget(c, u)
  PROVE  LInv'
<1>1. PICK at \in {"insert", "user"} : Goto(c, NewJob(at, u, None, users[u], None))
  BY DEF CreateMemberQuota, SetUserBudget
<1>2. jobs[c] = None /\ UNCHANGED <<users, quotas, counted, paid, late, halfway>>
  BY DEF CreateMemberQuota, SetUserBudget
<1> DEFINE job == NewJob(at, u, None, users[u], None)
<1>3. job.at = at /\ job.id = None /\ job.quotaRow = None
  BY NewJobFields
<1>4. Goto(c, job)
  BY <1>1
<1> HIDE DEF job
<1> QED
  BY <1>2, <1>3, <1>4, ReadStep DEF NamesIn, Busy

LEMMA DeleteMemberQuotaLinks ==
  ASSUME IInv, IInv', LInv, NEW c \in Callers, NEW i \in Ids, DeleteMemberQuota(c, i)
  PROVE  LInv'
<1> DEFINE job == NewJob("readUser", quotas[i].user, i, None, None)
<1>1. jobs[c] = None /\ UNCHANGED <<users, quotas, counted, paid, late, halfway>> /\ Goto(c, job)
  BY DEF DeleteMemberQuota
<1>2. job.at = "readUser" /\ job.id = i /\ job.user = quotas[i].user /\ job.quotaRow = None
  BY NewJobFields
<1> HIDE DEF job
<1> QED
  BY <1>1, <1>2, ReadStep DEF NamesIn, Busy

LEMMA ReadUserLinks ==
  ASSUME IInv, IInv', LInv, NEW c \in Callers, ReadUser(c)
  PROVE  LInv'
<1>1. /\ jobs[c] \in Job /\ jobs[c] # None /\ JobHolds(jobs[c]) /\ jobs[c].at = "readUser"
      /\ jobs[c].id \in Ids /\ NamesIn(jobs[c], quotas)
  BY JobFields DEF ReadUser, Busy, JobHolds, LInv, Shape, Named
<1>2. UNCHANGED <<users, quotas, counted, paid, late>>
  BY DEF ReadUser
<1>3. CASE /\ Goto(c, NewJob("unlink", jobs[c].user, jobs[c].id, users[jobs[c].user], None))
           /\ UNCHANGED halfway
  <2> DEFINE job == NewJob("unlink", jobs[c].user, jobs[c].id, users[jobs[c].user], None)
  <2>1. job.at = "unlink" /\ job.user = jobs[c].user /\ job.id = jobs[c].id /\ job.quotaRow = None
    BY NewJobFields
  <2>2. Goto(c, job)
    BY <1>3
  <2> HIDE DEF job
  <2> QED
    BY <1>1, <1>2, <1>3, <2>1, <2>2, ReadStep DEF NamesIn, Busy
<1>4. CASE Goto(c, [jobs[c] EXCEPT !.at = "remove"]) /\ halfway' = TRUE
  <2> DEFINE job == [jobs[c] EXCEPT !.at = "remove"]
  <2>1. /\ job.at = "remove" /\ job.user = jobs[c].user /\ job.id = jobs[c].id
        /\ job.quotaRow = jobs[c].quotaRow
    BY <1>1, ChangedJob
  <2>2. Goto(c, job)
    BY <1>4
  <2> HIDE DEF job
  <2> QED
    BY <1>1, <1>2, <1>4, <2>1, <2>2, ReadStep DEF NamesIn
<1> QED
  BY <1>3, <1>4 DEF ReadUser

LEMMA ReadQuotaLinks ==
  ASSUME IInv, IInv', LInv, NEW c \in Callers, NEW i \in Ids, ReadQuota(c, i)
  PROVE  LInv'
<1> DEFINE q == quotas[i]
<1>1. q \in QuotaRow /\ q.live
  BY DEF ReadQuota, Live, IInv, TypeOK
<1>2. PICK row \in UpdateMemberQuota(q) \cup SetTokenQuotaLimit(q) \cup SetCostLimit(q)
                     \cup {ResetMemberQuota(q), SuspendMember(q), ActivateMember(q)} :
         Goto(c, NewJob("quota", q.user, i, None, row))
  BY DEF ReadQuota
<1>3. jobs[c] = None /\ UNCHANGED <<users, quotas, counted, paid, late, halfway>>
  BY DEF ReadQuota
<1>4. row.live /\ row.user = q.user
  <2> HIDE DEF q
  <2> QED
    BY <1>1, <1>2 DEF UpdateMemberQuota, SetTokenQuotaLimit, SetCostLimit, ResetMemberQuota,
                      SuspendMember, ActivateMember, QuotaRow
<1> DEFINE job == NewJob("quota", q.user, i, None, row)
<1>5. job.at = "quota" /\ job.id = i /\ job.user = q.user /\ job.quotaRow = row
  BY NewJobFields
<1>6. Goto(c, job)
  BY <1>2
<1> HIDE DEF job
<1> QED
  BY <1>3, <1>4, <1>5, <1>6, ReadStep DEF NamesIn, Busy

LEMMA GiveUpLinks ==
  ASSUME IInv, IInv', LInv, NEW c \in Callers, Goto(c, None), UNCHANGED <<users, quotas, late>>,
         \/ halfway' = TRUE
         \/ UNCHANGED halfway /\ ~Busy(c, "link") /\ ~Busy(c, "remove")
  PROVE  LInv'
  BY ReadStep

LEMMA SaveQuotaLinks ==
  ASSUME IInv, IInv', LInv, NEW c \in Callers, SaveQuota(c)
  PROVE  LInv'
<1> DEFINE i == jobs[c].id
           row == jobs[c].quotaRow
<1>1. /\ i \in Ids /\ quotas[i] # None /\ row \in QuotaRow /\ row # None /\ jobs[c] # None
      /\ jobs[c].at = "quota" /\ jobs[c].overtaken \in BOOLEAN
      /\ ~jobs[c].overtaken => Live(i) /\ row.used \in {0, quotas[i].used}
  BY JobFields DEF SaveQuota, Busy, JobHolds, JobFresh
<1>2. UNCHANGED <<users, paid, halfway>> /\ ~Busy(c, "link") /\ ~Busy(c, "remove")
  BY <1>1 DEF SaveQuota, Busy
<1>3. CASE SaveQuotaRow(c) /\ WroteQuota(c, i, None)
  <2>1. quotas' = [quotas EXCEPT ![i] = row] /\ late' = (late \/ jobs[c].overtaken)
    BY <1>3 DEF SaveQuotaRow
  <2>2. NamesIn(jobs[c], quotas)
    BY <1>1 DEF LInv, Shape, Named
  <2>3. row.live /\ row.user = quotas[i].user
    BY <1>1, <2>2, NoneApart DEF NamesIn
  <2>4. Replaced(c, None)
    BY <1>3, WroteQuotaReplaces
  <2>5. quotas \in [Ids -> QuotaRow \cup {None}]
    BY DEF IInv, TypeOK
  <2> HIDE DEF i, row
  <2>6. RowsStay
    BY <1>1, <2>1, <2>3, <2>5 DEF RowsStay
  <2>7. ASSUME ~late', NEW k \in Ids
        PROVE  /\ Live(k)' <=> Live(k)
               /\ Live(k)' => quotas'[k].used <= quotas[k].used
    <3>1. CASE k = i
      <4>1. quotas[i] \in QuotaRow /\ quotas'[i] = row
        BY <1>1, <2>1, <2>5
      <4> QED
        BY <1>1, <2>1, <2>3, <2>7, <3>1, <4>1 DEF Live, QuotaRow
    <3>2. CASE k # i
      <4>1. quotas'[k] = quotas[k]
        BY <2>1, <2>5, <3>2
      <4> QED
        BY <2>5, <4>1 DEF Live, QuotaRow
    <3> QED
      BY <3>1, <3>2
  <2> QED
    BY <1>2, <2>1, <2>4, <2>6, <2>7, QuietStep
<1>4. CASE Goto(c, None) /\ UNCHANGED <<quotas, counted, late>>
  BY <1>2, <1>4, GiveUpLinks
<1> QED
  BY <1>3, <1>4 DEF SaveQuota

LEMMA SaveUserLinks ==
  ASSUME IInv, IInv', LInv, NEW c \in Callers, SaveUser(c)
  PROVE  LInv'
<1>1. /\ jobs[c] # None /\ jobs[c].at = "user" /\ jobs[c].user \in Users
      /\ jobs[c].userRow # None /\ jobs[c].overtaken \in BOOLEAN
      /\ ~jobs[c].overtaken => jobs[c].userRow = users[jobs[c].user]
  BY JobFields DEF SaveUser, Busy, JobHolds, JobFresh
<1>2. UNCHANGED <<quotas, counted, paid, halfway>> /\ ~Busy(c, "link") /\ ~Busy(c, "remove")
  BY <1>1 DEF SaveUser, Busy
<1>3. CASE SaveUserRow(c, jobs[c].userRow) /\ WroteUser(c, jobs[c].user, None)
  <2>1. /\ users' = [users EXCEPT ![jobs[c].user] = jobs[c].userRow]
        /\ late' = (late \/ jobs[c].overtaken)
    BY <1>3 DEF SaveUserRow
  <2>2. Replaced(c, None) /\ RowsStay
    BY <1>2, <1>3, WroteUserReplaces DEF RowsStay
  <2>3. ~late' => users' = users
    BY <1>1, <2>1 DEF IInv, TypeOK
  <2>4. \A i \in Ids : /\ Live(i)' <=> Live(i)
                       /\ Live(i)' => quotas'[i].used <= quotas[i].used
    BY <1>2 DEF Live, IInv, TypeOK, QuotaRow
  <2> QED
    BY <1>2, <2>1, <2>2, <2>3, <2>4, QuietStep
<1>4. CASE Goto(c, None) /\ UNCHANGED <<users, late>>
  BY <1>2, <1>4, GiveUpLinks
<1> QED
  BY <1>3, <1>4 DEF SaveUser

LEMMA DeductBalanceLinks ==
  ASSUME IInv, IInv', LInv, NEW u \in Users, DeductBalance(u)
  PROVE  LInv'
<1>1. /\ users' = [users EXCEPT ![u].paid = @ + 1]
      /\ WroteUser(None, u, None) /\ UNCHANGED <<quotas, counted, late, halfway>>
  BY DEF DeductBalance
<1>2. Replaced(None, None) /\ RowsStay /\ None \notin Callers
  BY <1>1, WroteUserReplaces, NoneApart DEF RowsStay
<1>3. \A v \in Users : users'[v].member = users[v].member /\ users'[v].quota = users[v].quota
  BY <1>1 DEF IInv, TypeOK, UserRow
<1>4. \A i \in Ids : /\ Live(i)' <=> Live(i)
                     /\ Live(i)' => quotas'[i].used <= quotas[i].used
  BY <1>1 DEF Live, IInv, TypeOK, QuotaRow
<1> QED
  BY <1>1, <1>2, <1>3, <1>4, QuietStep

(* The caller's own request joins those that were checked and not counted;     *)
(* the limit of the row bounds them all.                                       *)
LEMMA CheckMemberQuotaLinks ==
  ASSUME IInv, IInv', LInv, NEW c \in Callers, NEW i \in Ids, CheckMemberQuota(c, i)
  PROVE  LInv'
<1> DEFINE job == NewJob("use", quotas[i].user, i, None, None)
<1>1. /\ jobs[c] = None /\ Live(i) /\ Allows(quotas[i]) /\ Goto(c, job)
      /\ UNCHANGED <<users, quotas, counted, paid, late, halfway>>
  BY DEF CheckMemberQuota
<1>2. job.at = "use" /\ job.id = i /\ job.user = quotas[i].user /\ job.quotaRow = None
  BY NewJobFields
<1>3. Replaced(c, job) /\ RowsStay
  BY <1>1, GotoReplaces DEF RowsStay
<1> HIDE DEF job
<1>4. Shape'
  BY <1>1, <1>2, <1>3, ShapeFrame DEF LInv, NamesIn
<1>5. ASSUME LinkOrder PROVE LinkOrder'
  <2>1. \A d \in Callers : jobs[d] # None => jobs[d].user \in Users /\ jobs[d].id \in Ids \cup {None}
    BY JobFields
  <2>2. \A d \in Callers : Busy(d, "link") => jobs[d].id \in Ids
    BY JobFields DEF Busy, JobHolds
  <2>3. \A k \in Ids : /\ Live(k)' <=> Live(k)
                       /\ Live(k) => quotas'[k].user = quotas[k].user
    BY <1>1 DEF Live
  <2> QED
    BY <1>1, <1>2, <1>3, <1>5, <2>1, <2>2, <2>3, LinkFrame DEF Busy
<1>6. OvershootBounded'
  <2> SUFFICES ASSUME ~late, NEW k \in Ids, Live(k)
               PROVE  \E n \in Limits : quotas[k].used + Cardinality(Using(k)') < n + Cardinality(Callers)
    BY <1>1 DEF OvershootBounded, Using, Live
  <2>1. CASE k = i
    <3>1. quotas[i] \in QuotaRow /\ quotas[i].used + 1 <= quotas[i].limit
      BY <1>1 DEF Live, Allows, IInv, TypeOK
    <3>2. quotas[i].used \in Nat /\ quotas[i].limit \in Limits /\ quotas[i].limit \in Nat
      BY <3>1, QuotaAssumption DEF QuotaRow
    <3>3. Using(k)' \subseteq Callers
      BY DEF Using
    <3>4. /\ Cardinality(Using(k)') <= Cardinality(Callers)
          /\ Cardinality(Using(k)') \in Nat /\ Cardinality(Callers) \in Nat
      BY <3>3, FS_Subset, FS_CardinalityType, QuotaAssumption
    <3>5. quotas[k].used + Cardinality(Using(k)') < quotas[i].limit + Cardinality(Callers)
      BY <2>1, <3>1, <3>2, <3>4
    <3> QED
      BY <3>2, <3>5
  <2>2. CASE k # i
    <3>1. Using(k)' = Using(k)
      BY <1>1, <1>2, <1>3, <2>2 DEF Using, Busy, Replaced, Same
    <3> QED
      BY <3>1 DEF LInv, OvershootBounded, Using
  <2> QED
    BY <2>1, <2>2
<1> QED
  BY <1>1, <1>4, <1>5, <1>6 DEF LInv

(* One request is counted and is no longer among those to be counted.          *)
LEMMA IncrementTokensUsedLinks ==
  ASSUME IInv, IInv', LInv, NEW c \in Callers, IncrementTokensUsed(c)
  PROVE  LInv'
<1> DEFINE i == jobs[c].id
<1>1. i \in Ids /\ jobs[c] # None /\ jobs[c].at = "use" /\ Busy(c, "use")
  BY JobFields DEF IncrementTokensUsed, Busy, JobHolds
<1>2. UNCHANGED <<users, paid, late, halfway>> /\ ~Busy(c, "link") /\ ~Busy(c, "remove")
  BY <1>1 DEF IncrementTokensUsed, Busy
<1>3. CASE /\ Live(i) /\ quotas' = [quotas EXCEPT ![i].used = @ + 1]
           /\ WroteQuota(c, i, None)
  <2>1. Replaced(c, None)
    BY <1>3, WroteQuotaReplaces
  <2>2. quotas \in [Ids -> QuotaRow \cup {None}] /\ quotas[i] \in QuotaRow
    BY <1>1, <1>3 DEF IInv, TypeOK, Live
  <2>3. [quotas[i] EXCEPT !.used = @ + 1] \in QuotaRow
    BY <2>2 DEF QuotaRow
  <2> HIDE DEF i
  <2>4. /\ quotas'[i] \in QuotaRow /\ quotas'[i] # None
        /\ quotas'[i].live = quotas[i].live /\ quotas'[i].user = quotas[i].user
        /\ quotas'[i].used = quotas[i].used + 1
        /\ \A k \in Ids : k # i => quotas'[k] = quotas[k]
    BY <1>1, <1>3, <2>2, <2>3, NoneApart DEF QuotaRow
  <2>5. RowsStay
    BY <2>2, <2>4, NoneApart DEF RowsStay
  <2>6. Shape'
    BY <2>1, <2>5, ShapeFrame DEF LInv
  <2>7. ASSUME LinkOrder PROVE LinkOrder'
    <3>1. \A d \in Callers : jobs[d] # None => jobs[d].user \in Users /\ jobs[d].id \in Ids \cup {None}
      BY JobFields
    <3>2. \A d \in Callers : Busy(d, "link") => jobs[d].id \in Ids
      BY JobFields DEF Busy, JobHolds
    <3>3. \A k \in Ids : /\ Live(k)' <=> Live(k)
                         /\ Live(k) => quotas'[k].user = quotas[k].user
      BY <1>3, <2>4 DEF Live
    <3> QED
      BY <1>2, <2>1, <2>7, <3>1, <3>2, <3>3, LinkFrame
  <2>8. OvershootBounded'
    <3> SUFFICES ASSUME ~late, NEW k \in Ids, Live(k)'
                 PROVE  \E n \in Limits : quotas'[k].used + Cardinality(Using(k)') < n + Cardinality(Callers)
      BY <1>2 DEF OvershootBounded, Using
    <3>1. Live(k)
      BY <1>3, <2>4 DEF Live
    <3>2. PICK n \in Limits : quotas[k].used + Cardinality(Using(k)) < n + Cardinality(Callers)
      BY <3>1 DEF LInv, OvershootBounded, Using
    <3>3. IsFiniteSet(Using(k)) /\ Cardinality(Using(k)) \in Nat /\ Cardinality(Callers) \in Nat
      BY FS_Subset, FS_CardinalityType, QuotaAssumption DEF Using
    <3>4. CASE k = i
      <4>1. Using(k)' = Using(k) \ {c} /\ c \in Using(k)
        BY <1>1, <2>1, <3>4 DEF Using, Busy, Replaced, Same, i
      <4>2. Cardinality(Using(k)') = Cardinality(Using(k)) - 1
        BY <3>3, <4>1, FS_RemoveElement
      <4>3. quotas[k].used \in Nat /\ n \in Nat
        BY <2>2, <3>4, QuotaAssumption DEF QuotaRow
      <4> QED
        BY <2>4, <3>2, <3>3, <3>4, <4>2, <4>3
    <3>5. CASE k # i
      <4>1. Using(k)' = Using(k) /\ quotas'[k] = quotas[k]
        BY <1>1, <2>1, <2>4, <3>5 DEF Using, Busy, Replaced, Same, i
      <4> QED
        BY <3>2, <4>1
    <3> QED
      BY <3>4, <3>5
  <2> QED
    BY <1>2, <2>6, <2>7, <2>8 DEF LInv
<1>4. CASE Goto(c, None) /\ UNCHANGED <<quotas, counted>>
  BY <1>2, <1>4, GiveUpLinks
<1> QED
  BY <1>3, <1>4 DEF IncrementTokensUsed

(* A creation finds no row of the user; the new one waits for its link.        *)
LEMMA CreateLinks ==
  ASSUME IInv, IInv', LInv, NEW c \in Callers, Create(c)
  PROVE  LInv'
<1> DEFINE u == jobs[c].user
<1>1. /\ jobs[c] \in Job /\ jobs[c] # None /\ jobs[c].at = "insert"
      /\ u \in Users /\ jobs[c].quotaRow = None /\ Busy(c, "insert")
  BY JobFields DEF Create, Busy, JobHolds
<1>2. UNCHANGED <<users, counted, paid, late, halfway>> /\ ~Busy(c, "link") /\ ~Busy(c, "remove")
  BY <1>1 DEF Create, Busy
<1>3. ASSUME Goto(c, None), UNCHANGED quotas PROVE LInv'
  BY <1>2, <1>3, GiveUpLinks
<1>4. ASSUME NEW i \in Ids, NEW n \in Limits, quotas[i] = None,
             \A k \in Ids : quotas[k] # None => quotas[k].user # u,
             quotas' = [quotas EXCEPT ![i] = [live |-> TRUE, user |-> u, status |-> "active",
                                              limit |-> n, used |-> 0]],
             Goto(c, [jobs[c] EXCEPT !.at = "link", !.id = i])
      PROVE  LInv'
  <2> DEFINE job == [jobs[c] EXCEPT !.at = "link", !.id = i]
  <2>1. /\ job # None /\ job.at = "link" /\ job.user = u /\ job.id = i
        /\ job.quotaRow = None
    <3>1. job \in Job
      BY <1>1 DEF Job
    <3> QED
      BY <1>1, <3>1, NoneApart DEF Job
  <2>2. Replaced(c, job)
    BY <1>4, GotoReplaces
  <2>3. jobs'[c] = job
    BY <2>2 DEF Replaced
  <2> HIDE DEF job, u
  <2>4. /\ quotas'[i].live /\ quotas'[i].user = u /\ quotas'[i].used = 0 /\ quotas'[i] # None
        /\ \A k \in Ids : k # i => quotas'[k] = quotas[k]
    <3>1. quotas'[i] \in QuotaRow
      BY <1>1, <1>4 DEF IInv, TypeOK, QuotaRow
    <3> QED
      BY <1>4, <3>1, NoneApart DEF IInv, TypeOK
  <2>5. \A d \in Callers : d # c /\ jobs[d] # None => jobs[d].id # i
    BY <1>4, JobFields, NoneApart DEF JobHolds
  <2>6. RowsUnique'
    BY <1>4, <2>4 DEF LInv, Shape, RowsUnique
  <2>7. ASSUME NEW d \in Callers, jobs'[d] # None PROVE NamesIn(jobs'[d], quotas')
    <3>1. CASE d = c
      BY <2>1, <2>3, <2>4, <3>1 DEF NamesIn
    <3>2. CASE d # c
      <4>1. Same(d) /\ jobs[d] # None /\ jobs[d].id # i /\ jobs[d].id \in Ids \cup {None}
        BY <2>2, <2>5, <2>7, <3>2, JobFields DEF Replaced, Same
      <4>2. NamesIn(jobs[d], quotas)
        BY <4>1 DEF LInv, Shape, Named
      <4> QED
        BY <2>4, <4>1, <4>2 DEF Same, NamesIn
    <3> QED
      BY <3>1, <3>2
  <2>8. ASSUME LinkOrder PROVE LinkOrder'
    <3>1. \A d \in Callers : /\ Busy(d, "remove")' <=> Busy(d, "remove")
                             /\ d # c => (Busy(d, "link")' <=> Busy(d, "link"))
                             /\ d # c /\ jobs[d] # None => Same(d)
      BY <1>2, <2>1, <2>2, <2>3 DEF Busy, Replaced, Same
    <3>2. \A v \in Users : Unlinked(v)' <=> Unlinked(v)
      BY <1>2 DEF Unlinked
    <3>3. \A v \in Users : Unlinked(v)' \/ \E k \in Ids : LinkedTo(v, k)'
      <4> SUFFICES ASSUME NEW v \in Users, ~Unlinked(v) PROVE \E k \in Ids : LinkedTo(v, k)'
        BY <3>2
      <4>1. PICK k \in Ids : LinkedTo(v, k)
        BY <2>8 DEF LinkOrder
      <4>2. k # i
        BY <1>4, <4>1 DEF LinkedTo, Live
      <4> QED
        BY <1>2, <2>4, <4>1, <4>2 DEF LinkedTo, Live
    <3>4. ASSUME NEW v \in Users, Has(v)', Unlinked(v)' PROVE Changing(v)'
      <4>1. CASE v = u
        <5>1. Busy(c, "link")' /\ jobs'[c].user = u
          BY <2>1, <2>3 DEF Busy
        <5> QED
          BY <4>1, <5>1 DEF Changing
      <4>2. CASE v # u
        <5>1. Has(v)
          BY <2>4, <3>4, <4>2 DEF Has, Live
        <5>2. PICK d \in Callers : (Busy(d, "link") \/ Busy(d, "remove")) /\ jobs[d].user = v
          BY <2>8, <3>2, <3>4, <5>1 DEF LinkOrder, Changing
        <5>3. d # c /\ jobs[d] # None
          BY <1>2, <5>2 DEF Busy
        <5>4. (Busy(d, "link")' \/ Busy(d, "remove")') /\ jobs'[d].user = v
          BY <3>1, <5>2, <5>3 DEF Same
        <5> QED
          BY <5>4 DEF Changing
      <4> QED
        BY <4>1, <4>2
    <3>5. ASSUME NEW d \in Callers, Busy(d, "remove")' PROVE Unlinked(jobs[d].user)'
      <4>1. Busy(d, "remove") /\ d # c /\ jobs[d] # None
        BY <1>2, <3>1, <3>5 DEF Busy
      <4>2. jobs'[d].user = jobs[d].user /\ Unlinked(jobs[d].user)
        BY <2>8, <3>1, <4>1 DEF LinkOrder, Same
      <4> QED
        BY <1>2, <4>2 DEF Unlinked
    <3>6. ASSUME NEW d \in Callers, NEW e \in Callers, Busy(d, "link")', ~jobs'[d].overtaken
          PROVE  Live(jobs[d].id)' /\ (Busy(e, "remove")' => jobs'[e].id # jobs'[d].id)
      <4>1. CASE d = c
        <5>1. jobs'[d].id = i
          BY <2>1, <2>3, <4>1
        <5>2. Live(jobs[d].id)'
          BY <2>4, <5>1 DEF Live
        <5>3. ASSUME Busy(e, "remove")' PROVE jobs'[e].id # i
          <6>1. Busy(e, "remove") /\ e # c /\ jobs[e] # None
            BY <1>2, <3>1, <5>3 DEF Busy
          <6> QED
            BY <2>5, <3>1, <6>1 DEF Same
        <5> QED
          BY <5>1, <5>2, <5>3
      <4>2. CASE d # c
        <5>1. Busy(d, "link") /\ jobs[d] # None /\ Same(d) /\ ~jobs[d].overtaken
          BY <3>1, <3>6, <4>2 DEF Busy, Same
        <5>2. jobs'[d].id = jobs[d].id /\ jobs[d].id # i /\ Live(jobs[d].id)
          BY <2>5, <2>8, <4>2, <5>1 DEF LinkOrder, Same
        <5>3. jobs[d].id \in Ids
          BY <5>1, JobFields DEF Busy, JobHolds
        <5>4. Live(jobs[d].id)'
          BY <2>4, <5>2, <5>3 DEF Live
        <5>5. ASSUME Busy(e, "remove")' PROVE jobs'[e].id # jobs'[d].id
          <6>1. Busy(e, "remove") /\ e # c /\ jobs[e] # None
            BY <1>2, <3>1, <5>5 DEF Busy
          <6>2. jobs'[e].id = jobs[e].id /\ jobs[e].id # jobs[d].id
            BY <2>8, <3>1, <5>1, <6>1 DEF LinkOrder, Same
          <6> QED
            BY <5>2, <6>2
        <5> QED
          BY <5>4, <5>5
      <4> QED
        BY <4>1, <4>2
    <3> QED
      BY <3>3, <3>4, <3>5, <3>6 DEF LinkOrder
  <2>9. OvershootBounded'
    <3> SUFFICES ASSUME ~late, NEW k \in Ids, Live(k)'
                 PROVE  \E m \in Limits : quotas'[k].used + Cardinality(Using(k)') < m + Cardinality(Callers)
      BY <1>2 DEF OvershootBounded, Using
    <3>1. CASE k = i
      <4>1. Using(k)' = {}
        <5> SUFFICES ASSUME NEW d \in Callers, Busy(d, "use")', jobs'[d].id = i PROVE FALSE
          BY <3>1 DEF Using
        <5>1. d # c
          BY <2>1, <2>3 DEF Busy
        <5> QED
          BY <2>2, <2>5, <5>1 DEF Busy, Replaced, Same
      <4>2. Cardinality(Using(k)') = 0
        BY <4>1, FS_EmptySet
      <4>3. Cardinality(Callers) \in Nat /\ Cardinality(Callers) # 0
        BY FS_CardinalityType, FS_EmptySet, QuotaAssumption
      <4>4. n \in Nat
        BY QuotaAssumption
      <4> QED
        BY <2>4, <3>1, <4>2, <4>3, <4>4
    <3>2. CASE k # i
      <4>1. Live(k) /\ quotas'[k] = quotas[k]
        BY <2>4, <3>2 DEF Live
      <4>2. Using(k)' = Using(k)
        BY <1>1, <2>1, <2>2, <2>3 DEF Using, Busy, Replaced, Same
      <4> QED
        BY <4>1, <4>2 DEF LInv, OvershootBounded, Using
    <3> QED
      BY <3>1, <3>2
  <2> QED
    BY <1>2, <2>6, <2>7, <2>8, <2>9 DEF LInv, Shape, Named
<1> QED
  BY <1>3, <1>4 DEF Create

(* Only the references of one user change, and no quota.                      *)
LEMMA UserStep ==
  ASSUME IInv, IInv', LInv, NEW c \in Callers, NEW job, Replaced(c, job), UNCHANGED quotas,
         late => late', halfway => halfway',
         job # None => NamesIn(job, quotas) /\ job.at # "use",
         ~late' /\ ~halfway' => LinkOrder'
  PROVE  LInv'
<1>1. RowsStay
  BY DEF RowsStay
<1>2. Shape'
  BY <1>1, ShapeFrame DEF LInv
<1>3. \A i \in Ids : Live(i)' => Live(i) /\ quotas'[i].used <= quotas[i].used
  BY DEF Live, IInv, TypeOK, QuotaRow
<1>4. OvershootBounded'
  BY <1>3, OvershootFrame DEF LInv
<1> QED
  BY <1>2, <1>4 DEF LInv

(* What a caller at "link", "unlink" or "remove" holds.                        *)
LEMMA CallerHolds ==
  ASSUME IInv, LInv, NEW c \in Callers, NEW at \in {"link", "unlink", "remove"}, Busy(c, at)
  PROVE  /\ jobs[c] \in Job /\ jobs[c] # None /\ jobs[c].at = at
         /\ jobs[c].user \in Users /\ jobs[c].id \in Ids
         /\ quotas[jobs[c].id] # None /\ quotas[jobs[c].id].user = jobs[c].user
         /\ at # "remove" => jobs[c].userRow # None /\ jobs[c].userRow \in UserRow
         /\ ~jobs[c].overtaken /\ at # "remove" => jobs[c].userRow = users[jobs[c].user]
         /\ jobs[c].quotaRow = None /\ jobs[c].overtaken \in BOOLEAN
<1>1. /\ jobs[c] \in Job /\ jobs[c] # None /\ jobs[c].at = at /\ JobHolds(jobs[c])
      /\ ~jobs[c].overtaken => JobFresh(jobs[c])
  BY JobFields DEF Busy
<1>2. NamesIn(jobs[c], quotas)
  BY <1>1 DEF LInv, Shape, Named
<1> QED
  BY <1>1, <1>2, JobFields, NoneApart DEF JobHolds, JobFresh, NamesIn

(* A creation that nobody has overtaken links the quota it inserted.           *)
LEMMA LinkUserLinks ==
  ASSUME IInv, IInv', LInv, NEW c \in Callers, LinkUser(c)
  PROVE  LInv'
<1>1. Busy(c, "link") /\ UNCHANGED <<quotas, counted, paid>>
  BY DEF LinkUser
<1>0. PICK u \in Users, i \in Ids : u = jobs[c].user /\ i = jobs[c].id
  BY <1>1, CallerHolds
<1> DEFINE row == [jobs[c].userRow EXCEPT !.member = TRUE, !.quota = i]
<1>2. /\ jobs[c] # None /\ u \in Users /\ i \in Ids /\ quotas[i] # None /\ quotas[i].user = u
      /\ jobs[c].userRow \in UserRow /\ jobs[c].overtaken \in BOOLEAN /\ jobs[c].at = "link"
  BY <1>0, <1>1, CallerHolds
<1>3. CASE SaveUserRow(c, row) /\ WroteUser(c, u, None) /\ UNCHANGED halfway
  <2>1. /\ users' = [users EXCEPT ![u] = row] /\ late' = (late \/ jobs[c].overtaken)
        /\ Replaced(c, None)
    BY <1>0, <1>3, WroteUserReplaces DEF SaveUserRow
  <2>2. row.member = TRUE /\ row.quota = i
    BY <1>2 DEF UserRow
  <2> HIDE DEF row
  <2>3. users'[u] = row /\ \A v \in Users : v # u => users'[v] = users[v]
    BY <1>2, <2>1 DEF IInv, TypeOK
  <2>4. ASSUME ~late', ~halfway' PROVE LinkOrder'
    <3>1. LinkOrder /\ ~jobs[c].overtaken
      BY <1>2, <1>3, <2>1, <2>4 DEF LInv
    <3>2. Live(i) /\ \A d \in Callers : Busy(d, "remove") => jobs[d].id # i
      BY <1>0, <1>1, <3>1 DEF LinkOrder
    <3>3. \A d \in Callers, at \in {"link", "remove"} :
             Busy(d, at)' => /\ Busy(d, at) /\ d # c /\ jobs[d] # None
                             /\ jobs'[d].user = jobs[d].user /\ jobs'[d].id = jobs[d].id
                             /\ jobs[d].overtaken => jobs'[d].overtaken
      BY <2>1 DEF Busy, Replaced, Same
    <3>4. LinkedTo(u, i)' /\ ~Unlinked(u)'
      BY <1>1, <1>2, <2>2, <2>3, <3>2, NoneApart DEF LinkedTo, Unlinked, Live
    <3>5. \A v \in Users : v # u =>
             /\ Unlinked(v)' <=> Unlinked(v)
             /\ \A k \in Ids : LinkedTo(v, k) => LinkedTo(v, k)'
             /\ Has(v)' <=> Has(v)
      BY <1>1, <2>3 DEF Unlinked, LinkedTo, Live, Has
    <3>6. \A v \in Users : Unlinked(v)' \/ \E k \in Ids : LinkedTo(v, k)'
      BY <1>2, <3>1, <3>4, <3>5 DEF LinkOrder
    <3>7. ASSUME NEW v \in Users, Has(v)', Unlinked(v)' PROVE Changing(v)'
      <4>1. v # u /\ Has(v) /\ Unlinked(v)
        BY <3>4, <3>5, <3>7
      <4>2. PICK d \in Callers : (Busy(d, "link") \/ Busy(d, "remove")) /\ jobs[d].user = v
        BY <3>1, <4>1 DEF LinkOrder, Changing
      <4>3. d # c /\ Same(d) /\ jobs[d] # None
        BY <1>0, <2>1, <4>1, <4>2 DEF Replaced, Busy
      <4> QED
        BY <4>2, <4>3 DEF Changing, Busy, Same
    <3>8. ASSUME NEW d \in Callers, Busy(d, "remove")' PROVE Unlinked(jobs[d].user)'
      <4>1. Busy(d, "remove") /\ jobs'[d].user = jobs[d].user
        BY <3>3, <3>8
      <4>2. /\ jobs[d].id # i /\ jobs[d].id \in Ids /\ jobs[d].user \in Users
            /\ quotas[jobs[d].id] # None /\ quotas[jobs[d].id].user = jobs[d].user
        BY <3>2, <4>1, CallerHolds
      <4>3. jobs[d].user # u
        BY <1>2, <4>2 DEF LInv, Shape, RowsUnique
      <4>4. Unlinked(jobs[d].user)
        BY <3>1, <4>1 DEF LinkOrder
      <4> QED
        BY <2>3, <4>1, <4>2, <4>3, <4>4 DEF Unlinked
    <3>9. ASSUME NEW d \in Callers, NEW e \in Callers, Busy(d, "link")', ~jobs'[d].overtaken
          PROVE  Live(jobs[d].id)' /\ (Busy(e, "remove")' => jobs'[e].id # jobs'[d].id)
      <4>1. Busy(d, "link") /\ jobs'[d].id = jobs[d].id /\ ~jobs[d].overtaken
        BY <3>3, <3>9
      <4>2. Live(jobs[d].id) /\ (Busy(e, "remove") => jobs[e].id # jobs[d].id)
        BY <3>1, <4>1 DEF LinkOrder
      <4>3. Live(jobs[d].id)'
        BY <1>1, <4>1, <4>2 DEF Live
      <4> QED
        BY <3>3, <4>1, <4>2, <4>3
    <3> QED
      BY <3>6, <3>7, <3>8, <3>9 DEF LinkOrder
  <2> QED
    BY <1>1, <1>3, <2>1, <2>4, UserStep
<1>4. CASE Goto(c, None) /\ halfway' = TRUE /\ UNCHANGED <<users, late>>
  BY <1>1, <1>4, GiveUpLinks
<1> QED
  BY <1>0, <1>3, <1>4 DEF LinkUser

(* A deletion overtakes the creation whose quota it is going to remove.        *)
LEMMA UnlinkUserLinks ==
  ASSUME IInv, IInv', LInv, NEW c \in Callers, UnlinkUser(c)
  PROVE  LInv'
<1>1. Busy(c, "unlink") /\ UNCHANGED <<quotas, counted, paid>>
  BY DEF UnlinkUser
<1>0. PICK u \in Users : u = jobs[c].user
  BY <1>1, CallerHolds
<1> DEFINE row == [jobs[c].userRow EXCEPT !.member = FALSE, !.quota = None]
           job == [jobs[c] EXCEPT !.at = "remove", !.userRow = None]
<1>2. /\ jobs[c] \in Job /\ jobs[c] # None /\ u \in Users /\ jobs[c].id \in Ids
      /\ quotas[jobs[c].id] # None /\ quotas[jobs[c].id].user = u /\ jobs[c].quotaRow = None
      /\ jobs[c].userRow \in UserRow /\ jobs[c].overtaken \in BOOLEAN /\ jobs[c].at = "unlink"
  BY <1>0, <1>1, CallerHolds
<1>3. /\ job # None /\ job.at = "remove" /\ job.user = u /\ job.id = jobs[c].id
      /\ job.quotaRow = None
  BY <1>0, <1>2, ChangedJob
<1>4. NamesIn(job, quotas)
  BY <1>2, <1>3 DEF NamesIn
<1>5. CASE SaveUserRow(c, row) /\ WroteUser(c, u, job) /\ UNCHANGED halfway
  <2>1. /\ users' = [users EXCEPT ![u] = row] /\ late' = (late \/ jobs[c].overtaken)
        /\ Replaced(c, job)
        /\ \A d \in Callers : d # c /\ jobs[d] # None /\ jobs[d].user = u /\ jobs[d].userRow # None
                                => jobs'[d].overtaken
    BY <1>0, <1>5, WroteUserReplaces DEF SaveUserRow
  <2>2. row.member = FALSE /\ row.quota = None
    BY <1>2 DEF UserRow
  <2> HIDE DEF row, job
  <2>3. users'[u] = row /\ \A v \in Users : v # u => users'[v] = users[v]
    BY <1>2, <2>1 DEF IInv, TypeOK
  <2>4. ASSUME ~late', ~halfway' PROVE LinkOrder'
    <3>1. LinkOrder
      BY <1>5, <2>1, <2>4 DEF LInv
    <3>2. jobs'[c] = job /\ Busy(c, "remove")'
      BY <1>3, <2>1 DEF Replaced, Busy
    <3>3. \A d \in Callers, at \in {"link", "remove"} :
             d # c /\ Busy(d, at)'
               => /\ Busy(d, at) /\ jobs[d] # None
                  /\ jobs'[d].user = jobs[d].user /\ jobs'[d].id = jobs[d].id
                  /\ jobs[d].overtaken => jobs'[d].overtaken
      BY <2>1 DEF Busy, Replaced, Same
    <3>4. Unlinked(u)'
      BY <2>2, <2>3 DEF Unlinked
    <3>5. \A v \in Users : v # u =>
             /\ Unlinked(v)' <=> Unlinked(v)
             /\ \A k \in Ids : LinkedTo(v, k) => LinkedTo(v, k)'
             /\ Has(v)' <=> Has(v)
      BY <1>1, <2>3 DEF Unlinked, LinkedTo, Live, Has
    <3>6. \A v \in Users : Unlinked(v)' \/ \E k \in Ids : LinkedTo(v, k)'
      BY <1>2, <3>1, <3>4, <3>5 DEF LinkOrder
    <3>7. ASSUME NEW v \in Users, Has(v)', Unlinked(v)' PROVE Changing(v)'
      <4>1. CASE v = u
        BY <1>3, <3>2, <4>1 DEF Changing
      <4>2. CASE v # u
        <5>1. Has(v) /\ Unlinked(v)
          BY <3>5, <3>7, <4>2
        <5>2. PICK d \in Callers : (Busy(d, "link") \/ Busy(d, "remove")) /\ jobs[d].user = v
          BY <3>1, <5>1 DEF LinkOrder, Changing
        <5>3. d # c /\ Same(d) /\ jobs[d] # None
          BY <1>0, <2>1, <4>2, <5>2 DEF Replaced, Busy
        <5> QED
          BY <5>2, <5>3 DEF Changing, Busy, Same
      <4> QED
        BY <4>1, <4>2
    <3>8. ASSUME NEW d \in Callers, Busy(d, "remove")' PROVE Unlinked(jobs[d].user)'
      <4>1. CASE d = c
        BY <1>3, <3>2, <3>4, <4>1 DEF Unlinked
      <4>2. CASE d # c
        <5>1. Busy(d, "remove") /\ jobs'[d].user = jobs[d].user /\ jobs[d].user \in Users
          BY <3>3, <3>8, <4>2, JobFields
        <5>2. Unlinked(jobs[d].user)
          BY <3>1, <5>1 DEF LinkOrder
        <5> QED
          BY <2>3, <3>4, <5>1, <5>2 DEF Unlinked
      <4> QED
        BY <4>1, <4>2
    <3>9. ASSUME NEW d \in Callers, NEW e \in Callers, Busy(d, "link")', ~jobs'[d].overtaken
          PROVE  Live(jobs[d].id)' /\ (Busy(e, "remove")' => jobs'[e].id # jobs'[d].id)
      <4>1. d # c
        BY <1>3, <3>2, <3>9 DEF Busy
      <4>2. Busy(d, "link") /\ jobs[d] # None /\ jobs'[d].id = jobs[d].id /\ ~jobs[d].overtaken
        BY <3>3, <3>9, <4>1
      <4>3. Live(jobs[d].id) /\ (Busy(e, "remove") => jobs[e].id # jobs[d].id)
        BY <3>1, <4>2 DEF LinkOrder
      <4>4. jobs[d].id \in Ids /\ jobs[d].userRow # None /\ quotas[jobs[d].id].user = jobs[d].user
        BY <4>2, CallerHolds
      <4>5. jobs[d].user # u
        BY <2>1, <3>9, <4>1, <4>2, <4>4
      <4>6. jobs[d].id # jobs[c].id
        BY <1>2, <4>4, <4>5
      <4>7. Live(jobs[d].id)'
        BY <1>1, <4>2, <4>3 DEF Live
      <4>8. ASSUME Busy(e, "remove")' PROVE jobs'[e].id # jobs'[d].id
        <5>1. CASE e = c
          BY <1>3, <3>2, <4>2, <4>6, <5>1
        <5>2. CASE e # c
          BY <3>3, <4>2, <4>3, <4>8, <5>2
        <5> QED
          BY <5>1, <5>2
      <4> QED
        BY <4>7, <4>8
    <3> QED
      BY <3>6, <3>7, <3>8, <3>9 DEF LinkOrder
  <2> QED
    BY <1>1, <1>3, <1>4, <1>5, <2>1, <2>4, UserStep
<1>6. CASE Goto(c, job) /\ halfway' = TRUE /\ UNCHANGED <<users, late>>
  <2> HIDE DEF job
  <2>1. Replaced(c, job)
    BY <1>6, GotoReplaces
  <2> QED
    BY <1>1, <1>3, <1>4, <1>6, <2>1, UserStep
<1> QED
  BY <1>0, <1>5, <1>6 DEF UnlinkUser

(* What a deletion removes is unlinked.                                       *)
LEMMA DeleteLinks ==
  ASSUME IInv, IInv', LInv, NEW c \in Callers, Delete(c)
  PROVE  LInv'
<1> DEFINE i == jobs[c].id
           u == jobs[c].user
<1>1. Busy(c, "remove") /\ UNCHANGED <<users, counted, paid, late>>
  BY DEF Delete
<1>2. /\ jobs[c] # None /\ u \in Users /\ i \in Ids /\ quotas[i] # None /\ quotas[i].user = u
      /\ jobs[c].at = "remove"
  BY <1>1, CallerHolds
<1>3. CASE quotas' = [quotas EXCEPT ![i].live = FALSE] /\ WroteQuota(c, i, None) /\ UNCHANGED halfway
  <2>1. Replaced(c, None) /\ quotas \in [Ids -> QuotaRow \cup {None}]
    BY <1>3, WroteQuotaReplaces DEF IInv, TypeOK
  <2>2. quotas[i] \in QuotaRow /\ [quotas[i] EXCEPT !.live = FALSE] \in QuotaRow
    BY <1>2, <2>1 DEF QuotaRow
  <2> HIDE DEF u, i
  <2>3. /\ quotas'[i] # None /\ ~quotas'[i].live /\ quotas'[i].user = u
        /\ \A k \in Ids : k # i => quotas'[k] = quotas[k]
    BY <1>2, <1>3, <2>1, <2>2, NoneApart DEF QuotaRow
  <2>4. RowsStay
    BY <1>2, <2>3 DEF RowsStay
  <2>5. Shape'
    BY <2>1, <2>4, ShapeFrame DEF LInv
  <2>6. \A k \in Ids : Live(k)' => k # i /\ Live(k) /\ quotas'[k].used <= quotas[k].used
    BY <2>1, <2>3 DEF Live, QuotaRow
  <2>7. OvershootBounded'
    BY <1>1, <2>1, <2>6, OvershootFrame DEF LInv
  <2>8. ASSUME LinkOrder PROVE LinkOrder'
    <3>1. \A d \in Callers, at \in {"link", "remove"} :
             Busy(d, at)' => /\ Busy(d, at) /\ d # c /\ jobs[d] # None
                             /\ jobs'[d].user = jobs[d].user /\ jobs'[d].id = jobs[d].id
                             /\ jobs[d].overtaken => jobs'[d].overtaken
      BY <2>1 DEF Busy, Replaced, Same
    <3>2. Unlinked(u) /\ \A v \in Users : Unlinked(v)' <=> Unlinked(v)
      BY <1>1, <2>8 DEF LinkOrder, Unlinked, u
    <3>3. \A v \in Users : Unlinked(v)' \/ \E k \in Ids : LinkedTo(v, k)'
      <4> SUFFICES ASSUME NEW v \in Users, ~Unlinked(v) PROVE \E k \in Ids : LinkedTo(v, k)'
        BY <3>2
      <4>1. PICK k \in Ids : LinkedTo(v, k)
        BY <2>8 DEF LinkOrder
      <4>2. k # i
        BY <1>2, <3>2, <4>1 DEF LinkedTo
      <4> QED
        BY <1>1, <2>3, <4>1, <4>2 DEF LinkedTo, Live
    <3>4. ASSUME NEW v \in Users, Has(v)', Unlinked(v)' PROVE Changing(v)'
      <4>1. PICK k \in Ids : Live(k)' /\ quotas'[k].user = v
        BY <3>4 DEF Has
      <4>2. k # i /\ Live(k) /\ quotas[k].user = v
        BY <2>3, <2>6, <4>1
      <4>3. v # u
        BY <1>2, <4>2 DEF LInv, Shape, RowsUnique, Live
      <4>4. PICK d \in Callers : (Busy(d, "link") \/ Busy(d, "remove")) /\ jobs[d].user = v
        BY <2>8, <3>2, <3>4, <4>2 DEF LinkOrder, Changing, Has
      <4>5. d # c /\ Same(d) /\ jobs[d] # None
        BY <2>1, <4>3, <4>4 DEF Replaced, Busy, u
      <4> QED
        BY <4>4, <4>5 DEF Changing, Busy, Same
    <3>5. ASSUME NEW d \in Callers, Busy(d, "remove")' PROVE Unlinked(jobs[d].user)'
      <4>1. Busy(d, "remove") /\ jobs'[d].user = jobs[d].user
        BY <3>1, <3>5
      <4> QED
        BY <1>1, <2>8, <4>1 DEF LinkOrder, Unlinked
    <3>6. ASSUME NEW d \in Callers, NEW e \in Callers, Busy(d, "link")', ~jobs'[d].overtaken
          PROVE  Live(jobs[d].id)' /\ (Busy(e, "remove")' => jobs'[e].id # jobs'[d].id)
      <4>1. Busy(d, "link") /\ jobs'[d].id = jobs[d].id /\ ~jobs[d].overtaken
        BY <3>1, <3>6
      <4>2. /\ Live(jobs[d].id) /\ jobs[d].id # i
            /\ Busy(e, "remove") => jobs[e].id # jobs[d].id
        BY <1>1, <2>8, <4>1 DEF LinkOrder, i
      <4>3. jobs[d].id \in Ids
        BY <4>1, CallerHolds
      <4>4. Live(jobs[d].id)'
        BY <2>3, <4>1, <4>2, <4>3 DEF Live
      <4> QED
        BY <3>1, <4>1, <4>2, <4>4
    <3> QED
      BY <3>3, <3>4, <3>5, <3>6 DEF LinkOrder
  <2> QED
    BY <1>1, <1>3, <2>5, <2>7, <2>8 DEF LInv
<1>4. CASE Goto(c, None) /\ halfway' = TRUE /\ UNCHANGED quotas
  BY <1>1, <1>4, GiveUpLinks
<1> QED
  BY <1>3, <1>4 DEF Delete

LEMMA LinksInitially == Init => LInv
<1> SUFFICES ASSUME Init PROVE LInv
  OBVIOUS
<1>1. Shape
  BY DEF Init, Shape, RowsUnique, Named
<1>2. LinkOrder
  BY DEF Init, LinkOrder, Unlinked, Has, Live, Busy
<1>3. OvershootBounded
  BY DEF Init, OvershootBounded, Live
<1> QED
  BY <1>1, <1>2, <1>3 DEF LInv

LEMMA LinksStep == IInv /\ IInv' /\ LInv /\ [Next]_vars => LInv'
<1> SUFFICES ASSUME IInv, IInv', LInv, [Next]_vars PROVE LInv'
  OBVIOUS
<1>1. ASSUME NEW c \in Callers, MemberQuotaRoutes(c) PROVE LInv'
  BY <1>1, CreateMemberQuotaLinks, DeleteMemberQuotaLinks, ReadQuotaLinks DEF MemberQuotaRoutes
<1>2. ASSUME NEW c \in Callers, BudgetTools(c) PROVE LInv'
  BY <1>2, CreateMemberQuotaLinks DEF BudgetTools
<1>3. ASSUME NEW c \in Callers, Continue(c) PROVE LInv'
  BY <1>3, CreateLinks, LinkUserLinks, ReadUserLinks, UnlinkUserLinks, DeleteLinks,
     SaveQuotaLinks, SaveUserLinks DEF Continue
<1>4. ASSUME NEW c \in Callers, NEW i \in Ids, CheckMemberQuota(c, i) PROVE LInv'
  BY <1>4, CheckMemberQuotaLinks
<1>5. ASSUME NEW c \in Callers, IncrementTokensUsed(c) PROVE LInv'
  BY <1>5, IncrementTokensUsedLinks
<1>6. ASSUME NEW u \in Users, DeductBalance(u) PROVE LInv'
  BY <1>6, DeductBalanceLinks
<1>7. ASSUME UNCHANGED vars PROVE LInv'
  BY <1>7 DEF vars, LInv, Shape, RowsUnique, Named, LinkOrder, Unlinked, LinkedTo, Changing,
              Has, Live, Busy, OvershootBounded, NamesIn
<1> QED
  BY <1>1, <1>2, <1>3, <1>4, <1>5, <1>6, <1>7 DEF Next

(* The two rows of a member agree whenever nothing is under way for them.      *)
LEMMA LinkedFollows == LInv => Linked
<1> SUFFICES ASSUME LInv, ~late, ~halfway, NEW u \in Users, Settled(u)
             PROVE  /\ users[u].member <=> Has(u)
                    /\ \A i \in Ids : users[u].quota = i <=> Live(i) /\ quotas[i].user = u
  BY DEF Linked
<1>1. LinkOrder /\ RowsUnique
  BY DEF LInv, Shape
<1>2. ~Changing(u)
  BY DEF Settled, Changing, Busy
<1>3. CASE Unlinked(u)
  <2>1. ~Has(u)
    BY <1>1, <1>2, <1>3 DEF LinkOrder
  <2> QED
    BY <1>3, <2>1, NoneApart DEF Unlinked, Has
<1>4. CASE ~Unlinked(u)
  <2>1. PICK k \in Ids : LinkedTo(u, k)
    BY <1>1, <1>4 DEF LinkOrder
  <2>2. \A i \in Ids : Live(i) /\ quotas[i].user = u => i = k
    BY <1>1, <2>1 DEF RowsUnique, LinkedTo, Live
  <2> QED
    BY <2>1, <2>2 DEF LinkedTo, Has
<1> QED
  BY <1>3, <1>4

LEMMA BothStep == (IInv /\ LInv) /\ [Next]_vars => (IInv /\ LInv)'
  BY Step, LinksStep

(* When nothing is under way for a user, the user's row and the live quota    *)
(* name each other, or neither does (CreateMemberQuota, DeleteMemberQuota),    *)
(* for any number of administrators and any interleaving of their statements,  *)
(* as long as none of them failed halfway and no row was saved late.           *)
THEOREM QuotasAreLinked == Spec => []Linked
<1>1. Init => IInv /\ LInv
  BY Initially, LinksInitially
<1>2. IInv /\ LInv => Linked
  BY LinkedFollows
<1> QED
  BY <1>1, <1>2, BothStep, PTL DEF Spec

(* However many requests were checked before any of them was counted, they     *)
(* exceed the highest limit by less than one each (checkMemberQuota,           *)
(* deductMemberUsage).                                                         *)
THEOREM OvershootIsBounded == Spec => []OvershootBounded
<1>1. Init => IInv /\ LInv
  BY Initially, LinksInitially
<1>2. IInv /\ LInv => OvershootBounded
  BY DEF LInv
<1> QED
  BY <1>1, <1>2, BothStep, PTL DEF Spec
=============================================================================
