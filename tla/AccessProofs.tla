----------------------------- MODULE AccessProofs -----------------------------
(***************************************************************************)
(* Proofs about Access, for any persons, any number of handlers at work    *)
(* and any limits: the types, and each safety property the run checks.     *)
(*                                                                         *)
(* A handler that has read a row and will write it anew carries what it    *)
(* has read across other handlers' writes.  Reliable says what it may rely *)
(* on: that its person was let in, and that the row is as it read it       *)
(* unless somebody has crossed it.  Counted says the same of the handlers  *)
(* that count: while they do not overlap the number read is the number     *)
(* in the table, the table agrees with what ran, and one handler at a time *)
(* stands between its comparison and its write.                            *)
(***************************************************************************)
EXTENDS Access, TLAPS

LetIn == {"invited", "member", "raced"}
Rewrites(j) == j.pc \in {"intro", "upsert"}
Counts(j) == j.pc \in {"increment", "store"} /\ ~j.old

Jobs == [pc : PCs, user : Users \union {Nobody}, act : Acts, member : BOOLEAN, read : Nat,
         old : BOOLEAN, intro : Intro \union {"none"}, todo : SUBSET Users,
         victim : Users \union {Nobody}]

(* Each handler but the purges has a person, and what it will write is a   *)
(* value of the column.                                                    *)
JobShape(j) ==
    /\ j.pc \notin {"idle", "purge", "purge_delete"} => j.user \in Users
    /\ j.pc = "purge_delete" => j.victim \in Users
    /\ j.pc \in {"upsert", "toggle"} => j.intro \in Intro

(* Who will write a row anew may rely on what it has read.                 *)
Reliable(j) ==
    Rewrites(j) =>
        /\ admission[j.user] \in LetIn
        /\ j.pc = "intro" /\ j.user \notin crossed => approved[j.user] \in Intro
        /\ j.pc = "upsert" /\ j.user \notin crossed => approved[j.user] = j.intro

JobsOK == \A s \in Slots : JobShape(job[s]) /\ Reliable(job[s])

Cap == IF MemberLimit > OutsiderLimit THEN MemberLimit ELSE OutsiderLimit

(* The handlers that count a command of u's for today. *)
Counters(u) == {s \in Slots : job[s].user = u /\ Counts(job[s])}

CountedOne(u) ==
    /\ ran[u] = count[u] /\ ran[u] <= Cap
    /\ \A s, t \in Counters(u) : s = t
    /\ \A s \in Counters(u) : /\ count[u] + 1 <= Cap
                              /\ job[s].pc = "store" => job[s].read = count[u]

Counted == \A u \in Users \ overlapped : CountedOne(u)

IInv == TypeOK /\ JobsOK /\ AdmittedByOwner /\ Counted

USE DEF Intro

-----------------------------------------------------------------------------
(* What concerns one person's counting stays while nothing of his changes. *)
LEMMA CountedOneStays ==
    ASSUME NEW u \in Users, CountedOne(u), count'[u] = count[u], ran'[u] = ran[u],
           \A t \in Slots : job'[t].user = u /\ Counts(job'[t]) => job'[t] = job[t]
    PROVE  CountedOne(u)'
  <1>1. \A s \in Counters(u)' : s \in Counters(u) /\ job'[s] = job[s]
    BY DEF Counters
  <1> QED
    BY <1>1 DEF CountedOne

(* Nobody begins to count and nothing is counted. *)
LEMMA CountedStays ==
    ASSUME Counted, UNCHANGED usage,
           \A t \in Slots : Counts(job'[t]) => job'[t] = job[t]
    PROVE  Counted'
  <1>1. UNCHANGED <<count, ran, overlapped>>
    BY DEF usage
  <1>2. ASSUME NEW u \in Users \ overlapped PROVE CountedOne(u)'
    BY <1>1, CountedOneStays DEF Counted
  <1> QED
    BY <1>1, <1>2 DEF Counted

(* A step that only moves a handler on, to a place where it may stand and  *)
(* where it does not count; at most a request changes.                     *)
LEMMA MovePreserves ==
    ASSUME IInv, NEW s \in Slots, NEW j \in Jobs, JobShape(j), Reliable(j), ~Counts(j),
           job' = [job EXCEPT ![s] = j], pending' \subseteq Users,
           UNCHANGED <<approved, inGroup, usage, ghosts>>
    PROVE  IInv'
  <1>1. TypeOK'
    BY DEF IInv, TypeOK, Jobs, usage, ghosts
  <1>2. \A t \in Slots : job'[t] = IF t = s THEN j ELSE job[t]
    BY DEF IInv, TypeOK
  <1>3. JobsOK'
    BY <1>2 DEF IInv, JobsOK, JobShape, Reliable, Rewrites, ghosts
  <1>4. AdmittedByOwner'
    BY DEF IInv, AdmittedByOwner, IsApproved, ghosts
  <1>5. Counted'
    BY <1>2, CountedStays DEF IInv
  <1> QED
    BY <1>1, <1>3, <1>4, <1>5 DEF IInv

(* A row is written: the new value agrees with the approval, and whoever   *)
(* is about to rewrite the row anew is known to be crossed.                *)
LEMMA RowPreserves ==
    ASSUME IInv, NEW u \in Users, NEW intro \in Intro \union {"none"},
           approved' = [approved EXCEPT ![u] = intro], crossed' \subseteq Users,
           admission' \in [Users -> {"none", "invited", "member", "raced", "lost"}],
           \A v \in Users \ {u} : /\ v \in crossed' <=> v \in crossed
                                  /\ admission'[v] = admission[v],
           intro # "none" => admission'[u] \in LetIn,
           job' \in [Slots -> Jobs],
           \A t \in Slots :
             /\ JobShape(job'[t])
             /\ Counts(job'[t]) => job'[t] = job[t]
             /\ Rewrites(job'[t]) =>
                  /\ job'[t] = job[t]
                  /\ job[t].user = u => u \in crossed' /\ admission'[u] \in LetIn,
           UNCHANGED <<pending, inGroup, usage>>
    PROVE  IInv'
  <1>1. TypeOK'
    BY DEF IInv, TypeOK, Jobs, usage
  <1>2. ASSUME NEW t \in Slots, Rewrites(job'[t]) PROVE Reliable(job[t])'
    <2>1. job'[t] = job[t] /\ Reliable(job[t]) /\ job[t].user \in Users
      BY <1>2 DEF IInv, JobsOK, JobShape, Rewrites
    <2>2. CASE job[t].user = u
      BY <1>2, <2>1, <2>2 DEF Reliable
    <2>3. CASE job[t].user # u
      BY <1>2, <2>1, <2>3 DEF Reliable, IInv, TypeOK
    <2> QED
      BY <2>2, <2>3
  <1>3. JobsOK'
    BY <1>2 DEF JobsOK, Reliable, JobShape
  <1>4. AdmittedByOwner'
    BY DEF IInv, TypeOK, AdmittedByOwner, IsApproved, LetIn
  <1>5. Counted'
    BY CountedStays DEF IInv
  <1> QED
    BY <1>1, <1>3, <1>4, <1>5 DEF IInv

(* The same when a handler writes and goes on. *)
LEMMA WritePreserves ==
    ASSUME IInv, NEW s \in Slots, NEW u \in Users, NEW intro \in Intro \union {"none"},
           NEW j \in Jobs, ~Rewrites(j), ~Counts(j), JobShape(j),
           job' = [job EXCEPT ![s] = j],
           Write(s, u, intro),
           admission' \in [Users -> {"none", "invited", "member", "raced", "lost"}],
           \A v \in Users \ {u} : admission'[v] = admission[v],
           intro # "none" => admission'[u] \in LetIn,
           Rewriting(s, u) => admission'[u] \in LetIn,
           UNCHANGED <<pending, inGroup, usage>>
    PROVE  IInv'
  <1>1. job' \in [Slots -> Jobs] /\ \A t \in Slots : job'[t] = IF t = s THEN j ELSE job[t]
    BY DEF IInv, TypeOK, Jobs
  <1>2. \A t \in Slots \ {s} : job[t].user = u /\ Rewrites(job[t]) => Rewriting(s, u)
    BY DEF Rewriting, Rewriters, Rewrites
  <1>3. /\ approved' = [approved EXCEPT ![u] = intro]
        /\ \A v \in Users \ {u} : v \in crossed' <=> v \in crossed
        /\ crossed' \subseteq Users
        /\ Rewriting(s, u) => u \in crossed'
    BY DEF Write, IInv, TypeOK
  <1>4. \A t \in Slots : JobShape(job'[t])
    BY <1>1 DEF IInv, JobsOK
  <1> QED
    BY <1>1, <1>2, <1>3, <1>4, RowPreserves

LEMMA IdleOK == Idle \in Jobs /\ JobShape(Idle) /\ Reliable(Idle) /\ ~Rewrites(Idle) /\ ~Counts(Idle)
  BY DEF Idle, Jobs, PCs, Acts, JobShape, Reliable, Rewrites, Counts

(* A handler returns. *)
LEMMA DonePreserves ==
    ASSUME IInv, NEW s \in Slots, Done(s), pending' \subseteq Users,
           UNCHANGED <<approved, inGroup, usage, ghosts>>
    PROVE  IInv'
  BY IdleOK, MovePreserves DEF Done

(* A handler goes on to a place where it neither counts nor rewrites. *)
LEMMA GotoPreserves ==
    ASSUME IInv, NEW s \in Slots, job[s].user \in Users,
           NEW pc \in PCs \ {"increment", "store", "intro", "upsert", "toggle", "purge_delete"},
           Goto(s, pc), UNCHANGED <<tables, inGroup, usage, ghosts>>
    PROVE  IInv'
  <1> DEFINE j == [job[s] EXCEPT !.pc = pc]
  <1>1. job[s] \in Jobs
    BY DEF IInv, TypeOK, Jobs
  <1>2. j \in Jobs /\ j.pc = pc /\ j.user = job[s].user
    BY <1>1 DEF Jobs
  <1>3. JobShape(j) /\ Reliable(j) /\ ~Counts(j)
    BY <1>2 DEF JobShape, Reliable, Rewrites, Counts
  <1>4. job' = [job EXCEPT ![s] = j] /\ pending' \subseteq Users
    BY DEF Goto, IInv, TypeOK, tables
  <1> QED
    BY <1>2, <1>3, <1>4, MovePreserves DEF tables

(* A handler begins, at a place where it neither counts nor rewrites. *)
LEMMA BeginPreserves ==
    ASSUME IInv, NEW s \in Slots, NEW j \in Jobs, JobShape(j), ~Rewrites(j), ~Counts(j),
           job' = [job EXCEPT ![s] = j], UNCHANGED <<tables, inGroup, usage, ghosts>>
    PROVE  IInv'
  <1>1. Reliable(j) /\ pending' \subseteq Users
    BY DEF Reliable, IInv, TypeOK, tables
  <1> QED
    BY <1>1, MovePreserves DEF tables

-----------------------------------------------------------------------------
(* Updates that open a handler. *)
LEMMA OpeningsPreserve ==
    ASSUME IInv, NEW u \in Users, NEW s \in Slots,
           \/ \E act \in {"start", "command", "button", "wizard"} : Receive(s, u, act)
           \/ RulesAck(s, u) \/ CardButton(s, u) \/ ApproveRead(s, u) \/ IntroToggleRead(s, u)
    PROVE  IInv'
  <1> USE DEF Idle, Jobs, PCs, Acts, JobShape, Rewrites, Counts
  <1>1. ASSUME NEW act \in {"start", "command", "button", "wizard"}, Receive(s, u, act) PROVE IInv'
    <2> DEFINE j == [Idle EXCEPT !.pc = "group", !.user = u, !.act = act,
                                 !.member = IsApproved(u)]
    <2>1. j \in Jobs /\ JobShape(j) /\ ~Rewrites(j) /\ ~Counts(j)
      BY DEF IsApproved
    <2> QED
      BY <1>1, <2>1, BeginPreserves DEF Receive
  <1>2. ASSUME NEW act \in {"rules", "card", "approve"},
               NEW pc \in {"in_group", "card_group", "approve_insert"},
               Begin(s, u, act, pc), UNCHANGED <<tables, inGroup, usage, ghosts>>
        PROVE  IInv'
    <2> DEFINE j == [Idle EXCEPT !.pc = pc, !.user = u, !.act = act]
    <2>1. j \in Jobs /\ JobShape(j) /\ ~Rewrites(j) /\ ~Counts(j)
      OBVIOUS
    <2> QED
      BY <1>2, <2>1, BeginPreserves DEF Begin
  <1>3. CASE IntroToggleRead(s, u)
    <2> DEFINE j == [Idle EXCEPT !.pc = "toggle", !.user = u, !.act = "toggle",
                 !.intro = IF approved[u] = "completed" THEN "pending" ELSE "completed"]
    <2>1. j \in Jobs /\ JobShape(j) /\ ~Rewrites(j) /\ ~Counts(j)
      OBVIOUS
    <2> QED
      <3>1. job' = [job EXCEPT ![s] = j] /\ UNCHANGED <<tables, inGroup, usage, ghosts>>
        BY <1>3 DEF IntroToggleRead
      <3> HIDE DEF j, Jobs, JobShape, Rewrites, Counts
      <3> QED
        BY <2>1, <3>1, BeginPreserves
  <1> QED
    BY <1>1, <1>2, <1>3 DEF RulesAck, CardButton, ApproveRead

(* Questions, to the tables and to Telegram, that only choose the next one. *)
LEMMA QuestionsPreserve ==
    ASSUME IInv, NEW s \in Slots,
           \/ AskGroup(s) \/ RefuseCommand(s) \/ CardInGroup(s) \/ InGroup(s)
           \/ EnsureNotApproved(s) \/ EnsureNotPending(s) \/ AddPendingUser(s)
           \/ ApproveDelete(s) \/ PurgeEnd(s)
    PROVE  IInv'
  <1>1. pending \subseteq Users /\ JobShape(job[s]) /\ job[s].pc \in PCs
    BY DEF IInv, TypeOK, JobsOK
  <1>2. CASE PurgeEnd(s)
    BY <1>1, <1>2, DonePreserves DEF PurgeEnd, tables
  <1>3. CASE job[s].user \in Users
    BY <1>1, <1>2, <1>3, DonePreserves, GotoPreserves
       DEF AskGroup, RefuseCommand, CardInGroup, InGroup, EnsureNotApproved, EnsureNotPending, AddPendingUser,
           ApproveDelete, tables, PCs
  <1> QED
    BY <1>1, <1>2, <1>3
       DEF At, JobShape, AskGroup, RefuseCommand, CardInGroup, InGroup, EnsureNotApproved, EnsureNotPending,
           AddPendingUser, ApproveDelete

(* The row is read that will be written anew. *)
LEMMA ReadRowPreserves ==
    ASSUME IInv, NEW s \in Slots, IsMemberApproved(s) \/ GetApprovedMember(s)
    PROVE  IInv'
  <1>1. /\ job[s] \in Jobs /\ JobShape(job[s]) /\ Reliable(job[s])
        /\ approved \in [Users -> Intro \union {"none"}] /\ pending \subseteq Users
    BY DEF IInv, TypeOK, JobsOK, Jobs
  <1>2. job[s].user \in Users
    BY <1>1 DEF IsMemberApproved, GetApprovedMember, At, JobShape
  <1>3. CASE IsMemberApproved(s) /\ ~IsApproved(job[s].user)
    BY <1>2, <1>3, GotoPreserves DEF IsMemberApproved, PCs
  <1>4. CASE IsMemberApproved(s) /\ IsApproved(job[s].user)
    <2> DEFINE j == [job[s] EXCEPT !.pc = "intro"]
    <2>1. j \in Jobs /\ JobShape(j) /\ ~Counts(j)
      BY <1>1, <1>2 DEF Jobs, PCs, JobShape, Counts
    <2>2. Reliable(j)
      BY <1>1, <1>2, <1>4 DEF Jobs, Reliable, IsApproved, IInv, AdmittedByOwner, LetIn
    <2>3. job' = [job EXCEPT ![s] = j]
      BY <1>4 DEF IsMemberApproved, Goto
    <2> QED
      BY <1>1, <1>4, <2>1, <2>2, <2>3, MovePreserves DEF IsMemberApproved, tables
  <1>5. CASE GetApprovedMember(s)
    <2> DEFINE intro == approved[job[s].user]
               read == IF intro \in Intro THEN intro
                       ELSE IF job[s].act = "start" THEN "completed" ELSE "pending"
               j == [job[s] EXCEPT !.pc = "upsert", !.intro = read]
    <2>1. j \in Jobs /\ JobShape(j) /\ ~Counts(j)
      BY <1>1, <1>2 DEF Jobs, PCs, JobShape, Counts
    <2>2. Reliable(j)
      BY <1>1, <1>2, <1>5 DEF Jobs, Reliable, Rewrites, GetApprovedMember, At
    <2>3. job' = [job EXCEPT ![s] = j]
      BY <1>5 DEF GetApprovedMember
    <2> QED
      BY <1>1, <1>5, <2>1, <2>2, <2>3, MovePreserves DEF GetApprovedMember, tables
  <1> QED
    BY <1>3, <1>4, <1>5

(* The row of a person is deleted: by the membership check and by a purge. *)
LEMMA DeletionPreserves ==
    ASSUME IInv, NEW s \in Slots, NEW u \in Users, NEW j \in Jobs,
           ~Rewrites(j), ~Counts(j), JobShape(j), job' = [job EXCEPT ![s] = j],
           DeleteApprovedMember(s, u), UNCHANGED <<pending, inGroup, usage>>
    PROVE  IInv'
  <1>1. /\ admission' \in [Users -> {"none", "invited", "member", "raced", "lost"}]
        /\ \A v \in Users \ {u} : admission'[v] = admission[v]
        /\ Rewriting(s, u) => admission'[u] \in LetIn
        /\ Write(s, u, "none")
    BY DEF DeleteApprovedMember, IInv, TypeOK, LetIn
  <1> QED
    BY <1>1, WritePreserves

LEMMA EvictionsPreserve ==
    ASSUME IInv, NEW s \in Slots, Evict(s) \/ Purge(s) \/ PurgeAskGroup(s) \/ PurgeDelete(s)
    PROVE  IInv'
  <1>1. job[s] \in Jobs /\ JobShape(job[s])
    BY DEF IInv, TypeOK, JobsOK, Jobs
  <1>2. CASE Evict(s)
    <2> DEFINE j == [job[s] EXCEPT !.pc = "limit", !.member = FALSE]
    <2>1. job[s].user \in Users
      BY <1>1, <1>2 DEF Evict, At, JobShape
    <2>2. /\ j \in Jobs /\ JobShape(j) /\ ~Counts(j) /\ ~Rewrites(j)
          /\ job' = [job EXCEPT ![s] = j]
      BY <1>1, <1>2, <2>1 DEF Evict, Jobs, PCs, JobShape, Counts, Rewrites
    <2> HIDE DEF j
    <2> QED
      BY <1>2, <2>1, <2>2, DeletionPreserves DEF Evict
  <1>3. CASE Purge(s)
    <2> DEFINE j == [Idle EXCEPT !.pc = "purge", !.act = "purge",
                                 !.todo = {u \in Users : IsApproved(u)}]
    <2>1. /\ j \in Jobs /\ JobShape(j) /\ ~Counts(j) /\ ~Rewrites(j)
          /\ job' = [job EXCEPT ![s] = j]
      BY <1>3 DEF Purge, Idle, Jobs, PCs, Acts, JobShape, Counts, Rewrites
    <2> HIDE DEF j
    <2> QED
      BY <1>3, <2>1, BeginPreserves DEF Purge
  <1>4. CASE PurgeAskGroup(s)
    <2> DEFINE spared(u) == [job[s] EXCEPT !.todo = @ \ {u}]
               doomed(u) == [job[s] EXCEPT !.pc = "purge_delete", !.todo = @ \ {u}, !.victim = u]
    <2>0. PICK u \in job[s].todo :
            job' = [job EXCEPT ![s] = spared(u)] \/ job' = [job EXCEPT ![s] = doomed(u)]
      BY <1>4 DEF PurgeAskGroup
    <2>1. job[s].pc = "purge" /\ u \in Users
      BY <1>1, <1>4, <2>0 DEF PurgeAskGroup, At, Jobs
    <2>2. ASSUME NEW j, j = spared(u) \/ j = doomed(u)
          PROVE  j \in Jobs /\ JobShape(j) /\ ~Counts(j) /\ ~Rewrites(j)
      <3>1. CASE j = spared(u)
        BY <1>1, <2>1, <3>1 DEF Jobs, PCs, JobShape, Counts, Rewrites
      <3>2. CASE j = doomed(u)
        BY <1>1, <2>1, <3>2 DEF Jobs, PCs, JobShape, Counts, Rewrites
      <3> QED
        BY <2>2, <3>1, <3>2
    <2> HIDE DEF spared, doomed
    <2>3. PICK j : (j = spared(u) \/ j = doomed(u)) /\ job' = [job EXCEPT ![s] = j]
      BY <2>0
    <2> QED
      BY <1>4, <2>2, <2>3, BeginPreserves DEF PurgeAskGroup
  <1>5. CASE PurgeDelete(s)
    <2> DEFINE j == [job[s] EXCEPT !.pc = "purge", !.victim = Nobody]
    <2>1. job[s].victim \in Users
      BY <1>1, <1>5 DEF PurgeDelete, At, JobShape
    <2>2. /\ j \in Jobs /\ JobShape(j) /\ ~Counts(j) /\ ~Rewrites(j)
          /\ job' = [job EXCEPT ![s] = j]
      BY <1>1, <1>5 DEF PurgeDelete, Jobs, PCs, JobShape, Counts, Rewrites
    <2> HIDE DEF j
    <2> QED
      BY <1>5, <2>1, <2>2, DeletionPreserves DEF PurgeDelete
  <1> QED
    BY <1>2, <1>3, <1>4, <1>5

(* A row is written: the approval, the rewrites, the owner's two buttons. *)
LEMMA RowWritesPreserve ==
    ASSUME IInv, NEW s \in Slots,
           ApproveInsert(s) \/ UpsertApprovedMember(s) \/ IntroToggleWrite(s)
    PROVE  IInv'
  <1> DEFINE u == job[s].user
  <1>1. /\ job[s] \in Jobs /\ JobShape(job[s]) /\ Reliable(job[s])
        /\ admission \in [Users -> {"none", "invited", "member", "raced", "lost"}]
    BY DEF IInv, TypeOK, JobsOK, Jobs
  <1>2. u \in Users
    BY <1>1 DEF ApproveInsert, UpsertApprovedMember, IntroToggleWrite, At, JobShape
  <1>3. CASE ApproveInsert(s)
    <2> DEFINE j == [job[s] EXCEPT !.pc = "approve_delete"]
    <2>1. /\ j \in Jobs /\ JobShape(j) /\ ~Counts(j) /\ ~Rewrites(j)
          /\ job' = [job EXCEPT ![s] = j]
      BY <1>1, <1>2, <1>3 DEF ApproveInsert, Goto, Jobs, PCs, JobShape, Counts, Rewrites
    <2>2. /\ admission' \in [Users -> {"none", "invited", "member", "raced", "lost"}]
          /\ \A v \in Users \ {u} : admission'[v] = admission[v]
          /\ admission'[u] \in LetIn
          /\ Write(s, u, "pending") /\ UNCHANGED <<pending, inGroup, usage>>
      BY <1>1, <1>2, <1>3 DEF ApproveInsert, LetIn
    <2> HIDE DEF j, u
    <2> QED
      BY <1>2, <2>1, <2>2, WritePreserves
  <1>4. ASSUME NEW intro \in Intro, Write(s, u, intro), admission[u] \in LetIn, Done(s),
               UNCHANGED <<pending, inGroup, usage, admission>>
        PROVE  IInv'
    <2> HIDE DEF u
    <2> QED
      BY <1>1, <1>2, <1>4, IdleOK, WritePreserves DEF Done
  <1>5. CASE UpsertApprovedMember(s)
    BY <1>1, <1>4, <1>5 DEF UpsertApprovedMember, At, JobShape, Reliable, Rewrites
  <1>6. CASE IntroToggleWrite(s) /\ IsApproved(u)
    <2>1. job[s].intro \in Intro /\ admission[u] \in LetIn
      BY <1>1, <1>2, <1>6 DEF IntroToggleWrite, At, JobShape, IInv, AdmittedByOwner, LetIn
    <2> QED
      BY <1>4, <1>6, <2>1 DEF IntroToggleWrite
  <1>7. CASE IntroToggleWrite(s) /\ ~IsApproved(u)
    BY <1>7, DonePreserves DEF IntroToggleWrite, ghosts, IInv, TypeOK
  <1> QED
    BY <1>3, <1>5, <1>6, <1>7

LEMMA IntroDonePreserves ==
    ASSUME IInv, NEW u \in Users, IntroDone(u)
    PROVE  IInv'
  <1>1. /\ approved' = [approved EXCEPT ![u] = "completed"]
        /\ crossed' = IF Rewriters(u) # {} THEN crossed \union {u} ELSE crossed \ {u}
        /\ UNCHANGED <<pending, inGroup, job, usage, admission>>
        /\ admission[u] \in LetIn
    BY DEF IntroDone, IInv, AdmittedByOwner, LetIn
  <1>2. /\ crossed' \subseteq Users
        /\ \A v \in Users \ {u} : v \in crossed' <=> v \in crossed
        /\ \A t \in Slots : Rewrites(job[t]) /\ job[t].user = u => u \in crossed'
    BY <1>1 DEF IInv, TypeOK, Rewriters, Rewrites
  <1>3. /\ job' \in [Slots -> Jobs] /\ \A t \in Slots : JobShape(job'[t])
        /\ admission' \in [Users -> {"none", "invited", "member", "raced", "lost"}]
    BY <1>1 DEF IInv, TypeOK, Jobs, JobsOK
  <1> QED
    BY <1>1, <1>2, <1>3, RowPreserves

-----------------------------------------------------------------------------
(* The command's number is compared: another handler that counts for the   *)
(* same person makes the two overlapped, else there is room for one more.  *)
LEMMA ApplyLimitPreserves ==
    ASSUME IInv, NEW s \in Slots, ApplyLimit(s)
    PROVE  IInv'
  <1> DEFINE u == job[s].user
             j == [job[s] EXCEPT !.pc = "increment"]
  <1>1. /\ job[s] \in Jobs /\ JobShape(job[s]) /\ job[s].pc = "limit"
        /\ u \in Users /\ count[u] \in Nat
    BY DEF ApplyLimit, At, IInv, TypeOK, JobsOK, Jobs, JobShape
  <1>2. CASE Done(s) /\ UNCHANGED overlapped
    BY <1>2, DonePreserves DEF ApplyLimit, tables, usage, IInv, TypeOK
  <1>3. CASE ~(Done(s) /\ UNCHANGED overlapped)
    <2>1. /\ job' = [job EXCEPT ![s] = j]
          /\ overlapped' = overlapped \union {v \in {u} : Counting(v)}
          /\ ~(count[u] >= DailyLimit(s))
          /\ UNCHANGED <<tables, inGroup, count, ran, ghosts>>
      BY <1>3 DEF ApplyLimit, Goto
    <2>2. count[u] + 1 <= Cap
      BY <1>1, <2>1, AccessAssumption DEF DailyLimit, Cap
    <2>3. j \in Jobs /\ JobShape(j) /\ ~Rewrites(j)
      BY <1>1 DEF Jobs, PCs, JobShape, Rewrites
    <2>4. \A t \in Slots : job'[t] = IF t = s THEN j ELSE job[t]
      BY <2>1 DEF IInv, TypeOK
    <2>5. TypeOK'
      BY <1>1, <2>1, <2>3 DEF IInv, TypeOK, Jobs, tables, ghosts
    <2>6. JobsOK'
      BY <2>1, <2>3, <2>4 DEF IInv, JobsOK, JobShape, Reliable, Rewrites, tables, ghosts
    <2>7. AdmittedByOwner'
      BY <2>1 DEF IInv, AdmittedByOwner, IsApproved, tables, ghosts
    <2>8. ASSUME NEW v \in Users \ overlapped' PROVE CountedOne(v)'
      <3>1. CountedOne(v) /\ v \notin overlapped
        BY <2>1, <2>8 DEF IInv, Counted
      <3>2. CASE v # u
        BY <1>1, <2>1, <2>4, <3>1, <3>2, CountedOneStays
      <3>3. CASE v = u
        <4>1. \A t \in Slots \ {s} : ~(job[t].user = u /\ Counts(job[t]))
          BY <2>1, <2>8, <3>3 DEF Counting, Counts
        <4>2. Counters(v)' \subseteq {s} /\ job'[s].pc = "increment"
          BY <1>1, <2>4, <3>3, <4>1 DEF Counters, Jobs
        <4> QED
          BY <2>1, <2>2, <3>1, <3>3, <4>2 DEF CountedOne
      <3> QED
        BY <3>2, <3>3
    <2> QED
      BY <2>1, <2>5, <2>6, <2>7, <2>8 DEF IInv, Counted
  <1> QED
    BY <1>2, <1>3

(* The number is read again. *)
LEMMA IncrementReadPreserves ==
    ASSUME IInv, NEW s \in Slots, IncrementRead(s)
    PROVE  IInv'
  <1> DEFINE u == job[s].user
             j == [job[s] EXCEPT !.pc = "store", !.read = count[u]]
  <1>1. /\ job[s] \in Jobs /\ JobShape(job[s]) /\ job[s].pc = "increment"
        /\ u \in Users /\ count[u] \in Nat
    BY DEF IncrementRead, At, IInv, TypeOK, JobsOK, Jobs, JobShape
  <1>2. j \in Jobs /\ JobShape(j) /\ ~Rewrites(j)
    BY <1>1 DEF Jobs, PCs, JobShape, Rewrites
  <1>3. /\ job' = [job EXCEPT ![s] = j]
        /\ UNCHANGED <<tables, inGroup, usage, ghosts>>
    BY DEF IncrementRead
  <1>4. \A t \in Slots : job'[t] = IF t = s THEN j ELSE job[t]
    BY <1>3 DEF IInv, TypeOK
  <1>5. TypeOK'
    BY <1>2, <1>3 DEF IInv, TypeOK, Jobs, tables, usage, ghosts
  <1>6. JobsOK' /\ AdmittedByOwner'
    BY <1>2, <1>3, <1>4
       DEF IInv, JobsOK, JobShape, Reliable, Rewrites, AdmittedByOwner, IsApproved, tables, ghosts
  <1>7. ASSUME NEW v \in Users \ overlapped' PROVE CountedOne(v)'
    <2>1. CountedOne(v) /\ UNCHANGED <<count, ran>>
      BY <1>3, <1>7 DEF IInv, Counted, usage
    <2>2. j.user = u /\ j.old = job[s].old /\ j.pc = "store" /\ j.read = count[u]
      BY <1>1 DEF Jobs
    <2>3. ASSUME NEW t \in Counters(v)'
          PROVE  /\ t \in Counters(v)
                 /\ t # s => job'[t] = job[t]
                 /\ t = s => job'[t].read = count[v]
      <3>1. t \in Slots /\ job'[t].user = v /\ Counts(job'[t])
        BY DEF Counters
      <3>2. CASE t = s
        <4>1. job'[t] = j
          BY <1>4, <3>1, <3>2
        <4> HIDE DEF j
        <4> QED
          BY <1>1, <2>2, <3>1, <3>2, <4>1 DEF Counters, Counts
      <3>3. CASE t # s
        BY <1>4, <3>1, <3>3 DEF Counters
      <3> QED
        BY <3>2, <3>3
    <2> QED
      BY <2>1, <2>3 DEF CountedOne, Counters
  <1> QED
    BY <1>3, <1>5, <1>6, <1>7 DEF IInv, Counted

(* The number read is written one higher, and the command has run. *)
LEMMA IncrementWritePreserves ==
    ASSUME IInv, NEW s \in Slots, IncrementWrite(s)
    PROVE  IInv'
  <1> DEFINE u == job[s].user
             j == IF job[s].act = "start"
                  THEN [Idle EXCEPT !.pc = "in_group", !.user = u, !.act = "start"]
                  ELSE Idle
  <1>1. /\ job[s] \in Jobs /\ JobShape(job[s]) /\ job[s].pc = "store"
        /\ u \in Users /\ count[u] \in Nat /\ ran[u] \in Nat /\ job[s].read \in Nat
    BY DEF IncrementWrite, At, IInv, TypeOK, JobsOK, Jobs, JobShape
  <1>2. j \in Jobs /\ JobShape(j) /\ ~Rewrites(j) /\ ~Counts(j)
    BY <1>1 DEF Idle, Jobs, PCs, Acts, JobShape, Rewrites, Counts
  <1>3. /\ job' = [job EXCEPT ![s] = j]
        /\ UNCHANGED <<tables, inGroup, overlapped, ghosts>>
    BY DEF IncrementWrite, Done
  <1>4. \A t \in Slots : job'[t] = IF t = s THEN j ELSE job[t]
    BY <1>3 DEF IInv, TypeOK
  <1>5. CASE job[s].old
    <2>1. pending' \subseteq Users /\ UNCHANGED <<approved, inGroup, usage, ghosts>>
      BY <1>3, <1>5 DEF IncrementWrite, IInv, TypeOK, tables, usage
    <2>2. Reliable(j)
      BY <1>2 DEF Reliable
    <2> HIDE DEF j
    <2> QED
      BY <1>2, <1>3, <2>1, <2>2, MovePreserves
  <1>6. CASE ~job[s].old
    <2>1. /\ count' = [count EXCEPT ![u] = job[s].read + 1]
          /\ ran' = [ran EXCEPT ![u] = IF u \in overlapped THEN 0 ELSE @ + 1]
      BY <1>6 DEF IncrementWrite
    <2>2. TypeOK'
      <3>1. count' \in [Users -> Nat] /\ ran' \in [Users -> Nat]
        BY <1>1, <2>1 DEF IInv, TypeOK
      <3>2. job' \in [Slots -> Jobs]
        BY <1>2, <1>3 DEF IInv, TypeOK, Jobs
      <3> QED
        BY <1>3, <3>1, <3>2 DEF IInv, TypeOK, Jobs, tables, ghosts
    <2>3. JobsOK' /\ AdmittedByOwner'
      BY <1>2, <1>3, <1>4
         DEF IInv, JobsOK, JobShape, Reliable, Rewrites, AdmittedByOwner, IsApproved, tables,
             ghosts
    <2>4. ASSUME NEW v \in Users \ overlapped' PROVE CountedOne(v)'
      <3>1. CountedOne(v) /\ v \notin overlapped
        BY <1>3, <2>4 DEF IInv, Counted
      <3>2. \A t \in Slots : Counts(job'[t]) => job'[t] = job[t] /\ t # s
        BY <1>2, <1>4
      <3>3. CASE v # u
        BY <2>1, <3>1, <3>2, <3>3, CountedOneStays DEF IInv, TypeOK
      <3>4. CASE v = u
        <4>1. s \in Counters(v)
          BY <1>1, <1>6, <3>4 DEF Counters, Counts
        <4>2. Counters(v)' = {}
          BY <3>1, <3>2, <4>1 DEF CountedOne, Counters
        <4>3. job[s].read = count[v] /\ ran[v] = count[v] /\ count[v] + 1 <= Cap
          BY <1>1, <3>1, <4>1 DEF CountedOne
        <4>4. ran'[v] = count[v] + 1 /\ count'[v] = count[v] + 1
          BY <1>1, <2>1, <3>1, <3>4, <4>3 DEF IInv, TypeOK
        <4> QED
          BY <4>2, <4>3, <4>4 DEF CountedOne
      <3> QED
        BY <3>3, <3>4
    <2> QED
      BY <1>3, <2>2, <2>3, <2>4 DEF IInv, Counted
  <1> QED
    BY <1>5, <1>6

(* An admin's reset, midnight: nothing has run, and who is about to write  *)
(* an old number is overlapped or of yesterday.                            *)
LEMMA ResetsPreserve ==
    ASSUME IInv, NewDay \/ \E u \in Users : ResetUserLimit(u)
    PROVE  IInv'
  <1>0. 0 <= Cap
    BY AccessAssumption DEF Cap
  <1>1. CASE NewDay
    <2>1. /\ job' \in [Slots -> Jobs]
          /\ \A t \in Slots : /\ job'[t].pc = job[t].pc /\ job'[t].user = job[t].user
                              /\ job'[t].intro = job[t].intro /\ job'[t].victim = job[t].victim
                              /\ ~Counts(job'[t])
      <3>1. \A t \in Slots :
              /\ job[t] \in Jobs
              /\ job'[t] = IF job[t].pc \in {"increment", "store"}
                           THEN [job[t] EXCEPT !.old = TRUE] ELSE job[t]
        BY <1>1 DEF NewDay, IInv, TypeOK, Jobs
      <3>2. ASSUME NEW t \in Slots
            PROVE  /\ job'[t] \in Jobs
                   /\ job'[t].pc = job[t].pc /\ job'[t].user = job[t].user
                   /\ job'[t].intro = job[t].intro /\ job'[t].victim = job[t].victim
                   /\ ~Counts(job'[t])
        <4>1. CASE job[t].pc \in {"increment", "store"}
          <5>1. job[t] \in Jobs /\ job'[t] = [job[t] EXCEPT !.old = TRUE]
            BY <3>1, <4>1
          <5> QED
            BY <5>1 DEF Jobs, Counts
        <4>2. CASE job[t].pc \notin {"increment", "store"}
          BY <3>1, <4>2 DEF Counts
        <4> QED
          BY <4>1, <4>2
      <3>3. job' = [t \in Slots |-> job'[t]]
        BY <1>1 DEF NewDay
      <3> QED
        BY <3>2, <3>3
    <2>2. TypeOK'
      BY <1>1, <2>1 DEF NewDay, IInv, TypeOK, Jobs, tables, ghosts
    <2>3. JobsOK' /\ AdmittedByOwner'
      BY <1>1, <2>1 DEF NewDay, IInv, JobsOK, JobShape, Reliable, Rewrites, AdmittedByOwner,
                        IsApproved, tables, ghosts
    <2>4. ASSUME NEW u \in Users PROVE CountedOne(u)'
      <3>1. Counters(u)' = {} /\ count'[u] = 0 /\ ran'[u] = 0
        BY <1>1, <2>1 DEF NewDay, Counters
      <3> QED
        BY <1>0, <3>1 DEF CountedOne
    <2> QED
      BY <2>2, <2>3, <2>4 DEF IInv, Counted
  <1>2. ASSUME NEW u \in Users, ResetUserLimit(u) PROVE IInv'
    <2>1. TypeOK'
      BY <1>2 DEF ResetUserLimit, IInv, TypeOK, tables, ghosts
    <2>2. JobsOK' /\ AdmittedByOwner'
      BY <1>2 DEF ResetUserLimit, IInv, JobsOK, JobShape, Reliable, Rewrites, AdmittedByOwner,
                  IsApproved, tables, ghosts
    <2>3. ASSUME NEW v \in Users \ overlapped' PROVE CountedOne(v)'
      <3>1. CASE v = u
        <4>1. ~Counting(u) /\ count'[u] = 0 /\ ran'[u] = 0 /\ job' = job
          BY <1>2, <2>3, <3>1 DEF ResetUserLimit, IInv, TypeOK
        <4>2. Counters(u)' = {}
          BY <4>1 DEF Counting, Counters, Counts
        <4> QED
          BY <1>0, <3>1, <4>1, <4>2 DEF CountedOne
      <3>2. CASE v # u
        <4>1. CountedOne(v) /\ count'[v] = count[v] /\ ran'[v] = ran[v] /\ job' = job
          BY <1>2, <2>3, <3>2 DEF ResetUserLimit, IInv, TypeOK, Counted
        <4> QED
          BY <4>1, CountedOneStays
      <3> QED
        BY <3>1, <3>2
    <2> QED
      BY <2>1, <2>2, <2>3 DEF IInv, Counted
  <1> QED
    BY <1>1, <1>2

(* What happens around the handlers: people come and go, the owner rejects *)
(* a request, the process restarts.                                        *)
LEMMA OthersPreserve ==
    ASSUME IInv, Restart \/ \E u \in Users : Reject(u) \/ Join(u) \/ Leave(u)
    PROVE  IInv'
  <1>1. CASE Restart
    <2>1. job' \in [Slots -> Jobs] /\ \A t \in Slots : job'[t] = Idle
      BY <1>1, IdleOK DEF Restart
    <2>2. TypeOK' /\ AdmittedByOwner'
      BY <1>1, <2>1 DEF Restart, IInv, TypeOK, Jobs, AdmittedByOwner, IsApproved, tables, usage,
                        ghosts
    <2>3. JobsOK'
      BY <2>1 DEF JobsOK, JobShape, Reliable, Rewrites, Idle
    <2>4. Counted'
      BY <1>1, <2>1, CountedStays DEF Restart, IInv, Counts, Idle
    <2> QED
      BY <2>2, <2>3, <2>4 DEF IInv
  <1>2. ASSUME NEW u \in Users, Reject(u) \/ Join(u) \/ Leave(u) PROVE IInv'
    <2>1. /\ UNCHANGED <<approved, job, usage, crossed>>
          /\ pending' \subseteq Users /\ inGroup' \subseteq Users
          /\ admission' \in [Users -> {"none", "invited", "member", "raced", "lost"}]
          /\ \A v \in Users : admission[v] \in LetIn => admission'[v] \in LetIn
      BY <1>2 DEF Reject, Join, Leave, IInv, TypeOK, LetIn, tables, ghosts
    <2>2. TypeOK'
      BY <2>1 DEF IInv, TypeOK, usage
    <2>3. JobsOK'
      BY <2>1 DEF IInv, JobsOK, JobShape, Reliable, Rewrites
    <2>4. AdmittedByOwner'
      BY <2>1 DEF IInv, AdmittedByOwner, IsApproved, LetIn
    <2>5. Counted'
      BY <2>1, CountedStays DEF IInv
    <2> QED
      BY <2>2, <2>3, <2>4, <2>5 DEF IInv
  <1> QED
    BY <1>1, <1>2

(* The invariant holds initially and every step keeps it. *)
THEOREM InvariantHolds == Spec => []IInv
  <1>1. Init => IInv
    <2> SUFFICES ASSUME Init PROVE IInv
      OBVIOUS
    <2>1. TypeOK
      BY IdleOK DEF Init, TypeOK, Jobs
    <2>2. JobsOK /\ AdmittedByOwner
      BY IdleOK DEF Init, JobsOK, AdmittedByOwner, IsApproved
    <2>3. ASSUME NEW u \in Users PROVE CountedOne(u)
      <3>1. Counters(u) = {}
        BY IdleOK DEF Init, Counters
      <3>2. 0 <= Cap /\ count[u] = 0 /\ ran[u] = 0
        BY AccessAssumption DEF Init, Cap
      <3> QED
        BY <3>1, <3>2 DEF CountedOne
    <2> QED
      BY <2>1, <2>2, <2>3 DEF IInv, Counted
  <1>2. ASSUME IInv, NEW u \in Users, UserNext(u) PROVE IInv'
    BY <1>2, OpeningsPreserve, OthersPreserve, ResetsPreserve, IntroDonePreserves DEF UserNext
  <1>3. ASSUME IInv, NEW s \in Slots, StepNext(s) PROVE IInv'
    BY <1>3, QuestionsPreserve, ReadRowPreserves, EvictionsPreserve, RowWritesPreserve,
       ApplyLimitPreserves, IncrementReadPreserves, IncrementWritePreserves DEF StepNext
  <1>4. IInv /\ Next => IInv'
    BY <1>2, <1>3, ResetsPreserve, OthersPreserve DEF Next
  <1>5. IInv /\ UNCHANGED vars => IInv'
    <2> SUFFICES ASSUME IInv, UNCHANGED vars PROVE IInv'
      OBVIOUS
    <2>1. TypeOK' /\ JobsOK' /\ AdmittedByOwner'
      BY DEF IInv, TypeOK, JobsOK, JobShape, Reliable, Rewrites, AdmittedByOwner, IsApproved, vars
    <2>2. Counted'
      BY CountedStays DEF IInv, vars, usage
    <2> QED
      BY <2>1, <2>2 DEF IInv
  <1> QED
    BY <1>1, <1>4, <1>5, PTL DEF Spec

-----------------------------------------------------------------------------
(* The variables of Access keep their types: a row's introduction is a value *)
(* of the column, every handler stands at one of its statements.             *)
THEOREM TypeCorrect == Spec => []TypeOK
  BY InvariantHolds, PTL DEF IInv

(* Whoever has a row in approved_members was let in by the owner and not     *)
(* evicted since, or was evicted in the middle of a rewrite of that row.     *)
THEOREM OnlyTheOwnerAdmits == Spec => []AdmittedByOwner
  BY InvariantHolds, PTL DEF IInv

(* What /start and the rules' button write back is the introduction in the   *)
(* table, unless somebody else has written the row since they read it.       *)
THEOREM RewritesAreFaithful == Spec => []RewriteKeepsIntro
  <1>1. IInv => RewriteKeepsIntro
    BY DEF IInv, JobsOK, Reliable, Rewrites, RewriteKeepsIntro, At
  <1> QED
    BY <1>1, InvariantHolds, PTL

(* Commands that are counted one after the other keep to the daily limit,    *)
(* whatever evictions, resets and midnights come between.                    *)
THEOREM LimitHolds == Spec => []LimitHoldsAlone
  <1>1. IInv => LimitHoldsAlone
    BY DEF IInv, Counted, CountedOne, Cap, LimitHoldsAlone
  <1> QED
    BY <1>1, InvariantHolds, PTL
=============================================================================
