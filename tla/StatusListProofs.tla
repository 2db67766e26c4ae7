--------------------------- MODULE StatusListProofs ---------------------------
(***************************************************************************)
(* Theorems about StatusList, for every set of users, credentials and      *)
(* requests, for lists of any capacity and any number of lists.            *)
(***************************************************************************)
EXTENDS StatusList, TLAPS

Issuing == {"find", "boot", "create", "slot", "insert"}
Revoking == {"read", "write", "commit"}

ListsOf(set) == {vcs[v].list : v \in set}

\* What a request has in memory, by the step it is at.
Local(r) ==
  /\ pc[r] = "idle" => job[r] = NoJob
  /\ pc[r] \in Issuing =>
       job[r].op = "issue" /\ job[r].user \in Users /\ job[r].cur = {} /\ job[r].done = {}
  /\ pc[r] \in Revoking =>
       /\ job[r].op \in {"revoke", "deactivate"}
       /\ job[r].op = "deactivate" => job[r].user \in Users
       /\ job[r].todo \subseteq Issued /\ job[r].cur \subseteq Issued
       /\ job[r].done \subseteq Issued
       /\ job[r].locks = ListsOf(job[r].done)
  /\ pc[r] \in {"find", "boot", "create"} => job[r].locks = {}
  /\ pc[r] \in {"create", "slot", "insert"} => job[r].list \in Lists
  /\ pc[r] = "slot" =>
       IF job[r].list \in Existing THEN job[r].locks = {} ELSE job[r].locks = {job[r].list}
  /\ pc[r] = "insert" =>
       /\ job[r].locks = {job[r].list}
       /\ job[r].slot = lists[job[r].list].next /\ ~lists[job[r].list].frozen
  /\ pc[r] \in {"read", "commit"} => job[r].cur = {}
  /\ pc[r] = "commit" => job[r].todo = {}

\* A list is locked by one request at most.
Exclusive == \A r, q \in Requests : r /= q => job[r].locks \cap job[q].locks = {}

\* A list without a free slot is frozen; one that does not exist is empty.
ListInv ==
  \A l \in Lists : /\ lists[l].next = Capacity => lists[l].frozen
                   /\ l \notin Existing => lists[l] = NoList

\* A credential has a slot that its list has handed out.
SlotInv ==
  /\ \A v \in Issued : vcs[v].list \in Existing /\ vcs[v].slot < lists[vcs[v].list].next
  /\ SlotsUnique

LocalInv == TypeOK /\ (\A r \in Requests : Local(r)) /\ Exclusive /\ ListInv /\ SlotInv

\* The bits of list l are those of credentials that are revoked, or that are
\* revoked once the transaction that keeps the set done commits ...
Sound(bits, l, done) ==
  \A s \in bits : \E v \in Issued :
    vcs[v].list = l /\ vcs[v].slot = s /\ (vcs[v].revoked \/ v \in done)

\* ... and all of these, except where revocations overlapped.
Complete(bits, l, done) ==
  \A v \in Issued :
    vcs[v].list = l /\ ((vcs[v].revoked /\ v \notin overlapped) \/ v \in done)
      => vcs[v].slot \in bits

Exact(bits, l, done) == Sound(bits, l, done) /\ Complete(bits, l, done)

BitsInv ==
  /\ \A l \in Lists : Exact(lists[l].bits, l, {})
  /\ \A r \in Requests :
       /\ \A v \in job[r].cur : Exact(job[r].seen, vcs[v].list, job[r].done)
       /\ \A l \in ListsOf(job[r].done) : Exact(job[r].draft[l], l, job[r].done)

\* Where two requests have begun to revoke credentials of one list, these overlap.
OverlapInv ==
  \A r, q \in Requests, l \in Lists :
    r /= q /\ OnList(r, l) /= {} /\ OnList(q, l) /= {}
      => OnList(r, l) \subseteq overlapped

\* A deactivation has to do with every live credential of its user, the late ones aside.
TombInv ==
  /\ TombstoneRevokesAll
  /\ \A r \in Requests : \A v, w \in job[r].cur : v = w
  /\ \A r \in Requests : job[r].op = "deactivate" =>
       \A v \in Live : vcs[v].user = job[r].user /\ v \notin late
                         => v \in job[r].todo \cup job[r].cur \cup job[r].done

-----------------------------------------------------------------------------
(* Types and steps *)

LEMMA Constants ==
  /\ Capacity \in Nat /\ Capacity > 0 /\ MaxLists \in Nat
  /\ 0 \in Slots /\ Slots \subseteq Nat /\ Lists \subseteq Nat /\ 0 \notin Lists
  /\ NoList \in List /\ NoVc \in Vc /\ NoJob \in Job
  BY CapacityAssumption, BoundAssumption DEF Slots, Lists, NoList, List, NoVc, Vc, NoJob, Job

\* Requests other than r keep what they have.
Alone(r) == \A q \in Requests \ {r} : pc'[q] = pc[q] /\ job'[q] = job[q]

\* The lists that r has not locked keep everything but their bits, none disappears,
\* and credentials stay in their lists.
Gently(r) ==
  /\ \A l \in Lists \ job[r].locks : /\ lists'[l].next = lists[l].next
                                     /\ lists'[l].frozen = lists[l].frozen
                                     /\ lists'[l].exists = lists[l].exists
  /\ Existing \subseteq Existing'
  /\ \A v \in Issued : v \in Issued' /\ vcs'[v].list = vcs[v].list

LEMMA OthersLocal ==
  ASSUME TypeOK, Exclusive, NEW r \in Requests, NEW q \in Requests \ {r},
         Local(q), Alone(r), Gently(r)
  PROVE  Local(q)'
<1>1. pc'[q] = pc[q] /\ job'[q] = job[q]
  BY DEF Alone
<1>2. \A l \in job[q].locks : l \notin job[r].locks
  BY DEF Exclusive
<1>3. job[q].done \subseteq Issued => ListsOf(job[q].done)' = ListsOf(job[q].done)
  BY <1>1 DEF ListsOf, Gently
<1>4. pc[q] = "slot" => (job[q].list \in Existing' <=> job[q].list \in Existing)
  <2>1. CASE job[q].list \in Existing
    BY <2>1 DEF Gently
  <2>2. CASE pc[q] = "slot" /\ job[q].list \notin Existing
    <3>1. job[q].list \in Lists /\ job[q].list \in job[q].locks
      BY <2>2 DEF Local
    <3> QED BY <2>2, <3>1, <1>2 DEF Gently, Existing
  <2> QED BY <2>1, <2>2
<1>5. pc[q] = "insert" => /\ lists'[job[q].list].next = lists[job[q].list].next
                          /\ lists'[job[q].list].frozen = lists[job[q].list].frozen
  <2> SUFFICES ASSUME pc[q] = "insert"
               PROVE  job[q].list \in Lists \ job[r].locks
    BY DEF Gently
  <2> QED BY <1>2 DEF Local
<1>6. Issued \subseteq Issued'
  BY DEF Gently
<1> QED BY <1>1, <1>3, <1>4, <1>5, <1>6 DEF Local, Issuing, Revoking

\* What a step of r does to the requests, whatever it does to the rows.
Fine(r) ==
  /\ TypeOK' /\ Alone(r) /\ Gently(r) /\ Local(r)'
  /\ \A l \in job'[r].locks : l \in job[r].locks \/ ~Locked(r, l)

LEMMA FineKeeps ==
  ASSUME TypeOK, \A q \in Requests : Local(q), Exclusive, NEW r \in Requests, Fine(r)
  PROVE  TypeOK' /\ (\A q \in Requests : Local(q)') /\ Exclusive'
<1>1. \A q \in Requests : Local(q)'
  BY OthersLocal DEF Fine
<1>2. \A q \in Requests \ {r} : job'[r].locks \cap job'[q].locks = {}
  BY DEF Fine, Alone, Locked, Exclusive
<1>3. \A q, p \in Requests \ {r} : job'[q] = job[q] /\ job'[p] = job[p]
  BY DEF Fine, Alone
<1>4. Exclusive'
  BY <1>2, <1>3 DEF Exclusive
<1> QED BY <1>1, <1>4 DEF Fine

\* The transaction of r has ended.
Ended(r) ==
  /\ job'[r] = NoJob /\ pc'[r] = "idle" /\ Alone(r)
  /\ job' \in [Requests -> Job] /\ pc' \in [Requests -> Label]

LEMMA IdleLocal ==
  ASSUME NEW r \in Requests, Ended(r)
  PROVE  Local(r)' /\ job'[r].locks = {}
  BY DEF Ended, Local, NoJob, Issuing, Revoking

LEMMA EndEnds ==
  ASSUME TypeOK, NEW r \in Requests, End(r) PROVE Ended(r)
  BY Constants DEF TypeOK, End, Goto, Ended, Alone, Label

\* A step that writes no rows: the request gets another job and another label.
Moves(r, j, label) ==
  /\ job' = [job EXCEPT ![r] = j] /\ pc' = [pc EXCEPT ![r] = label]
  /\ UNCHANGED rows

LEMMA MoveFacts ==
  ASSUME TypeOK, NEW r \in Requests, NEW j \in Job, NEW label \in Label, Moves(r, j, label),
         overlapped' \subseteq Vcs
  PROVE  /\ TypeOK' /\ Alone(r) /\ Gently(r) /\ job'[r] = j /\ pc'[r] = label
<1>1. job'[r] = j /\ pc'[r] = label /\ Alone(r)
  BY DEF TypeOK, Moves, Alone
<1>2. TypeOK'
  BY DEF TypeOK, Moves, rows
<1>3. Gently(r)
  BY DEF Moves, rows, Gently, Existing, Issued
<1> QED BY <1>1, <1>2, <1>3

\* ... and it is fine if what is true of the new job is true of the unchanged rows.
LEMMA MoveFine ==
  ASSUME TypeOK, NEW r \in Requests, NEW j \in Job, NEW label \in Label, Moves(r, j, label),
         overlapped' \subseteq Vcs,
         \A l \in j.locks : l \in job[r].locks \/ ~Locked(r, l),
         label = "idle" => j = NoJob,
         label \in Issuing =>
           j.op = "issue" /\ j.user \in Users /\ j.cur = {} /\ j.done = {},
         label \in Revoking =>
           /\ j.op \in {"revoke", "deactivate"} /\ (j.op = "deactivate" => j.user \in Users)
           /\ j.todo \subseteq Issued /\ j.cur \subseteq Issued /\ j.done \subseteq Issued
           /\ j.locks = ListsOf(j.done),
         label \in {"find", "boot", "create"} => j.locks = {},
         label \in {"create", "slot", "insert"} => j.list \in Lists,
         label = "slot" => IF j.list \in Existing THEN j.locks = {} ELSE j.locks = {j.list},
         label = "insert" => /\ j.locks = {j.list} /\ j.slot = lists[j.list].next
                             /\ ~lists[j.list].frozen,
         label \in {"read", "commit"} => j.cur = {},
         label = "commit" => j.todo = {}
  PROVE  Fine(r)
<1>1. /\ TypeOK' /\ Alone(r) /\ Gently(r) /\ job'[r] = j /\ pc'[r] = label
  BY MoveFacts
<1>2. lists' = lists /\ vcs' = vcs
  BY DEF Moves, rows
<1>3. Existing' = Existing /\ Issued' = Issued /\ ListsOf(j.done)' = ListsOf(j.done)
  BY <1>2 DEF Existing, Issued, ListsOf
<1>4. Local(r)'
  BY <1>1, <1>2, <1>3 DEF Local
<1> QED BY <1>1, <1>4 DEF Fine

LEMMA FailFine ==
  ASSUME LocalInv, NEW r \in Requests, Fail(r) \/ KeyTaken(r) PROVE Fine(r)
<1>1. Moves(r, NoJob, "idle") /\ overlapped' \subseteq Vcs
  BY DEF Fail, KeyTaken, End, Goto, Moves, LocalInv, TypeOK
<1>2. NoJob \in Job /\ NoJob.locks = {} /\ "idle" \in Label
  BY Constants DEF NoJob, Label
<1>3. TypeOK
  BY DEF LocalInv
<1> QED BY <1>1, <1>2, <1>3, MoveFine DEF Issuing, Revoking

LEMMA IssueFine ==
  ASSUME LocalInv, NEW r \in Requests, NEW v \in Vcs, NEW u \in Users, Issue(r, v, u)
  PROVE  Fine(r)
<1> DEFINE j == [NoJob EXCEPT !.op = "issue", !.user = u, !.todo = {v}]
<1>1. Moves(r, j, "find") /\ overlapped' \subseteq Vcs
  BY DEF Issue, Begin, Goto, Moves, LocalInv, TypeOK
<1>2. /\ j \in Job /\ j.locks = {} /\ j.op = "issue" /\ j.user = u
      /\ j.cur = {} /\ j.done = {}
  BY Constants DEF NoJob, Job
<1>3. TypeOK /\ "find" \in Label
  BY DEF LocalInv, Label
<1> HIDE DEF j
<1> QED BY <1>1, <1>2, <1>3, MoveFine DEF Issuing, Revoking

\* The steps of an issue before it writes anything: all but list and locks stays.
LEMMA SearchFine ==
  ASSUME LocalInv, NEW r \in Requests, pc[r] \in Issuing,
         NEW l \in Lists \cup {0}, NEW s \in Slots, NEW set \in SUBSET Lists,
         NEW label \in Issuing,
         Moves(r, [job[r] EXCEPT !.list = l, !.slot = s, !.locks = set], label),
         UNCHANGED overlapped,
         \A k \in set : k \in job[r].locks \/ ~Locked(r, k),
         label \in {"find", "boot", "create"} => set = {},
         label \in {"create", "slot", "insert"} => l \in Lists,
         label = "slot" => IF l \in Existing THEN set = {} ELSE set = {l},
         label = "insert" => set = {l} /\ s = lists[l].next /\ ~lists[l].frozen
  PROVE  Fine(r)
<1> DEFINE j == [job[r] EXCEPT !.list = l, !.slot = s, !.locks = set]
<1>1. TypeOK /\ Local(r) /\ job[r] \in Job
  BY DEF LocalInv, TypeOK
<1>2. /\ j \in Job /\ j.list = l /\ j.slot = s /\ j.locks = set /\ j.op = job[r].op
      /\ j.user = job[r].user /\ j.cur = job[r].cur /\ j.done = job[r].done
  BY <1>1 DEF Job
<1>3. Moves(r, j, label) /\ overlapped' \subseteq Vcs /\ label \in Label
  BY <1>1 DEF TypeOK, Issuing, Label
<1>4. job[r].op = "issue" /\ job[r].user \in Users /\ job[r].cur = {} /\ job[r].done = {}
  BY <1>1 DEF Local
<1> HIDE DEF j
<1> QED BY <1>1, <1>2, <1>3, <1>4, MoveFine DEF Issuing, Revoking

LEMMA FindFine ==
  ASSUME LocalInv, NEW r \in Requests,
         (\E l \in Lists : FindActive(r, l) \/ ComputeKey(r, l)) \/ NoneActive(r)
  PROVE  Fine(r)
<1>1. job[r] \in Job /\ Local(r) /\ job \in [Requests -> Job]
  BY DEF LocalInv, TypeOK
<1>2. ASSUME NEW l \in Lists, FindActive(r, l) \/ ComputeKey(r, l) PROVE Fine(r)
  <2>1. job[r].locks = {} /\ pc[r] \in Issuing
    BY <1>1, <1>2 DEF FindActive, ComputeKey, Local, Issuing
  <2>2. [job[r] EXCEPT !.list = l]
          = [job[r] EXCEPT !.list = l, !.slot = job[r].slot, !.locks = {}]
    BY <1>1, <2>1 DEF Job
  <2>3. job' = [job EXCEPT ![r] = [job[r] EXCEPT !.list = l]] /\ UNCHANGED <<rows, overlapped>>
    BY <1>2 DEF FindActive, ComputeKey
  <2>4. CASE FindActive(r, l)
    <3>1. Moves(r, [job[r] EXCEPT !.list = l, !.slot = job[r].slot, !.locks = {}], "slot")
      BY <2>2, <2>3, <2>4 DEF FindActive, Goto, Moves
    <3>2. l \in Existing /\ job[r].slot \in Slots
      BY <1>1, <2>4 DEF FindActive, Job
    <3> QED BY <2>1, <2>3, <3>1, <3>2, SearchFine DEF Issuing
  <2>5. CASE ComputeKey(r, l)
    <3>1. Moves(r, [job[r] EXCEPT !.list = l, !.slot = job[r].slot, !.locks = {}], "create")
      BY <2>2, <2>3, <2>5 DEF ComputeKey, Goto, Moves
    <3> QED BY <1>1, <2>1, <2>3, <3>1, SearchFine DEF Issuing, Job
  <2> QED BY <1>2, <2>4, <2>5
<1>3. CASE NoneActive(r)
  <2>1. job[r].locks = {} /\ pc[r] \in Issuing
    BY <1>1, <1>3 DEF NoneActive, Local, Issuing
  <2>2. job[r] = [job[r] EXCEPT !.list = job[r].list, !.slot = job[r].slot, !.locks = {}]
    BY <1>1, <2>1 DEF Job
  <2>3. job' = [job EXCEPT ![r] = job[r]]
    BY <1>1, <1>3 DEF NoneActive
  <2>4. Moves(r, [job[r] EXCEPT !.list = job[r].list, !.slot = job[r].slot, !.locks = {}], "boot")
    BY <1>3, <2>2, <2>3 DEF NoneActive, Goto, Moves
  <2>5. /\ job[r].list \in Lists \cup {0} /\ job[r].slot \in Slots /\ {} \in SUBSET Lists
        /\ "boot" \in Issuing /\ UNCHANGED overlapped
    BY <1>1, <1>3 DEF Job, Issuing, NoneActive
  <2>6. PICK l \in Lists \cup {0}, s \in Slots : l = job[r].list /\ s = job[r].slot
    BY <2>5
  <2>7. Moves(r, [job[r] EXCEPT !.list = l, !.slot = s, !.locks = {}], "boot")
    BY <2>4, <2>6
  <2> QED BY <2>1, <2>5, <2>7, SearchFine DEF Issuing
<1> QED BY <1>2, <1>3

LEMMA SlotFine ==
  ASSUME LocalInv, NEW r \in Requests,
         CreateList(r) \/ AllocateSlot(r) \/ FrozenMeanwhile(r)
  PROVE  Fine(r)
<1>1. job[r] \in Job /\ Local(r) /\ job \in [Requests -> Job] /\ lists \in [Lists -> List]
  BY DEF LocalInv, TypeOK
<1> DEFINE l == job[r].list
<1>2. l \in Lists /\ pc[r] \in Issuing /\ UNCHANGED <<rows, overlapped>> /\ job[r].slot \in Slots
  BY <1>1 DEF CreateList, AllocateSlot, FrozenMeanwhile, Local, Issuing, Job
<1>3. CASE CreateList(r)
  <2>1. [job[r] EXCEPT !.locks = {l}]
          = [job[r] EXCEPT !.list = l, !.slot = job[r].slot, !.locks = {l}]
    BY <1>1 DEF Job
  <2>2. Moves(r, [job[r] EXCEPT !.list = l, !.slot = job[r].slot, !.locks = {l}], "slot")
    BY <1>3, <2>1 DEF CreateList, Goto, Moves
  <2>3. /\ \A k \in {l} : k \in job[r].locks \/ ~Locked(r, k)
        /\ l \notin Existing /\ {l} \in SUBSET Lists /\ "slot" \in Issuing
    BY <1>2, <1>3 DEF CreateList, Issuing
  <2> HIDE DEF l
  <2> QED BY ZenonT(30), <1>2, <2>2, <2>3, SearchFine
<1>4. CASE AllocateSlot(r)
  <2>1. lists[l].next \in 0..Capacity /\ lists[l].next /= Capacity /\ ~lists[l].frozen
    BY <1>1, <1>2, <1>4 DEF AllocateSlot, LocalInv, ListInv, List
  <2>2. lists[l].next \in Slots
    BY <2>1, Constants DEF Slots
  <2>3. [job[r] EXCEPT !.slot = lists[l].next, !.locks = {l}]
          = [job[r] EXCEPT !.list = l, !.slot = lists[l].next, !.locks = {l}]
    BY <1>1 DEF Job
  <2>4. Moves(r, [job[r] EXCEPT !.list = l, !.slot = lists[l].next, !.locks = {l}], "insert")
    BY <1>4, <2>3 DEF AllocateSlot, Goto, Moves
  <2>5. /\ \A k \in {l} : k \in job[r].locks \/ ~Locked(r, k)
        /\ {l} \in SUBSET Lists /\ "insert" \in Issuing
    BY <1>2, <1>4 DEF AllocateSlot, Issuing
  <2> HIDE DEF l
  <2>6. PICK s \in Slots : s = lists[l].next
    BY <2>2
  <2> QED BY <1>2, <2>1, <2>4, <2>5, <2>6, SearchFine DEF Issuing
<1>5. CASE FrozenMeanwhile(r)
  <2>1. l \in Existing
    BY <1>2, <1>5 DEF FrozenMeanwhile, LocalInv, ListInv, NoList
  <2>2. job[r].locks = {}
    BY <1>1, <1>5, <2>1 DEF FrozenMeanwhile, Local
  <2>3. [job[r] EXCEPT !.list = 0]
          = [job[r] EXCEPT !.list = 0, !.slot = job[r].slot, !.locks = {}]
    BY <1>1, <2>2 DEF Job
  <2>4. Moves(r, [job[r] EXCEPT !.list = 0, !.slot = job[r].slot, !.locks = {}], "find")
    BY <1>5, <2>3 DEF FrozenMeanwhile, Goto, Moves
  <2> HIDE DEF l
  <2> QED BY <1>2, <2>4, SearchFine DEF Issuing
<1> QED BY <1>3, <1>4, <1>5

LEMMA BeginFine ==
  ASSUME LocalInv, NEW r \in Requests,
         (\E v \in Vcs : Revoke(r, v)) \/ (\E u \in Users : Deactivate(r, u))
  PROVE  Fine(r)
<1>1. TypeOK /\ {"read", "commit"} \subseteq Label
  BY DEF LocalInv, Label
<1>2. ASSUME NEW v \in Vcs, Revoke(r, v) PROVE Fine(r)
  <2> DEFINE j == [NoJob EXCEPT !.op = "revoke", !.todo = {v}]
  <2>1. Moves(r, j, "read") /\ overlapped' \subseteq Vcs
    BY <1>1, <1>2 DEF Revoke, Begin, Goto, Moves, TypeOK
  <2>2. /\ j \in Job /\ j.locks = {} /\ j.op = "revoke" /\ j.todo = {v}
        /\ j.cur = {} /\ j.done = {}
    BY Constants DEF NoJob, Job
  <2>3. v \in Issued /\ ListsOf({}) = {}
    BY <1>2 DEF Revoke, Live, ListsOf
  <2> HIDE DEF j
  <2> QED BY <1>1, <2>1, <2>2, <2>3, MoveFine DEF Issuing, Revoking
<1>3. ASSUME NEW u \in Users, Deactivate(r, u) PROVE Fine(r)
  <2> DEFINE set == {v \in Live : vcs[v].user = u}
             label == IF set = {} THEN "commit" ELSE "read"
             j == [NoJob EXCEPT !.op = "deactivate", !.user = u, !.todo = set]
  <2>1. Moves(r, j, label) /\ overlapped' \subseteq Vcs
    BY <1>1, <1>3 DEF Deactivate, Begin, Goto, Moves, TypeOK
  <2>2. set \subseteq Issued /\ set \subseteq Vcs /\ ListsOf({}) = {}
    BY DEF Live, Issued, ListsOf
  <2>3. /\ j \in Job /\ j.locks = {} /\ j.op = "deactivate" /\ j.user = u /\ j.todo = set
        /\ j.cur = {} /\ j.done = {}
    BY <2>2, Constants DEF NoJob, Job
  <2>4. label \in {"read", "commit"} /\ (label = "commit" => set = {})
    OBVIOUS
  <2> HIDE DEF j, label, set
  <2> QED BY <1>1, <2>1, <2>2, <2>3, <2>4, MoveFine DEF Issuing, Revoking
<1> QED BY <1>2, <1>3

\* What reading and writing a bitstring do to the job of r.
LEMMA RevokingJob ==
  ASSUME LocalInv, NEW r \in Requests, NEW v \in Vcs, ReadBits(r, v) \/ WriteBits(r, v)
  PROVE  /\ job[r] \in Job /\ job[r].op \in {"revoke", "deactivate"}
         /\ job[r].op = "deactivate" => job[r].user \in Users
         /\ job[r].todo \subseteq Issued /\ job[r].cur \subseteq Issued
         /\ job[r].done \subseteq Issued /\ job[r].locks = ListsOf(job[r].done)
         /\ v \in Issued /\ vcs[v].list \in Lists /\ vcs[v].slot \in Slots
         /\ lists[vcs[v].list].bits \subseteq Slots /\ BitsOf(r, vcs[v].list) \subseteq Slots
<1>1. job[r] \in Job /\ Local(r) /\ pc[r] \in Revoking
  BY DEF LocalInv, TypeOK, ReadBits, WriteBits, Revoking
<1>2. v \in Issued
  BY <1>1 DEF ReadBits, WriteBits, Local
<1>3. vcs[v].list \in Lists /\ vcs[v].slot \in Slots
  BY <1>2 DEF LocalInv, SlotInv, Existing, TypeOK, Vc
<1>4. lists[vcs[v].list].bits \subseteq Slots /\ job[r].draft[vcs[v].list] \subseteq Slots
  BY <1>1, <1>3 DEF LocalInv, TypeOK, List, Job
<1> QED BY <1>1, <1>2, <1>3, <1>4 DEF Local, BitsOf

LEMMA ReadType ==
  ASSUME NEW j \in Job, NEW todo \in SUBSET Vcs, NEW cur \in SUBSET Vcs, NEW seen \in SUBSET Slots
  PROVE  [j EXCEPT !.todo = todo, !.cur = cur, !.seen = seen] \in Job
  BY DEF Job

LEMMA ReadJob ==
  ASSUME LocalInv, NEW r \in Requests, NEW v \in Vcs, ReadBits(r, v)
  PROVE  /\ job'[r] \in Job
         /\ job'[r].todo = job[r].todo \ {v} /\ job'[r].cur = {v}
         /\ job'[r].seen = BitsOf(r, vcs[v].list)
         /\ job'[r].op = job[r].op /\ job'[r].user = job[r].user /\ job'[r].done = job[r].done
         /\ job'[r].draft = job[r].draft /\ job'[r].locks = job[r].locks
         /\ Moves(r, job'[r], "write") /\ overlapped' \subseteq Vcs
<1>1. job[r] \in Job /\ job \in [Requests -> Job] /\ v \in Vcs /\ BitsOf(r, vcs[v].list) \subseteq Slots
  BY RevokingJob DEF LocalInv, TypeOK
<1> DEFINE seen == BitsOf(r, vcs[v].list)
<1>2. job'[r] = [job[r] EXCEPT !.todo = job[r].todo \ {v}, !.cur = {v}, !.seen = seen]
  BY <1>1 DEF ReadBits
<1>3. job' = [job EXCEPT ![r] = job'[r]] /\ Moves(r, job'[r], "write")
  BY <1>1 DEF ReadBits, Goto, Moves
<1>4. \A l : \A q \in Requests : OnList(q, l) \subseteq Vcs
  BY DEF OnList, LocalInv, TypeOK, Job
<1>5. overlapped' \subseteq Vcs
  BY <1>4 DEF ReadBits, Overlap, LocalInv, TypeOK
<1>6. seen \subseteq Slots
  BY <1>1
<1> HIDE DEF seen
<1>7. job[r].todo \ {v} \subseteq Vcs /\ {v} \subseteq Vcs
  BY <1>1 DEF Job
<1>8. /\ job'[r].todo = job[r].todo \ {v} /\ job'[r].cur = {v}
      /\ job'[r].seen = seen /\ job'[r].op = job[r].op /\ job'[r].user = job[r].user
      /\ job'[r].done = job[r].done /\ job'[r].draft = job[r].draft
      /\ job'[r].locks = job[r].locks
  BY <1>1, <1>2 DEF Job
<1>9. job'[r] \in Job
  <2>1. PICK j \in Job, todo \in SUBSET Vcs, bits \in SUBSET Slots :
          j = job[r] /\ todo = job[r].todo \ {v} /\ bits = seen
    BY <1>1, <1>6, <1>7
  <2>2. [j EXCEPT !.todo = todo, !.cur = {v}, !.seen = bits] \in Job
    BY <1>7, ReadType
  <2> QED BY <1>2, <2>1, <2>2
<1> QED BY <1>3, <1>5, <1>8, <1>9 DEF seen

LEMMA ReadFine ==
  ASSUME LocalInv, NEW r \in Requests, NEW v \in Vcs, ReadBits(r, v) PROVE Fine(r)
<1>1. TypeOK /\ "write" \in Label
  BY DEF LocalInv, Label
<1>2. /\ job'[r] \in Job /\ job'[r].locks = ListsOf(job'[r].done) /\ job'[r].locks = job[r].locks
      /\ job'[r].op \in {"revoke", "deactivate"}
      /\ job'[r].op = "deactivate" => job'[r].user \in Users
      /\ job'[r].todo \subseteq Issued /\ job'[r].cur \subseteq Issued
      /\ job'[r].done \subseteq Issued
      /\ Moves(r, job'[r], "write") /\ overlapped' \subseteq Vcs
  BY RevokingJob, ReadJob
<1>3. PICK j \in Job : j = job'[r]
  BY <1>2
<1> QED BY <1>1, <1>2, <1>3, MoveFine DEF Issuing, Revoking

\* The bits that r writes
Flipped(r, v) == job[r].seen \cup {vcs[v].slot}

LEMMA WriteJob ==
  ASSUME LocalInv, NEW r \in Requests, NEW v \in Vcs, WriteBits(r, v)
  PROVE  /\ job'[r] \in Job
         /\ job'[r].cur = {} /\ job'[r].done = job[r].done \cup {v}
         /\ job'[r].locks = job[r].locks \cup {vcs[v].list}
         /\ job'[r].draft = [job[r].draft EXCEPT ![vcs[v].list] = Flipped(r, v)]
         /\ job'[r].op = job[r].op /\ job'[r].user = job[r].user /\ job'[r].todo = job[r].todo
         /\ Moves(r, job'[r], IF job[r].todo = {} THEN "commit" ELSE "read")
         /\ UNCHANGED overlapped
<1>1. /\ job[r] \in Job /\ job \in [Requests -> Job] /\ vcs[v].list \in Lists
      /\ Flipped(r, v) \subseteq Slots
  BY RevokingJob DEF LocalInv, TypeOK, Flipped, Job
<1> DEFINE draft == [job[r].draft EXCEPT ![vcs[v].list] = Flipped(r, v)]
<1>2. job'[r] = [job[r] EXCEPT !.cur = {}, !.done = job[r].done \cup {v}, !.draft = draft,
                               !.locks = job[r].locks \cup {vcs[v].list}]
  BY <1>1 DEF WriteBits, Flipped
<1>3. /\ job' = [job EXCEPT ![r] = job'[r]] /\ UNCHANGED overlapped
      /\ Moves(r, job'[r], IF job[r].todo = {} THEN "commit" ELSE "read")
  BY ZenonT(30), <1>1 DEF WriteBits, Goto, Moves
<1>4. draft \in [Lists -> SUBSET Slots]
  BY <1>1 DEF Job
<1>5. job[r].done \cup {v} \subseteq Vcs /\ job[r].locks \cup {vcs[v].list} \subseteq Lists
  BY <1>1 DEF Job
<1> HIDE DEF draft
<1>6. /\ job'[r] \in Job /\ job'[r].cur = {} /\ job'[r].done = job[r].done \cup {v}
      /\ job'[r].locks = job[r].locks \cup {vcs[v].list} /\ job'[r].draft = draft
      /\ job'[r].op = job[r].op /\ job'[r].user = job[r].user /\ job'[r].todo = job[r].todo
  BY ZenonT(30), <1>1, <1>2, <1>4, <1>5 DEF Job
<1> QED BY <1>3, <1>6 DEF draft

LEMMA WriteFine ==
  ASSUME LocalInv, NEW r \in Requests, NEW v \in Vcs, WriteBits(r, v) PROVE Fine(r)
<1>1. TypeOK /\ {"read", "commit"} \subseteq Label
  BY DEF LocalInv, Label
<1>2. ListsOf(job[r].done \cup {v}) = ListsOf(job[r].done) \cup {vcs[v].list}
  BY DEF ListsOf
<1>5. /\ job'[r].locks = job[r].locks \cup {vcs[v].list} /\ ~Locked(r, vcs[v].list)
      /\ job'[r].done = job[r].done \cup {v} /\ job[r].locks = ListsOf(job[r].done)
  BY RevokingJob, WriteJob DEF WriteBits
<1>6. /\ job'[r].locks = ListsOf(job'[r].done)
      /\ \A l \in job'[r].locks : l \in job[r].locks \/ ~Locked(r, l)
  BY <1>2, <1>5
<1>7. /\ job'[r].op \in {"revoke", "deactivate"}
      /\ job'[r].op = "deactivate" => job'[r].user \in Users
  <2>1. job'[r].op = job[r].op /\ job'[r].user = job[r].user
    BY WriteJob
  <2> QED BY <2>1, RevokingJob
<1>8. job'[r].todo \subseteq Issued /\ job'[r].todo = job[r].todo /\ job'[r].cur = {}
  <2>1. job'[r].todo = job[r].todo /\ job'[r].cur = {}
    BY WriteJob
  <2> QED BY <2>1, RevokingJob
<1>9. job'[r].done \subseteq Issued
  <2>1. job[r].done \subseteq Issued /\ v \in Issued
    BY RevokingJob
  <2> QED BY <2>1, <1>5
<1>3. /\ job'[r] \in Job /\ overlapped' \subseteq Vcs
      /\ Moves(r, job'[r], IF job[r].todo = {} THEN "commit" ELSE "read")
  BY <1>1, WriteJob DEF TypeOK
<1>4. PICK j \in Job, label \in {"read", "commit"} :
        j = job'[r] /\ label = IF job[r].todo = {} THEN "commit" ELSE "read"
  BY <1>3
<1> QED BY <1>1, <1>3, <1>4, <1>6, <1>7, <1>8, <1>9, MoveFine DEF Issuing, Revoking

-----------------------------------------------------------------------------
(* Commits *)

\* What the commit of an issue changes.
LEMMA IssuedFacts ==
  ASSUME LocalInv, NEW r \in Requests, NEW v \in Vcs, CommitIssue(r, v)
  PROVE  /\ job[r] \in Job /\ pc[r] = "insert" /\ job[r].user \in Users
         /\ job[r].list \in Lists /\ job[r].slot \in Slots /\ job[r].slot < Capacity
         /\ job[r].slot = lists[job[r].list].next /\ job[r].locks = {job[r].list}
         /\ v \notin Issued /\ Issued' = Issued \cup {v}
         /\ vcs'[v] = [user |-> job[r].user, list |-> job[r].list, slot |-> job[r].slot,
                       revoked |-> FALSE]
         /\ \A w \in Vcs \ {v} : vcs'[w] = vcs[w]
         /\ lists'[job[r].list] = Allocated(job[r].list, job[r].slot)
         /\ \A l \in Lists \ {job[r].list} : lists'[l] = lists[l]
         /\ Ended(r)
<1>1. job[r] \in Job /\ Local(r) /\ pc[r] = "insert" /\ TypeOK
  BY DEF LocalInv, TypeOK, CommitIssue
<1>2. job[r].user \in Users /\ job[r].list \in Lists /\ job[r].slot \in Slots
      /\ job[r].slot = lists[job[r].list].next /\ job[r].locks = {job[r].list}
  BY <1>1 DEF Local, Issuing, Job
<1>3. job[r].slot < Capacity
  BY <1>2, Constants DEF Slots
<1>4. /\ vcs'[v] = [user |-> job[r].user, list |-> job[r].list, slot |-> job[r].slot,
                    revoked |-> FALSE]
      /\ \A w \in Vcs \ {v} : vcs'[w] = vcs[w]
      /\ v \notin Issued
  BY <1>1 DEF CommitIssue, TypeOK
<1>5. Issued' = Issued \cup {v}
  BY <1>2, <1>4, UserAssumption DEF Issued
<1>6. /\ lists'[job[r].list] = Allocated(job[r].list, job[r].slot)
      /\ \A l \in Lists \ {job[r].list} : lists'[l] = lists[l]
  BY <1>1, <1>2 DEF CommitIssue, TypeOK
<1>7. Ended(r)
  BY <1>1, EndEnds DEF CommitIssue
<1> QED BY <1>1, <1>2, <1>3, <1>4, <1>5, <1>6, <1>7

LEMMA IssuedRows ==
  ASSUME LocalInv, NEW r \in Requests, NEW v \in Vcs, CommitIssue(r, v)
  PROVE  /\ Issued' = Issued \cup {v} /\ ~vcs'[v].revoked
         /\ \A w \in Issued : vcs'[w] = vcs[w]
         /\ \A l \in Lists : lists'[l].bits = lists[l].bits
<1>1. Issued' = Issued \cup {v} /\ v \in Vcs \ Issued /\ Issued \subseteq Vcs
  BY IssuedFacts DEF Issued, CommitIssue
<1>2. /\ vcs' = [vcs EXCEPT ![v] = [user |-> job[r].user, list |-> job[r].list,
                                    slot |-> job[r].slot, revoked |-> FALSE]]
      /\ lists' = [lists EXCEPT ![job[r].list] = Allocated(job[r].list, job[r].slot)]
  BY DEF CommitIssue
<1>3. vcs \in [Vcs -> Vc] /\ lists \in [Lists -> List]
  BY DEF LocalInv, TypeOK
<1>4. \A l \in Lists : lists'[l].bits = lists[l].bits
  BY <1>2, <1>3 DEF Allocated
<1>5. (\A w \in Issued : vcs'[w] = vcs[w]) /\ ~vcs'[v].revoked
  BY <1>1, <1>2, <1>3
<1> QED BY <1>1, <1>4, <1>5

LEMMA CommitIssueFine ==
  ASSUME LocalInv, NEW r \in Requests, NEW v \in Vcs, CommitIssue(r, v)
  PROVE  Fine(r) /\ ListInv' /\ SlotInv'
<1> DEFINE l == job[r].list
           s == job[r].slot
<1>1. /\ l \in Lists /\ s \in Slots /\ s < Capacity /\ s = lists[l].next /\ job[r].locks = {l}
      /\ v \notin Issued /\ Issued' = Issued \cup {v} /\ job[r].user \in Users
      /\ vcs'[v] = [user |-> job[r].user, list |-> l, slot |-> s, revoked |-> FALSE]
      /\ \A w \in Vcs \ {v} : vcs'[w] = vcs[w]
      /\ lists'[l] = Allocated(l, s)
      /\ \A k \in Lists \ {l} : lists'[k] = lists[k]
      /\ Ended(r)
  BY IssuedFacts
<1>2. TypeOK /\ ListInv /\ SlotInv
  BY DEF LocalInv
<1>3. lists' = [lists EXCEPT ![l] = Allocated(l, s)] /\ UNCHANGED <<dead, overlapped>>
      /\ vcs' = [vcs EXCEPT ![v] = [user |-> job[r].user, list |-> l, slot |-> s,
                                    revoked |-> FALSE]]
      /\ late' \subseteq late \cup {v}
  BY DEF CommitIssue
<1> HIDE DEF l, s
<1>4. Allocated(l, s) \in List
  BY <1>1, <1>2, Constants DEF Allocated, List, LastSlot, TypeOK, Slots
<1>5. TypeOK'
  <2>1. lists' \in [Lists -> List]
    BY <1>2, <1>3, <1>4 DEF TypeOK
  <2>2. vcs' \in [Vcs -> Vc]
    BY <1>1, <1>2, <1>3 DEF TypeOK, Vc
  <2> QED BY <1>1, <1>2, <1>3, <2>1, <2>2 DEF TypeOK, Ended
<1>6. Existing' = Existing \cup {l}
  BY <1>1 DEF Existing, Allocated
<1>7. Gently(r)
  BY <1>1, <1>6 DEF Gently, Issued
<1>8. Fine(r)
  BY <1>1, <1>5, <1>7, IdleLocal DEF Fine, Ended
<1>9. ListInv'
  <2> SUFFICES ASSUME NEW k \in Lists
               PROVE  /\ lists'[k].next = Capacity => lists'[k].frozen
                      /\ k \notin Existing' => lists'[k] = NoList
    BY DEF ListInv
  <2>1. CASE k = l
    <3>1. lists'[k].next = s + 1 /\ lists'[k].frozen = (s = Capacity - 1)
      BY <1>1, <2>1 DEF Allocated, LastSlot
    <3>2. s + 1 = Capacity => s = Capacity - 1
      BY <1>1, Constants
    <3> QED BY <1>6, <2>1, <3>1, <3>2
  <2>2. CASE k /= l
    BY <1>1, <1>2, <1>6, <2>2 DEF ListInv
  <2> QED BY <2>1, <2>2
<1>10. SlotInv'
  <2>1. \A w \in Issued : /\ vcs'[w] = vcs[w] /\ vcs[w].list \in Existing
                          /\ vcs[w].slot < lists[vcs[w].list].next
    BY <1>1, <1>2 DEF SlotInv, Issued
  <2>2. \A w \in Issued : vcs[w].list = l => vcs[w].slot < s
    BY <1>1, <2>1
  <2>3. vcs'[v].list \in Existing' /\ vcs'[v].slot < lists'[vcs'[v].list].next
    BY <1>1, <1>6, Constants DEF Allocated
  <2>4. ASSUME NEW w \in Issued
        PROVE  vcs'[w].list \in Existing' /\ vcs'[w].slot < lists'[vcs'[w].list].next
    <3>1. vcs'[w] = vcs[w] /\ vcs[w].slot \in Slots /\ vcs[w].list \in Lists
      BY <1>2, <2>1 DEF TypeOK, Vc, Existing, Issued
    <3>2. CASE vcs[w].list = l
      <4>1. lists'[l].next = s + 1
        BY <1>1 DEF Allocated
      <4>2. vcs[w].slot < s /\ vcs[w].slot \in Nat /\ s \in Nat
        BY <1>1, <2>2, <3>1, <3>2, Constants
      <4> QED BY <1>6, <3>1, <3>2, <4>1, <4>2
    <3>3. CASE vcs[w].list /= l
      BY <1>1, <1>6, <2>1, <3>1, <3>3
    <3> QED BY <3>2, <3>3
  <2>5. SlotsUnique'
    <3> SUFFICES ASSUME NEW w \in Issued', NEW x \in Issued',
                        vcs'[w].list = vcs'[x].list, vcs'[w].slot = vcs'[x].slot
                 PROVE  w = x
      BY DEF SlotsUnique
    <3>1. CASE w \in Issued /\ x \in Issued
      BY <1>2, <2>1, <3>1 DEF SlotInv, SlotsUnique
    <3>2. ASSUME NEW y \in Issued PROVE ~(vcs'[y].list = l /\ vcs'[y].slot = s)
      BY <1>1, <2>1, <2>2, Constants
    <3>3. vcs'[v].list = l /\ vcs'[v].slot = s
      BY <1>1
    <3> QED BY <1>1, <3>1, <3>2, <3>3
  <2> QED BY <1>1, <2>3, <2>4, <2>5 DEF SlotInv
<1> QED BY <1>8, <1>9, <1>10

\* What the commit of a revocation does to a list, ...
Rewritten(r, l) ==
  /\ lists'[l].next = lists[l].next
  /\ lists'[l].frozen = lists[l].frozen
  /\ lists'[l].exists = lists[l].exists
  /\ l \in job[r].locks => lists'[l].bits = job[r].draft[l]
  /\ l \notin job[r].locks => lists'[l] = lists[l]

\* ... and to a credential.
Marked(r, v) ==
  /\ vcs'[v].user = vcs[v].user /\ vcs'[v].list = vcs[v].list /\ vcs'[v].slot = vcs[v].slot
  /\ vcs'[v].revoked <=> (vcs[v].revoked \/ v \in job[r].done)

LEMMA RevokedFacts ==
  ASSUME LocalInv, NEW r \in Requests, CommitRevocation(r)
  PROVE  /\ pc[r] = "commit" /\ job[r] \in Job /\ job[r].todo = {} /\ job[r].cur = {}
         /\ job[r].op = "deactivate" => job[r].user \in Users
         /\ job[r].done \subseteq Issued /\ job[r].locks = ListsOf(job[r].done)
         /\ \A l \in Lists : Rewritten(r, l)
         /\ \A v \in Vcs : Marked(r, v)
         /\ Issued' = Issued /\ Existing' = Existing
         /\ TypeOK' /\ Ended(r) /\ UNCHANGED <<overlapped, late>>
<1>1. job[r] \in Job /\ Local(r) /\ pc[r] = "commit" /\ TypeOK
  BY DEF LocalInv, TypeOK, CommitRevocation
<1>2. /\ job[r].todo = {} /\ job[r].cur = {} /\ job[r].done \subseteq Issued
      /\ job[r].op = "deactivate" => job[r].user \in Users
      /\ job[r].locks = ListsOf(job[r].done)
  BY <1>1 DEF Local, Revoking
<1>3. Ended(r) /\ UNCHANGED <<overlapped, late>>
  BY <1>1, EndEnds DEF CommitRevocation
<1>4. \A l \in Lists :
        lists'[l] = IF l \in job[r].locks THEN [lists[l] EXCEPT !.bits = job[r].draft[l]]
                    ELSE lists[l]
  BY DEF CommitRevocation
<1>5. \A l \in Lists : lists[l] \in List /\ job[r].draft[l] \in SUBSET Slots
  BY <1>1 DEF TypeOK, Job
<1>6. \A l \in Lists : Rewritten(r, l) /\ lists'[l] \in List
  BY <1>4, <1>5 DEF List, Rewritten
<1>7. \A v \in Vcs :
        vcs'[v] = IF v \in job[r].done THEN [vcs[v] EXCEPT !.revoked = TRUE] ELSE vcs[v]
  BY DEF CommitRevocation
<1>8. \A v \in Vcs : Marked(r, v) /\ vcs'[v] \in Vc
  BY <1>1, <1>7 DEF TypeOK, Vc, Marked
<1>9. Issued' = Issued /\ Existing' = Existing
  BY <1>6, <1>8 DEF Issued, Existing, Rewritten, Marked
<1>10. TypeOK'
  <2>1. lists' \in [Lists -> List]
    BY <1>6 DEF CommitRevocation
  <2>2. vcs' \in [Vcs -> Vc]
    BY <1>8 DEF CommitRevocation
  <2>3. dead' \subseteq Users
    BY <1>1, <1>2 DEF CommitRevocation, TypeOK
  <2> QED BY <1>1, <1>3, <2>1, <2>2, <2>3 DEF TypeOK, Ended
<1> QED BY <1>1, <1>2, <1>3, <1>6, <1>8, <1>9, <1>10

LEMMA CommitRevocationFine ==
  ASSUME LocalInv, NEW r \in Requests, CommitRevocation(r)
  PROVE  Fine(r) /\ ListInv' /\ SlotInv'
<1>1. ListInv /\ SlotInv
  BY DEF LocalInv
<1>2. (\A l \in Lists : Rewritten(r, l)) /\ (\A v \in Vcs : Marked(r, v))
  BY RevokedFacts
<1>6. Issued' = Issued /\ Existing' = Existing /\ TypeOK' /\ Ended(r)
  BY RevokedFacts
<1>7. job[r].locks = ListsOf(job[r].done) /\ job[r].done \subseteq Issued
  BY RevokedFacts
<1>8. Issued \subseteq Vcs
  BY DEF Issued
<1>9. Gently(r)
  BY <1>2, <1>6, <1>8 DEF Gently, Rewritten, Marked
<1>3. Fine(r)
  BY <1>6, <1>9, IdleLocal DEF Fine, Ended
<1>4. ListInv'
  <2> SUFFICES ASSUME NEW l \in Lists
               PROVE  /\ lists'[l].next = Capacity => lists'[l].frozen
                      /\ l \notin Existing => lists'[l] = NoList
    BY <1>6 DEF ListInv
  <2>1. l \notin Existing => l \notin job[r].locks
    BY <1>1, <1>7 DEF SlotInv, ListsOf
  <2> QED BY <1>1, <1>2, <2>1 DEF ListInv, Rewritten
<1>5. SlotInv'
  <2>1. Existing \subseteq Lists
    BY DEF Existing
  <2>2. \A v \in Issued : /\ vcs'[v].list = vcs[v].list /\ vcs'[v].slot = vcs[v].slot
                          /\ vcs[v].list \in Existing
                          /\ lists'[vcs[v].list].next = lists[vcs[v].list].next
    BY <1>1, <1>2, <1>8, <2>1 DEF SlotInv, Rewritten, Marked
  <2> QED BY <1>1, <1>6, <2>2 DEF SlotInv, SlotsUnique
<1> QED BY <1>3, <1>4, <1>5
-----------------------------------------------------------------------------
(* The steps of the requests *)

\* A call begins, is looking for a slot or has failed: it has revoked nothing.
Blank(r) ==
  /\ Alone(r) /\ UNCHANGED <<rows, overlapped>>
  /\ job'[r].cur = {} /\ job'[r].done = {}
  /\ job'[r].op = "deactivate" => \E u \in Users : Deactivate(r, u)

LEMMA SearchBlank ==
  ASSUME LocalInv, NEW r \in Requests,
         \/ \E l \in Lists : FindActive(r, l) \/ ComputeKey(r, l)
         \/ NoneActive(r) \/ CreateList(r) \/ AllocateSlot(r) \/ FrozenMeanwhile(r)
  PROVE  Fine(r) /\ Blank(r)
<1>1. Fine(r)
  BY FindFine, SlotFine
<1>2. job \in [Requests -> Job] /\ job[r] \in Job /\ Local(r)
  BY DEF LocalInv, TypeOK
<1>3. pc[r] \in Issuing
  BY DEF FindActive, ComputeKey, NoneActive, CreateList, AllocateSlot, FrozenMeanwhile, Issuing
<1>4. job[r].cur = {} /\ job[r].done = {} /\ job[r].op = "issue"
  BY <1>2, <1>3 DEF Local
<1>5. job'[r].cur = job[r].cur /\ job'[r].done = job[r].done /\ job'[r].op = job[r].op
  BY <1>2 DEF FindActive, ComputeKey, NoneActive, CreateList, AllocateSlot, FrozenMeanwhile, Job
<1>6. UNCHANGED <<rows, overlapped>>
  BY DEF FindActive, ComputeKey, NoneActive, CreateList, AllocateSlot, FrozenMeanwhile
<1> QED BY <1>1, <1>4, <1>5, <1>6 DEF Fine, Blank

LEMMA CallBlank ==
  ASSUME LocalInv, NEW r \in Requests,
         \/ \E v \in Vcs : Revoke(r, v) \/ \E u \in Users : Issue(r, v, u)
         \/ \E u \in Users : Deactivate(r, u)
         \/ KeyTaken(r) \/ Fail(r)
  PROVE  Fine(r) /\ Blank(r)
<1>1. Fine(r)
  BY IssueFine, BeginFine, FailFine
<1>2. job \in [Requests -> Job]
  BY DEF LocalInv, TypeOK
<1>3. UNCHANGED <<rows, overlapped>>
  BY DEF Revoke, Issue, Deactivate, KeyTaken, Fail
<1>4. CASE \E v \in Vcs : Revoke(r, v) \/ \E u \in Users : Issue(r, v, u)
  BY ZenonT(30), <1>1, <1>2, <1>3, <1>4 DEF Revoke, Issue, Begin, NoJob, Fine, Blank
<1>5. CASE \E u \in Users : Deactivate(r, u)
  <2>1. job'[r].cur = {} /\ job'[r].done = {}
    BY <1>2, <1>5 DEF Deactivate, Begin, NoJob
  <2> QED BY <1>1, <1>3, <1>5, <2>1 DEF Fine, Blank
<1>6. CASE KeyTaken(r) \/ Fail(r)
  BY <1>1, <1>2, <1>3, <1>6 DEF KeyTaken, Fail, End, NoJob, Fine, Blank
<1> QED BY <1>4, <1>5, <1>6

Step(r) ==
  \/ Blank(r)
  \/ \E v \in Vcs : ReadBits(r, v) \/ WriteBits(r, v) \/ CommitIssue(r, v)
  \/ CommitRevocation(r)

LEMMA Cases ==
  ASSUME LocalInv, [Next]_vars
  PROVE  UNCHANGED vars \/ \E r \in Requests : Fine(r) /\ Step(r)
<1>1. ASSUME NEW r \in Requests, NEW v \in Vcs, ReadBits(r, v) \/ WriteBits(r, v)
      PROVE  Fine(r) /\ Step(r)
  BY <1>1, ReadFine, WriteFine DEF Step
<1>2. ASSUME NEW r \in Requests, NEW v \in Vcs, CommitIssue(r, v) PROVE Fine(r) /\ Step(r)
  BY <1>2, CommitIssueFine DEF Step
<1>3. ASSUME NEW r \in Requests, CommitRevocation(r) PROVE Fine(r) /\ Step(r)
  BY <1>3, CommitRevocationFine DEF Step
<1> QED BY <1>1, <1>2, <1>3, SearchBlank, CallBlank DEF Next, Step

LEMMA LocalStep == LocalInv /\ [Next]_vars => LocalInv'
<1> SUFFICES ASSUME LocalInv, [Next]_vars PROVE LocalInv'
  OBVIOUS
<1>1. CASE UNCHANGED vars
  <2>1. UNCHANGED <<lists, vcs, dead, pc, job, overlapped, late>>
    BY <1>1 DEF vars
  <2>2. TypeOK' /\ (\A r \in Requests : Local(r)') /\ Exclusive'
    BY <2>1 DEF LocalInv, TypeOK, Local, ListsOf, Existing, Issued, Exclusive
  <2>3. ListInv' /\ SlotInv'
    BY <2>1 DEF LocalInv, ListInv, SlotInv, SlotsUnique, Existing, Issued
  <2> QED BY <2>2, <2>3 DEF LocalInv
<1>2. ASSUME NEW r \in Requests, Fine(r), Step(r) PROVE LocalInv'
  <2>1. TypeOK' /\ (\A q \in Requests : Local(q)') /\ Exclusive'
    BY <1>2, FineKeeps DEF LocalInv
  <2>2. CASE UNCHANGED <<lists, vcs>>
    <3>1. ListInv' /\ SlotInv'
      BY <2>2 DEF LocalInv, ListInv, SlotInv, SlotsUnique, Existing, Issued
    <3> QED BY <2>1, <3>1 DEF LocalInv
  <2>3. CASE (\E v \in Vcs : CommitIssue(r, v)) \/ CommitRevocation(r)
    BY <2>1, <2>3, CommitIssueFine, CommitRevocationFine DEF LocalInv
  <2> QED BY <1>2, <2>2, <2>3 DEF Step, Blank, ReadBits, WriteBits, rows
<1> QED BY <1>1, <1>2, Cases

LEMMA LocalInit == Init => LocalInv
<1> SUFFICES ASSUME Init PROVE LocalInv
  OBVIOUS
<1>1. TypeOK
  BY Constants DEF Init, TypeOK, Label
<1>2. Issued = {}
  BY DEF Init, Issued, NoVc
<1>3. \A r \in Requests : Local(r)
  BY DEF Init, Local, NoJob, Issuing, Revoking
<1>4. Exclusive
  BY DEF Init, Exclusive, NoJob
<1>5. ListInv
  BY Constants DEF Init, ListInv, NoList
<1> QED BY <1>1, <1>2, <1>3, <1>4, <1>5 DEF LocalInv, SlotInv, SlotsUnique

LEMMA LocalAlways == Spec => []LocalInv
  BY LocalInit, LocalStep, PTL DEF Spec

\* The variables keep their types: no list hands out a slot beyond its capacity.
THEOREM TypeCorrect == Spec => []TypeOK
<1>1. LocalInv => TypeOK
  BY DEF LocalInv
<1> QED BY <1>1, LocalAlways, PTL

\* No two credentials share a bit of a list (allocateSlot, bootstrapNewList).
THEOREM SlotsUniqueAlways == Spec => []SlotsUnique
<1>1. LocalInv => SlotsUnique
  BY DEF LocalInv, SlotInv
<1> QED BY <1>1, LocalAlways, PTL
-----------------------------------------------------------------------------
(* What the lists say *)

Inv == LocalInv /\ BitsInv /\ OverlapInv

\* Only credentials that are issued are revoked.
LEMMA BegunIssued ==
  ASSUME LocalInv, NEW r \in Requests
  PROVE  job[r].cur \subseteq Issued /\ job[r].done \subseteq Issued
<1>1. Local(r) /\ pc[r] \in Label
  BY DEF LocalInv, TypeOK
<1> QED BY <1>1 DEF Local, NoJob, Label, Issuing, Revoking

\* A bitstring stays exact while no credential is revoked.
LEMMA ExactStays ==
  ASSUME NEW bits, NEW l, NEW done,
         Exact(bits, l, done), done \subseteq Issued,
         Issued \subseteq Issued', \A v \in Issued : vcs'[v] = vcs[v],
         \A v \in Issued' \ Issued : ~vcs'[v].revoked,
         overlapped \subseteq overlapped'
  PROVE  Exact(bits, l, done)'
<1>1. Sound(bits, l, done)'
  BY DEF Exact, Sound
<1>2. Complete(bits, l, done)'
  BY DEF Exact, Complete
<1> QED BY <1>1, <1>2 DEF Exact

\* What a step that revokes none leaves as it is: the requests other than r, and the lists.
LEMMA OthersStay ==
  ASSUME Inv, NEW r \in Requests, Alone(r),
         \A l \in Lists : lists'[l].bits = lists[l].bits,
         Issued \subseteq Issued', \A v \in Issued : vcs'[v] = vcs[v],
         \A v \in Issued' \ Issued : ~vcs'[v].revoked,
         overlapped \subseteq overlapped'
  PROVE  /\ \A l \in Lists : Exact(lists[l].bits, l, {})'
         /\ \A q \in Requests \ {r} :
              /\ \A v \in job'[q].cur : Exact(job[q].seen, vcs[v].list, job[q].done)'
              /\ \A l \in ListsOf(job[q].done)' : Exact(job[q].draft[l], l, job[q].done)'
<1>1. ASSUME NEW l \in Lists PROVE Exact(lists[l].bits, l, {})'
  <2>1. PICK bits : bits = lists[l].bits
    OBVIOUS
  <2>2. Exact(bits, l, {})
    BY <2>1 DEF Inv, BitsInv
  <2>3. Exact(bits, l, {})'
    BY <2>2, ExactStays
  <2>4. bits = lists'[l].bits
    BY <2>1
  <2> QED BY <2>3, <2>4 DEF Exact, Sound, Complete
<1>2. ASSUME NEW q \in Requests \ {r}, NEW v \in job'[q].cur
      PROVE  Exact(job[q].seen, vcs[v].list, job[q].done)'
  <2>1. job'[q] = job[q] /\ job[q].done \subseteq Issued /\ v \in Issued
    BY <1>2, BegunIssued DEF Alone, Inv
  <2>2. PICK bits, l, done : bits = job[q].seen /\ l = vcs[v].list /\ done = job[q].done
    OBVIOUS
  <2>3. Exact(bits, l, done)
    BY <1>2, <2>1, <2>2 DEF Inv, BitsInv
  <2>4. Exact(bits, l, done)'
    BY <2>1, <2>2, <2>3, ExactStays
  <2>5. bits = job'[q].seen /\ l = vcs'[v].list /\ done = job'[q].done
    BY <2>1, <2>2
  <2> QED BY <2>4, <2>5 DEF Exact, Sound, Complete
<1>3. ASSUME NEW q \in Requests \ {r}, NEW l \in ListsOf(job[q].done)'
      PROVE  Exact(job[q].draft[l], l, job[q].done)'
  <2>1. job'[q] = job[q] /\ job[q].done \subseteq Issued
    BY BegunIssued DEF Alone, Inv
  <2>2. l \in ListsOf(job[q].done)
    BY <1>3, <2>1 DEF ListsOf
  <2>3. PICK bits, done : bits = job[q].draft[l] /\ done = job[q].done
    OBVIOUS
  <2>4. Exact(bits, l, done)
    BY <2>2, <2>3 DEF Inv, BitsInv
  <2>5. Exact(bits, l, done)'
    BY <2>1, <2>3, <2>4, ExactStays
  <2>6. bits = job'[q].draft[l] /\ done = job'[q].done
    BY <2>1, <2>3
  <2> QED BY <2>5, <2>6 DEF Exact, Sound, Complete
<1> QED BY <1>1, <1>2, <1>3

\* A request that has begun none breaks nothing.
LEMMA ClearBits ==
  ASSUME Inv, NEW r \in Requests, Alone(r), job'[r].cur = {}, job'[r].done = {},
         \A l \in Lists : lists'[l].bits = lists[l].bits,
         Issued \subseteq Issued', \A v \in Issued : vcs'[v] = vcs[v],
         \A v \in Issued' \ Issued : ~vcs'[v].revoked,
         overlapped \subseteq overlapped'
  PROVE  BitsInv'
<1>1. ListsOf(job[r].done)' = {}
  BY DEF ListsOf
<1> QED BY <1>1, OthersStay DEF BitsInv

LEMMA ClearOverlap ==
  ASSUME Inv, NEW r \in Requests, Alone(r), job'[r].cur = {}, job'[r].done = {},
         \A v \in Issued : vcs'[v].list = vcs[v].list, overlapped \subseteq overlapped'
  PROVE  OverlapInv'
<1>1. \A l \in Lists : OnList(r, l)' = {}
  BY DEF OnList
<1>2. \A q \in Requests \ {r}, l \in Lists : OnList(q, l)' = OnList(q, l)
  BY BegunIssued DEF OnList, Alone, Inv
<1> QED BY <1>1, <1>2 DEF OverlapInv, Inv

\* The bits that a request reads are exact, its own revocations included.
LEMMA ReadExact ==
  ASSUME Inv, NEW r \in Requests, NEW v \in Vcs, ReadBits(r, v)
  PROVE  Exact(BitsOf(r, vcs[v].list), vcs[v].list, job[r].done)
<1>1. job[r].locks = ListsOf(job[r].done) /\ vcs[v].list \in Lists
  BY RevokingJob DEF Inv
<1>2. PICK l \in Lists : l = vcs[v].list
  BY <1>1
<1>3. CASE l \in job[r].locks
  <2>1. BitsOf(r, l) = job[r].draft[l]
    BY <1>3 DEF BitsOf
  <2>2. Exact(job[r].draft[l], l, job[r].done)
    BY <1>1, <1>3 DEF Inv, BitsInv
  <2> QED BY <1>2, <2>1, <2>2
<1>4. CASE l \notin job[r].locks
  <2>1. \A w \in job[r].done : vcs[w].list /= l
    BY <1>1, <1>4 DEF ListsOf
  <2>2. Exact(lists[l].bits, l, {})
    BY DEF Inv, BitsInv
  <2>3. Exact(lists[l].bits, l, job[r].done)
    BY <2>1, <2>2 DEF Exact, Sound, Complete
  <2>4. BitsOf(r, l) = lists[l].bits
    BY <1>4 DEF BitsOf
  <2> QED BY <1>2, <2>3, <2>4
<1> QED BY <1>3, <1>4

LEMMA ReadKeeps ==
  ASSUME Inv, NEW r \in Requests, NEW v \in Vcs, ReadBits(r, v), Fine(r)
  PROVE  BitsInv' /\ OverlapInv'
<1>1. LocalInv /\ Alone(r) /\ UNCHANGED <<lists, vcs>> /\ overlapped \subseteq overlapped'
  BY DEF Inv, Fine, ReadBits, rows
<1>2. /\ job'[r].cur = {v} /\ job'[r].done = job[r].done /\ job'[r].draft = job[r].draft
      /\ job'[r].seen = BitsOf(r, vcs[v].list)
  BY <1>1, ReadJob
<1>3. job[r].done \subseteq Issued /\ Issued' = Issued /\ v \in Issued /\ vcs[v].list \in Lists
  BY <1>1, RevokingJob DEF Issued
<1>4. Exact(job[r].seen, vcs[v].list, job[r].done)'
  <2>1. PICK bits, l, done : bits = job'[r].seen /\ l = vcs[v].list /\ done = job[r].done
    OBVIOUS
  <2>2. Exact(bits, l, done)
    BY <1>2, <2>1, ReadExact
  <2>3. Exact(bits, l, done)'
    BY <1>1, <1>3, <2>1, <2>2, ExactStays
  <2>4. l = vcs'[v].list /\ done = job'[r].done
    BY <1>1, <1>2, <2>1
  <2> QED BY <2>1, <2>3, <2>4 DEF Exact, Sound, Complete
<1>5. ASSUME NEW l \in ListsOf(job[r].done)' PROVE Exact(job[r].draft[l], l, job[r].done)'
  <2>1. l \in ListsOf(job[r].done)
    BY <1>1, <1>2, <1>5 DEF ListsOf
  <2>2. PICK bits, done : bits = job[r].draft[l] /\ done = job[r].done
    OBVIOUS
  <2>3. Exact(bits, l, done)
    BY <2>1, <2>2 DEF Inv, BitsInv
  <2>4. Exact(bits, l, done)'
    BY <1>1, <1>3, <2>2, <2>3, ExactStays
  <2>5. bits = job'[r].draft[l] /\ done = job'[r].done
    BY <1>2, <2>2
  <2> QED BY <2>4, <2>5 DEF Exact, Sound, Complete
<1>6. BitsInv'
  <2>1. \A x \in job'[r].cur : Exact(job[r].seen, vcs[x].list, job[r].done)'
    BY <1>2, <1>4
  <2> QED BY <1>1, <1>3, <1>5, <2>1, OthersStay DEF BitsInv
<1>7. job[r].cur = {}
  BY <1>1 DEF LocalInv, Local, ReadBits
<1>8. \A q \in Requests \ {r}, l \in Lists : OnList(q, l)' = OnList(q, l)
  BY <1>1 DEF OnList, Alone
<1>9. \A l \in Lists : /\ l /= vcs[v].list => OnList(r, l)' = OnList(r, l)
                       /\ l = vcs[v].list => OnList(r, l)' = {v} \cup OnList(r, l)
  BY <1>1, <1>2, <1>7 DEF OnList
<1>10. ASSUME NEW q \in Requests \ {r}, OnList(q, vcs[v].list) /= {}
       PROVE  {v} \cup OnList(r, vcs[v].list) \cup OnList(q, vcs[v].list) \subseteq overlapped'
  BY <1>10 DEF ReadBits, Overlap
<1>11. OverlapInv'
  <2> SUFFICES ASSUME NEW p \in Requests, NEW q \in Requests, NEW l \in Lists, p /= q,
                      OnList(p, l)' /= {}, OnList(q, l)' /= {}
               PROVE  OnList(p, l)' \subseteq overlapped'
    BY DEF OverlapInv
  <2>1. CASE l = vcs[v].list /\ r = p
    <3>1. OnList(q, l)' = OnList(q, l) /\ OnList(p, l)' = {v} \cup OnList(r, l)
      BY <1>8, <1>9, <2>1
    <3> QED BY <1>10, <2>1, <3>1
  <2>3. CASE l = vcs[v].list /\ r = q
    <3>1. OnList(p, l)' = OnList(p, l)
      BY <1>8, <2>3
    <3> QED BY <1>10, <2>3, <3>1
  <2>2. CASE l /= vcs[v].list \/ r \notin {p, q}
    <3>1. OnList(p, l)' = OnList(p, l) /\ OnList(q, l)' = OnList(q, l)
      BY <1>8, <1>9, <2>2
    <3> QED BY <1>1, <3>1 DEF Inv, OverlapInv
  <2> QED BY <2>1, <2>2, <2>3
<1> QED BY <1>6, <1>11
LEMMA WriteKeeps ==
  ASSUME Inv, NEW r \in Requests, NEW v \in Vcs, WriteBits(r, v), Fine(r)
  PROVE  BitsInv' /\ OverlapInv'
<1>1. LocalInv /\ Alone(r) /\ UNCHANGED <<lists, vcs, overlapped>> /\ v \in job[r].cur
  BY DEF Inv, Fine, WriteBits, rows
<1>2. /\ job'[r].cur = {} /\ job'[r].done = job[r].done \cup {v}
      /\ job'[r].draft = [job[r].draft EXCEPT ![vcs[v].list] = Flipped(r, v)]
  BY <1>1, WriteJob
<1>3. /\ job[r].done \subseteq Issued /\ Issued' = Issued /\ v \in Issued
      /\ vcs[v].list \in Lists /\ job[r].draft \in [Lists -> SUBSET Slots]
  BY <1>1, RevokingJob DEF Issued, Job
<1>4. PICK list, slot, seen, done, draft :
        /\ list = vcs[v].list /\ slot = vcs[v].slot /\ seen = job[r].seen
        /\ done = job[r].done /\ draft = job'[r].draft /\ list \in Lists
  BY <1>3
<1>5. Exact(seen, list, done)
  BY <1>1, <1>4 DEF Inv, BitsInv
<1>6. Exact(seen \cup {slot}, list, done \cup {v})
  <2>1. Sound(seen \cup {slot}, list, done \cup {v})
    BY <1>3, <1>4, <1>5 DEF Exact, Sound
  <2>2. Complete(seen \cup {slot}, list, done \cup {v})
    BY <1>4, <1>5 DEF Exact, Complete
  <2> QED BY <2>1, <2>2 DEF Exact
<1>7. draft[list] = seen \cup {slot} /\ \A l \in Lists \ {list} : draft[l] = job[r].draft[l]
  BY <1>2, <1>3, <1>4 DEF Flipped
<1>8. ASSUME NEW l \in ListsOf(job[r].done)' PROVE Exact(draft[l], l, done \cup {v})
  <2>1. CASE l = list
    BY <1>6, <1>7, <2>1
  <2>2. CASE l /= list
    <3>1. l \in ListsOf(job[r].done) /\ l \in Lists
      BY <1>1, <1>2, <1>3, <1>4, <1>8, <2>2 DEF ListsOf, Inv, LocalInv, SlotInv, Existing
    <3>2. Exact(draft[l], l, done)
      BY <1>4, <1>7, <2>2, <3>1 DEF Inv, BitsInv
    <3> QED BY <1>4, <2>2, <3>2 DEF Exact, Sound, Complete
  <2> QED BY <2>1, <2>2
<1>9. ASSUME NEW l \in ListsOf(job[r].done)' PROVE Exact(job[r].draft[l], l, job[r].done)'
  <2>1. PICK bits, set : bits = draft[l] /\ set = done \cup {v}
    OBVIOUS
  <2>2. Exact(bits, l, set)
    BY <1>8, <1>9, <2>1
  <2>3. Exact(bits, l, set)'
    BY <1>1, <1>3, <1>4, <2>1, <2>2, ExactStays
  <2>4. bits = job'[r].draft[l] /\ set = job'[r].done
    BY <1>2, <1>4, <2>1
  <2> QED BY <2>3, <2>4 DEF Exact, Sound, Complete
<1>10. BitsInv'
  <2>1. \A x \in job'[r].cur : Exact(job[r].seen, vcs[x].list, job[r].done)'
    BY <1>2
  <2> QED BY <1>1, <1>3, <1>9, <2>1, OthersStay DEF BitsInv
<1>11. OverlapInv'
  <2>1. \A q \in Requests \ {r}, l \in Lists : OnList(q, l)' = OnList(q, l)
    BY <1>1 DEF OnList, Alone
  <2>2. \A l \in Lists : OnList(r, l)' \subseteq OnList(r, l)
    BY <1>1, <1>2 DEF OnList
  <2>3. \A q \in Requests, l \in Lists : OnList(q, l)' \subseteq OnList(q, l)
    BY <2>1, <2>2
  <2> QED BY <1>1, <2>3 DEF OverlapInv, Inv
<1> QED BY <1>10, <1>11

\* A bitstring stays exact when r commits and its revocations count: its own drafts
\* without them, those of the others since revocations of one list overlap.
LEMMA CommitExact ==
  ASSUME Inv, NEW r \in Requests, CommitRevocation(r),
         NEW bits, NEW l \in Lists, NEW done, NEW rest,
         Exact(bits, l, done), done \subseteq rest \cup job[r].done, rest \subseteq done,
         \A v \in job[r].done \ done : vcs[v].list /= l \/ v \in overlapped
  PROVE  Exact(bits, l, rest)'
<1>1. /\ \A v \in Vcs : Marked(r, v)
      /\ Issued' = Issued /\ UNCHANGED overlapped
  BY RevokedFacts DEF Inv
<1>2. Issued \subseteq Vcs
  BY DEF Issued
<1>3. Sound(bits, l, rest)'
  BY <1>1, <1>2 DEF Exact, Sound, Marked
<1>4. Complete(bits, l, rest)'
  BY <1>1, <1>2 DEF Exact, Complete, Marked
<1> QED BY <1>3, <1>4 DEF Exact

LEMMA CommitKeeps ==
  ASSUME Inv, NEW r \in Requests, CommitRevocation(r), Fine(r)
  PROVE  BitsInv' /\ OverlapInv'
<1>1. LocalInv /\ Alone(r) /\ UNCHANGED overlapped /\ job'[r] = NoJob
  BY RevokedFacts DEF Inv, Fine, Ended
<1>2. /\ (\A l \in Lists : Rewritten(r, l)) /\ (\A v \in Vcs : Marked(r, v))
      /\ job[r].locks = ListsOf(job[r].done)
  BY <1>1, RevokedFacts
<1>3. job'[r].cur = {} /\ job'[r].done = {} /\ ListsOf(job[r].done)' = {}
  BY <1>1 DEF NoJob, ListsOf
<1>4. ASSUME NEW l \in Lists PROVE Exact(lists[l].bits, l, {})'
  <2>1. CASE l \in job[r].locks
    <3>1. PICK bits, done : bits = job[r].draft[l] /\ done = job[r].done
      OBVIOUS
    <3>2. Exact(bits, l, done)
      BY <1>2, <2>1, <3>1 DEF Inv, BitsInv
    <3>3. Exact(bits, l, {})'
      BY <3>1, <3>2, CommitExact
    <3>4. bits = lists'[l].bits
      BY <1>2, <2>1, <3>1 DEF Rewritten
    <3> QED BY <3>3, <3>4 DEF Exact, Sound, Complete
  <2>2. CASE l \notin job[r].locks
    <3>1. \A w \in job[r].done : vcs[w].list /= l
      BY <1>2, <2>2 DEF ListsOf
    <3>2. PICK bits : bits = lists[l].bits
      OBVIOUS
    <3>3. Exact(bits, l, {})
      BY <3>2 DEF Inv, BitsInv
    <3>4. Exact(bits, l, {})'
      BY <3>1, <3>3, CommitExact
    <3>5. bits = lists'[l].bits
      BY <1>2, <2>2, <3>2 DEF Rewritten
    <3> QED BY <3>4, <3>5 DEF Exact, Sound, Complete
  <2> QED BY <2>1, <2>2
<1>5. ASSUME NEW q \in Requests \ {r}, NEW v \in job[q].cur \cup job[q].done
      PROVE  /\ vcs[v].list \in Lists /\ vcs'[v].list = vcs[v].list
             /\ \A w \in job[r].done : vcs[w].list /= vcs[v].list \/ w \in overlapped
  <2>1. v \in Issued /\ v \in Vcs
    BY <1>1, BegunIssued DEF Issued
  <2>2. vcs[v].list \in Lists /\ vcs'[v].list = vcs[v].list
    BY <1>1, <1>2, <2>1 DEF Marked, LocalInv, SlotInv, Existing
  <2>3. ASSUME NEW w \in job[r].done, vcs[w].list = vcs[v].list PROVE w \in overlapped
    <3>1. v \in OnList(q, vcs[v].list) /\ w \in OnList(r, vcs[v].list)
      BY <2>3 DEF OnList
    <3> QED BY <2>2, <3>1 DEF Inv, OverlapInv
  <2> QED BY <2>2, <2>3
<1>6. ASSUME NEW q \in Requests \ {r}, NEW v \in job'[q].cur
      PROVE  Exact(job[q].seen, vcs[v].list, job[q].done)'
  <2>1. job'[q] = job[q]
    BY <1>1 DEF Alone
  <2>2. PICK l \in Lists : l = vcs[v].list
    BY <1>5, <1>6, <2>1
  <2>6. PICK bits, done : bits = job[q].seen /\ done = job[q].done
    OBVIOUS
  <2>3. Exact(bits, l, done)
    BY <1>6, <2>1, <2>2, <2>6 DEF Inv, BitsInv
  <2>4. Exact(bits, l, done)'
    BY <1>5, <1>6, <2>1, <2>2, <2>6, <2>3, CommitExact
  <2>5. bits = job'[q].seen /\ l = vcs'[v].list /\ done = job'[q].done
    BY <1>5, <1>6, <2>1, <2>2, <2>6
  <2> QED BY <2>4, <2>5 DEF Exact, Sound, Complete
<1>7. ASSUME NEW q \in Requests \ {r}, NEW l \in ListsOf(job[q].done)'
      PROVE  Exact(job[q].draft[l], l, job[q].done)'
  <2>1. job'[q] = job[q]
    BY <1>1 DEF Alone
  <2>2. PICK v \in job[q].done : l = vcs[v].list /\ l \in Lists
    BY <1>5, <1>7, <2>1 DEF ListsOf
  <2>3. PICK bits, done : bits = job[q].draft[l] /\ done = job[q].done
    OBVIOUS
  <2>4. Exact(bits, l, done)
    BY <2>2, <2>3 DEF Inv, BitsInv, ListsOf
  <2>5. Exact(bits, l, done)'
    BY <1>5, <2>2, <2>3, <2>4, CommitExact
  <2>6. bits = job'[q].draft[l] /\ done = job'[q].done
    BY <2>1, <2>3
  <2> QED BY <2>5, <2>6 DEF Exact, Sound, Complete
<1>8. BitsInv'
  BY <1>3, <1>4, <1>6, <1>7 DEF BitsInv
<1>9. \A v \in Issued : vcs'[v].list = vcs[v].list
  BY <1>2 DEF Marked, Issued
<1>10. OverlapInv'
  BY <1>1, <1>3, <1>9, ClearOverlap
<1> QED BY <1>8, <1>10

LEMMA InvStep == Inv /\ [Next]_vars => Inv'
<1> SUFFICES ASSUME Inv, [Next]_vars PROVE Inv'
  OBVIOUS
<1>1. LocalInv /\ LocalInv'
  BY LocalStep DEF Inv
<1>2. CASE UNCHANGED vars
  <2>1. UNCHANGED <<lists, vcs, job, overlapped>>
    BY <1>2 DEF vars
  <2>2. BitsInv'
    BY <2>1 DEF Inv, BitsInv, Exact, Sound, Complete, ListsOf, Issued
  <2>3. OverlapInv'
    BY <2>1 DEF Inv, OverlapInv, OnList
  <2> QED BY <1>1, <2>2, <2>3 DEF Inv
<1>3. ASSUME NEW r \in Requests, Fine(r), Step(r) PROVE BitsInv' /\ OverlapInv'
  <2>1. CASE Blank(r)
    <3>1. UNCHANGED <<lists, vcs, overlapped>> /\ Alone(r) /\ job'[r].cur = {} /\ job'[r].done = {}
      BY <2>1 DEF Blank, rows
    <3>2. Issued' = Issued
      BY <3>1 DEF Issued
    <3> QED BY <3>1, <3>2, ClearBits, ClearOverlap
  <2>2. ASSUME NEW v \in Vcs, CommitIssue(r, v) PROVE BitsInv' /\ OverlapInv'
    <3>1. Ended(r) /\ UNCHANGED overlapped
      BY <1>1, <2>2, IssuedFacts DEF CommitIssue
    <3>2. job'[r].cur = {} /\ job'[r].done = {} /\ Alone(r)
      BY <3>1 DEF Ended, NoJob
    <3>3. /\ Issued' = Issued \cup {v} /\ ~vcs'[v].revoked
          /\ \A w \in Issued : vcs'[w] = vcs[w]
          /\ \A l \in Lists : lists'[l].bits = lists[l].bits
      BY <1>1, <2>2, IssuedRows
    <3> QED BY <3>1, <3>2, <3>3, ClearBits, ClearOverlap
  <2> QED BY <1>3, <2>1, <2>2, ReadKeeps, WriteKeeps, CommitKeeps DEF Step
<1> QED BY <1>1, <1>2, <1>3, Cases DEF Inv

LEMMA InvInit == Init => Inv
<1> SUFFICES ASSUME Init PROVE Inv
  OBVIOUS
<1>1. BitsInv
  <2>1. Issued = {} /\ \A l \in Lists : lists[l].bits = {}
    BY DEF Init, Issued, NoVc, NoList
  <2>2. \A r \in Requests : job[r].cur = {} /\ ListsOf(job[r].done) = {}
    BY DEF Init, NoJob, ListsOf
  <2> QED BY <2>1, <2>2 DEF BitsInv, Exact, Sound, Complete
<1>2. OverlapInv
  BY DEF Init, OverlapInv, OnList, NoJob
<1> QED BY <1>1, <1>2, LocalInit DEF Inv

LEMMA InvAlways == Spec => []Inv
  BY InvInit, InvStep, PTL DEF Spec

\* Every bit that is published belongs to a revoked credential, also when revocations
\* fail half-way (revokeVc).
THEOREM ListedIsRevokedAlways == Spec => []ListedIsRevoked
<1>1. Inv => ListedIsRevoked
  BY DEF Inv, BitsInv, Exact, Sound, ListedIsRevoked
<1> QED BY <1>1, InvAlways, PTL

\* A revoked credential is missing from its list only if its revocation overlapped
\* another one of that list (revokeVc, updateBitstring).
THEOREM RevokedIsListedAlways == Spec => []RevokedIsListedUnlessOverlapped
<1>1. Inv => RevokedIsListedUnlessOverlapped
  BY DEF Inv, LocalInv, SlotInv, Existing, BitsInv, Exact, Complete,
         RevokedIsListedUnlessOverlapped, Listed
<1> QED BY <1>1, InvAlways, PTL
-----------------------------------------------------------------------------
(* Deactivation *)

LEMMA TombStep == LocalInv /\ TombInv /\ [Next]_vars => TombInv'
<1> SUFFICES ASSUME LocalInv, TombInv, [Next]_vars PROVE TombInv'
  OBVIOUS
<1>1. CASE UNCHANGED vars
  <2>1. UNCHANGED <<vcs, dead, job, late>>
    BY <1>1 DEF vars
  <2> QED BY <2>1 DEF TombInv, TombstoneRevokesAll, Live, Issued
<1>2. ASSUME NEW r \in Requests, Fine(r), Step(r) PROVE TombInv'
  <2>1. Alone(r)
    BY <1>2 DEF Fine
  <2> DEFINE Live1(u) == {v \in Live : vcs[v].user = u /\ v \notin late}
             Known(q) == job[q].op = "deactivate" =>
                           Live1(job[q].user) \subseteq job[q].todo \cup job[q].cur \cup job[q].done
             One(q) == \A v, w \in job[q].cur : v = w
  <2>2. \A q \in Requests : Known(q) /\ One(q)
    BY DEF TombInv
  <2>3. ASSUME Live' \subseteq Live, late \subseteq late', UNCHANGED dead,
               \A v \in Live' : vcs'[v].user = vcs[v].user,
               Known(r)', One(r)'
        PROVE  TombInv'
    <3>1. TombstoneRevokesAll'
      BY <2>3 DEF TombInv, TombstoneRevokesAll
    <3>2. ASSUME NEW q \in Requests \ {r} PROVE Known(q)' /\ One(q)'
      BY <2>1, <2>2, <2>3 DEF Alone
    <3> HIDE DEF Known, One
    <3>3. \A q \in Requests : Known(q)' /\ One(q)'
      BY <2>3, <3>2
    <3> QED BY <3>1, <3>3 DEF Known, One, TombInv
  <2>4. CASE Blank(r)
    <3>1. Live' = Live /\ UNCHANGED <<vcs, late, dead>> /\ job'[r].cur = {}
      BY <2>4 DEF Blank, rows, Live, Issued
    <3>2. Known(r)'
      <4> SUFFICES ASSUME job'[r].op = "deactivate"
                   PROVE  (Live1(job[r].user) \subseteq job[r].todo)'
        OBVIOUS
      <4>1. PICK u \in Users : Deactivate(r, u)
        BY <2>4 DEF Blank
      <4>2. job'[r].user = u /\ job'[r].todo = {v \in Live : vcs[v].user = u}
        BY <4>1 DEF Deactivate, Begin, NoJob, LocalInv, TypeOK
      <4> QED BY <3>1, <4>2
    <3> QED BY <2>3, <3>1, <3>2
  <2>5. ASSUME NEW v \in Vcs, ReadBits(r, v) PROVE TombInv'
    <3>1. Live' = Live /\ UNCHANGED <<vcs, late, dead>>
      BY <2>5 DEF ReadBits, rows, Live, Issued
    <3>2. /\ job'[r].todo = job[r].todo \ {v} /\ job'[r].cur = {v}
          /\ job'[r].op = job[r].op /\ job'[r].user = job[r].user /\ job'[r].done = job[r].done
      BY <2>5, ReadJob
    <3>3. job[r].cur = {}
      BY <2>5 DEF LocalInv, Local, ReadBits
    <3> QED BY <2>2, <2>3, <3>1, <3>2, <3>3
  <2>6. ASSUME NEW v \in Vcs, WriteBits(r, v) PROVE TombInv'
    <3>1. Live' = Live /\ UNCHANGED <<vcs, late, dead>>
      BY <2>6 DEF WriteBits, rows, Live, Issued
    <3>2. /\ job'[r].todo = job[r].todo /\ job'[r].cur = {} /\ job'[r].done = job[r].done \cup {v}
          /\ job'[r].op = job[r].op /\ job'[r].user = job[r].user
      BY <2>6, WriteJob
    <3>3. job[r].cur = {v}
      BY <2>2, <2>6 DEF WriteBits
    <3> QED BY <2>2, <2>3, <3>1, <3>2, <3>3
  <2>7. ASSUME NEW v \in Vcs, CommitIssue(r, v) PROVE TombInv'
    <3>1. /\ Issued' = Issued \cup {v} /\ \A w \in Issued : vcs'[w] = vcs[w]
      BY <2>7, IssuedRows
    <3>2. vcs'[v].user = job[r].user /\ job'[r] = NoJob /\ UNCHANGED dead
      <4>1. vcs \in [Vcs -> Vc] /\ TypeOK
        BY DEF LocalInv, TypeOK
      <4>2. vcs'[v].user = job[r].user /\ UNCHANGED dead
        BY <2>7, <4>1 DEF CommitIssue
      <4> QED BY <2>7, <4>1, <4>2, EndEnds DEF CommitIssue, Ended
    <3>3. late' = IF job[r].user \in dead \/ Deactivating(job[r].user) THEN late \cup {v} ELSE late
      BY <2>7 DEF CommitIssue
    <3>4. Live' \subseteq Live \cup {v} /\ \A w \in Live' \ {v} : vcs'[w] = vcs[w]
      BY <3>1 DEF Live
    <3>5. TombstoneRevokesAll'
      BY <3>2, <3>3, <3>4 DEF TombInv, TombstoneRevokesAll
    <3>6. Known(r)' /\ One(r)'
      BY <3>2 DEF NoJob
    <3>7. ASSUME NEW q \in Requests \ {r} PROVE Known(q)' /\ One(q)'
      <4>1. job'[q] = job[q] /\ One(q)'
        BY <2>1, <2>2 DEF Alone
      <4>2. ASSUME job[q].op = "deactivate", job[q].user = job[r].user PROVE v \in late'
        <5>1. pc[q] /= "idle"
          BY <4>2 DEF LocalInv, Local, NoJob
        <5> QED BY <3>3, <4>2, <5>1 DEF Deactivating
      <4> QED BY <2>2, <3>2, <3>3, <3>4, <4>1, <4>2
    <3> HIDE DEF Known, One
    <3>8. \A q \in Requests : Known(q)' /\ One(q)'
      BY <3>6, <3>7
    <3> QED BY <3>5, <3>8 DEF Known, One, TombInv
  <2>8. CASE CommitRevocation(r)
    <3>1. \A v \in Vcs : Marked(r, v)
      BY <2>8, RevokedFacts
    <3>2. Issued' = Issued /\ job'[r] = NoJob /\ UNCHANGED late
      BY <2>8, RevokedFacts DEF Ended
    <3>3. job[r].todo = {} /\ job[r].cur = {}
      BY <2>8, RevokedFacts
    <3>4. /\ Live' \subseteq Live \ job[r].done
          /\ \A v \in Live' : vcs'[v].user = vcs[v].user
      BY <3>1, <3>2 DEF Live, Issued, Marked
    <3>5. dead' \subseteq dead \cup (IF job[r].op = "deactivate" THEN {job[r].user} ELSE {})
      BY <2>8 DEF CommitRevocation
    <3>6. TombstoneRevokesAll'
      BY <2>2, <3>2, <3>3, <3>4, <3>5 DEF TombInv, TombstoneRevokesAll
    <3>7. Known(r)' /\ One(r)'
      BY <3>2 DEF NoJob
    <3>8. ASSUME NEW q \in Requests \ {r} PROVE Known(q)' /\ One(q)'
      BY <2>1, <2>2, <3>2, <3>4 DEF Alone
    <3> HIDE DEF Known, One
    <3>9. \A q \in Requests : Known(q)' /\ One(q)'
      BY <3>7, <3>8
    <3> QED BY <3>6, <3>9 DEF Known, One, TombInv
  <2> QED BY <1>2, <2>4, <2>5, <2>6, <2>7, <2>8 DEF Step
<1> QED BY <1>1, <1>2, Cases

\* Every credential of a user that was issued before the deactivation of the DID began
\* is revoked when it is committed (deactivateDid, cascadeRevokeForUser).
THEOREM TombstoneRevokesAllAlways == Spec => []TombstoneRevokesAll
<1>1. Init => TombInv
  BY DEF Init, TombInv, TombstoneRevokesAll, NoJob
<1>2. TombInv => TombstoneRevokesAll
  BY DEF TombInv
<1> QED BY <1>1, <1>2, TombStep, LocalAlways, PTL DEF Spec

\* Hence a list says of its credentials what their rows say, unless revocations
\* overlapped (WriteBits, CommitRevocation).
THEOREM ListFollowsRevocationsAlways == Spec => []ListFollowsRevocations
<1>1. ListedIsRevoked /\ RevokedIsListedUnlessOverlapped => ListFollowsRevocations
  BY DEF ListFollowsRevocations
<1> QED BY <1>1, ListedIsRevokedAlways, RevokedIsListedAlways, PTL
=============================================================================
