------------------------------ MODULE DaemonProofs ------------------------------
(***************************************************************************)
(* The guard and the tokens, and the privileged interface that runs its    *)
(* jobs under them, for any number of calls and callers and whatever the   *)
(* listeners and the firmware do. (One module for both: Daemon extends     *)
(* Transactions.)                                                          *)
(*                                                                         *)
(* Of Transactions: the transactions the guard covers exclude one another, *)
(* the daemon's exit spares them, and the permit is never lost. A covered  *)
(* job runs only while its task is executing (JobsInScope), an executing   *)
(* task holds the guard's permit (GuardIsAccountedFor), and there is one   *)
(* permit. The token of a task in its scope is out (TokensInScope), and    *)
(* the exit finds none (NoTokenAtExit). The queue lists waiting tasks,     *)
(* each once (QueueIsWaiting), so that the permit handed to its head       *)
(* reaches a task that will pass it on.                                    *)
(*                                                                         *)
(* Of Daemon: every step of it is one of Transactions, so what is proved   *)
(* there holds of the daemon; and a call enrols keys only in Setup Mode,   *)
(* tells its outcome, and hides nothing it wrote once it has told success. *)
(* Where a call stands, its job, its method and its reply agree (CallInv); *)
(* a call that may yet enrol has the firmware in Setup Mode                *)
(* (ReadyToEnrol), because only the holder of the guard runs a job and the *)
(* holder is one; what a cache may hide is of the method of the call that  *)
(* executes, or of a failed call (HiddenIsKnown).                          *)
(***************************************************************************)
EXTENDS Daemon, SequenceTheorems, TLAPS

InScope == {"entered", "queued", "executing", "leaving", "dropping"}

TokensInScope == tokens = {t \in Gated : pc[t] \in InScope}

NoTokenAtExit == proc = "exited" => tokens = {}

QueueIsWaiting ==
  /\ \A i \in 1 .. Len(queue) : pc[queue[i]] = "queued" /\ queue[i] # holder
  /\ \A i, j \in 1 .. Len(queue) : queue[i] = queue[j] => i = j

PermitIsHeld ==
  /\ queue # <<>> => holder # Nobody
  /\ \A t \in Gated : pc[t] \in {"executing", "leaving"} => holder = t
  /\ holder # Nobody => pc[holder] \in {"queued", "executing", "leaving"}

WaitersAreQueued ==
  \A t \in Gated : pc[t] = "queued" => holder = t \/ \E i \in 1 .. Len(queue) : queue[i] = t

JobsInScope ==
  \A t \in Covered : job[t] \in {"pending", "writing"} => pc[t] = "executing"

IInv ==
  /\ TypeOK
  /\ TokensInScope
  /\ NoTokenAtExit
  /\ PermitIsHeld
  /\ QueueIsWaiting
  /\ WaitersAreQueued
  /\ JobsInScope

--------------------------------------------------------------------------------
(* What the invariant gives *)

\* Two covered writers would both hold the one permit.
LEMMA ExclusionFromInv == IInv => CoveredExclusion
BY DEF IInv, TypeOK, PermitIsHeld, JobsInScope, CoveredExclusion, Writing, Covered

\* A covered job has its token out, and the exit finds none.
LEMMA ExitFromInv == IInv => ExitSparesCovered
BY DEF IInv, TokensInScope, NoTokenAtExit, JobsInScope, ExitSparesCovered, Covered, InScope

\* The holder is a task on its way, and no queued task is forgotten.
LEMMA GuardFromInv == IInv => GuardIsAccountedFor
BY DEF IInv, TypeOK, PermitIsHeld, WaitersAreQueued, GuardIsAccountedFor, ToSet

--------------------------------------------------------------------------------
\* At the start the guard is free and nobody queues.
LEMMA InitInductive == Init => IInv
BY TasksAssumption
   DEF Init, IInv, TypeOK, TokensInScope, NoTokenAtExit, PermitIsHeld, QueueIsWaiting,
       WaitersAreQueued, JobsInScope, InScope, Covered, Gated, Tasks

\* Tail and RemoveAt shift the elements behind the one they take out.
LEMMA TailShifts ==
  ASSUME NEW S, NEW s \in Seq(S), s # <<>>
  PROVE  /\ Head(s) = s[1] /\ Head(s) \in S
         /\ Tail(s) \in Seq(S) /\ Len(Tail(s)) = Len(s) - 1
         /\ \A j \in 1 .. Len(s) - 1 : Tail(s)[j] = s[j + 1]
OBVIOUS

\* ... of a waiter aborted in the middle of the queue.
LEMMA RemoveAtShifts ==
  ASSUME NEW S, NEW s \in Seq(S), NEW i \in 1 .. Len(s)
  PROVE  /\ RemoveAt(s, i) \in Seq(S) /\ Len(RemoveAt(s, i)) = Len(s) - 1
         /\ \A j \in 1 .. Len(s) - 1 : RemoveAt(s, i)[j] = IF j < i THEN s[j] ELSE s[j + 1]
<1> DEFINE front == SubSeq(s, 1, i - 1)
           back == SubSeq(s, i + 1, Len(s))
<1>1. front \in Seq(S) /\ Len(front) = i - 1 /\ \A j \in 1 .. i - 1 : front[j] = s[j]
  OBVIOUS
<1>2. back \in Seq(S) /\ Len(back) = Len(s) - i /\ \A j \in 1 .. Len(s) - i : back[j] = s[j + i]
  OBVIOUS
<1> HIDE DEF front, back
<1>3. front \o back \in Seq(S) /\ Len(front \o back) = Len(s) - 1
  BY <1>1, <1>2
<1>4. \A j \in 1 .. Len(s) - 1 : (front \o back)[j] = IF j < i THEN s[j] ELSE s[j + 1]
  BY <1>1, <1>2
<1> QED
  BY <1>3, <1>4 DEF RemoveAt, front, back

\* Every step keeps the types.
LEMMA TypeInductive == TypeOK /\ [Next]_vars => TypeOK'
<1> SUFFICES ASSUME TypeOK, [Next]_vars PROVE TypeOK'
  OBVIOUS
<1> USE TasksAssumption DEF TypeOK, Goto, Alive, Gated, Tasks
<1>1. ASSUME NEW t \in Gated, Enter(t) PROVE TypeOK'
  <2>1. PICK n \in Sizes(t) : left' = [left EXCEPT ![t] = n]
    BY <1>1 DEF Enter
  <2>2. n \in 0 .. MaxNames
    BY DEF Sizes
  <2> QED
    BY <1>1, <2>1, <2>2 DEF Enter
<1>2. ASSUME NEW t \in Gated, Lock(t) PROVE TypeOK'
  <2>1. Append(queue, t) \in Seq(Gated)
    OBVIOUS
  <2>2. CASE holder = Nobody
    BY <1>2, <2>2 DEF Lock
  <2>3. CASE holder # Nobody
    BY <1>2, <2>1, <2>3 DEF Lock
  <2> QED
    BY <2>2, <2>3
<1>3. ASSUME NEW t \in Gated, Refuse(t) \/ Locked(t) PROVE TypeOK'
  BY <1>3 DEF Refuse, Locked
<1>4. ASSUME NEW t \in Gated, Spawn(t) PROVE TypeOK'
  BY <1>4 DEF Spawn
<1>5. ASSUME NEW t \in Gated, Collect(t) PROVE TypeOK'
  BY <1>5 DEF Collect
<1>6. ASSUME NEW t \in Gated, Succeed(t) PROVE TypeOK'
  <2>1. unseen' \subseteq unseen
    BY <1>6 DEF Succeed, StillUnseen
  <2> QED
    BY <1>6, <2>1 DEF Succeed
<1>7. ASSUME NEW t \in Gated, ReleaseGuard(t) PROVE TypeOK'
  BY <1>7, TailShifts DEF ReleaseGuard
<1>8. ASSUME NEW t \in Gated, DropToken(t) PROVE TypeOK'
  BY <1>8 DEF DropToken
<1>9. ASSUME NEW t \in Gated, AbortQueued(t) PROVE TypeOK'
  <2>1. queue' \in Seq(Gated)
    BY <1>9, RemoveAtShifts DEF AbortQueued
  <2> QED
    BY <1>9, <2>1 DEF AbortQueued, AbortTask
<1>10. ASSUME NEW t \in Gated, AbortAssigned(t) PROVE TypeOK'
  BY <1>10 DEF AbortAssigned, AbortTask
<1>11. ASSUME NEW t \in Gated, AbortExecuting(t) PROVE TypeOK'
  BY <1>11 DEF AbortExecuting, AbortTask
<1>12. ASSUME NEW t \in Hostnames, HostnameNext(t) PROVE TypeOK'
  BY <1>12 DEF HostnameNext, HostnameBegin, HostnameEnd
<1>13. ASSUME NEW t \in Tasks, JobNext(t) PROVE TypeOK'
  <2>1. CASE JobBegin(t) \/ JobFail(t)
    BY <2>1 DEF JobBegin, JobFail, JobStep
  <2>2. CASE JobCommit(t)
    <3>1. PICK changed \in SUBSET Caches : unseen' = unseen \cup (({t} \cap Commands) \X changed)
      BY <2>2 DEF JobCommit
    <3>2. unseen' \subseteq Commands \X Caches
      BY <3>1
    <3> QED
      BY <2>2, <3>2 DEF JobCommit, JobStep
  <2> QED
    BY <1>13, <2>1, <2>2 DEF JobNext
<1>14. CASE Terminate \/ Exit \/ Kill
  BY <1>14 DEF Terminate, Exit, Kill, SetProc
<1>15. CASE UNCHANGED vars
  BY <1>15 DEF vars
<1>16. ASSUME NEW t \in Gated, Reject(t) PROVE TypeOK'
  BY <1>16 DEF Reject
<1> QED
  BY <1>1, <1>2, <1>3, <1>4, <1>5, <1>6, <1>7, <1>8, <1>9, <1>10, <1>11, <1>12, <1>13,
     <1>14, <1>15, <1>16
     DEF Next, GatedNext

--------------------------------------------------------------------------------
(* Every step keeps the rest of the invariant. In each step: the tokens, then  *)
(* the permit, then the queue, then the jobs.                                  *)

\* Every step keeps the invariant.
LEMMA Inductive == IInv /\ [Next]_vars => IInv'
<1> SUFFICES ASSUME IInv, [Next]_vars PROVE IInv'
  OBVIOUS
<1>0. TypeOK /\ TypeOK'
  BY TypeInductive DEF IInv
<1> USE <1>0, TasksAssumption DEF Goto, Alive, Gated, Tasks, InScope, Covered
<1>1. ASSUME NEW t \in Gated, Enter(t) PROVE IInv'
  <2>1. TokensInScope' /\ NoTokenAtExit'
    BY <1>1 DEF Enter, IInv, TypeOK, TokensInScope, NoTokenAtExit
  <2>2. PermitIsHeld' /\ QueueIsWaiting' /\ WaitersAreQueued'
    BY <1>1 DEF Enter, IInv, TypeOK, PermitIsHeld, QueueIsWaiting, WaitersAreQueued
  <2>3. JobsInScope'
    BY <1>1 DEF Enter, IInv, TypeOK, JobsInScope
  <2> QED
    BY <2>1, <2>2, <2>3 DEF IInv
<1>2. ASSUME NEW t \in Gated, Refuse(t) PROVE IInv'
  <2>1. TokensInScope' /\ NoTokenAtExit'
    BY <1>2 DEF Refuse, IInv, TypeOK, TokensInScope, NoTokenAtExit
  <2>2. PermitIsHeld' /\ QueueIsWaiting' /\ WaitersAreQueued'
    BY <1>2 DEF Refuse, IInv, TypeOK, PermitIsHeld, QueueIsWaiting, WaitersAreQueued
  <2>3. JobsInScope'
    BY <1>2 DEF Refuse, IInv, TypeOK, JobsInScope
  <2> QED
    BY <2>1, <2>2, <2>3 DEF IInv
<1>3. ASSUME NEW t \in Gated, Lock(t) PROVE IInv'
  <2>1. TokensInScope' /\ NoTokenAtExit'
    BY <1>3 DEF Lock, IInv, TypeOK, TokensInScope, NoTokenAtExit
  <2>2. PermitIsHeld' /\ QueueIsWaiting' /\ WaitersAreQueued'
    <3>1. CASE holder = Nobody
      BY <1>3, <3>1 DEF Lock, IInv, TypeOK, PermitIsHeld, QueueIsWaiting, WaitersAreQueued
    <3>2. CASE holder # Nobody
      <4>1. /\ queue' = Append(queue, t) /\ holder' = holder /\ pc[t] = "entered"
            /\ pc' = [pc EXCEPT ![t] = "queued"]
        BY <1>3, <3>2 DEF Lock
      <4>2. /\ Len(queue') = Len(queue) + 1 /\ queue'[Len(queue) + 1] = t
            /\ \A i \in 1 .. Len(queue) : queue'[i] = queue[i] /\ queue[i] \in Gated
        BY <4>1 DEF TypeOK
      <4>3. PermitIsHeld'
        BY <3>2, <4>1 DEF IInv, TypeOK, PermitIsHeld
      <4>4. QueueIsWaiting'
        <5>1. t # holder /\ \A i \in 1 .. Len(queue) : queue[i] # t
          BY <4>1, <3>2 DEF IInv, TypeOK, PermitIsHeld, QueueIsWaiting
        <5>2. \A i \in 1 .. Len(queue') : i \in 1 .. Len(queue) \/ i = Len(queue) + 1
          BY <4>2 DEF TypeOK
        <5> QED
          BY <4>1, <4>2, <5>1, <5>2 DEF IInv, TypeOK, QueueIsWaiting
      <4>5. WaitersAreQueued'
        <5>1. Len(queue) + 1 \in 1 .. Len(queue') /\ 1 .. Len(queue) \subseteq 1 .. Len(queue')
          BY <4>2 DEF TypeOK
        <5> QED
          BY <4>1, <4>2, <5>1 DEF IInv, TypeOK, WaitersAreQueued
      <4> QED
        BY <4>3, <4>4, <4>5
    <3> QED
      BY <3>1, <3>2
  <2>3. JobsInScope'
    BY <1>3 DEF Lock, IInv, TypeOK, JobsInScope
  <2> QED
    BY <2>1, <2>2, <2>3 DEF IInv
<1>4. ASSUME NEW t \in Gated, Locked(t) PROVE IInv'
  <2>1. TokensInScope' /\ NoTokenAtExit'
    BY <1>4 DEF Locked, IInv, TypeOK, TokensInScope, NoTokenAtExit
  <2>2. PermitIsHeld' /\ QueueIsWaiting' /\ WaitersAreQueued'
    BY <1>4 DEF Locked, IInv, TypeOK, PermitIsHeld, QueueIsWaiting, WaitersAreQueued
  <2>3. JobsInScope'
    BY <1>4 DEF Locked, IInv, TypeOK, JobsInScope
  <2> QED
    BY <2>1, <2>2, <2>3 DEF IInv
<1>5. ASSUME NEW t \in Gated, Spawn(t) PROVE IInv'
  <2>1. TokensInScope' /\ NoTokenAtExit'
    BY <1>5 DEF Spawn, IInv, TypeOK, TokensInScope, NoTokenAtExit
  <2>2. PermitIsHeld' /\ QueueIsWaiting' /\ WaitersAreQueued'
    BY <1>5 DEF Spawn, IInv, TypeOK, PermitIsHeld, QueueIsWaiting, WaitersAreQueued
  <2>3. JobsInScope'
    BY <1>5 DEF Spawn, IInv, TypeOK, JobsInScope
  <2> QED
    BY <2>1, <2>2, <2>3 DEF IInv
<1>6. ASSUME NEW t \in Gated, Collect(t) PROVE IInv'
  <2>1. TokensInScope' /\ NoTokenAtExit'
    BY <1>6 DEF Collect, IInv, TypeOK, TokensInScope, NoTokenAtExit
  <2>2. PermitIsHeld' /\ QueueIsWaiting' /\ WaitersAreQueued'
    BY <1>6 DEF Collect, IInv, TypeOK, PermitIsHeld, QueueIsWaiting, WaitersAreQueued
  <2>3. JobsInScope'
    BY <1>6 DEF Collect, IInv, TypeOK, JobsInScope
  <2> QED
    BY <2>1, <2>2, <2>3 DEF IInv
<1>7. ASSUME NEW t \in Gated, Succeed(t) PROVE IInv'
  <2>1. TokensInScope' /\ NoTokenAtExit'
    BY <1>7 DEF Succeed, IInv, TypeOK, TokensInScope, NoTokenAtExit
  <2>2. PermitIsHeld' /\ QueueIsWaiting' /\ WaitersAreQueued'
    BY <1>7 DEF Succeed, IInv, TypeOK, PermitIsHeld, QueueIsWaiting, WaitersAreQueued
  <2>3. JobsInScope'
    BY <1>7 DEF Succeed, IInv, TypeOK, JobsInScope
  <2> QED
    BY <2>1, <2>2, <2>3 DEF IInv
<1>8. ASSUME NEW t \in Gated, ReleaseGuard(t) PROVE IInv'
  <2>1. TokensInScope' /\ NoTokenAtExit'
    BY <1>8 DEF ReleaseGuard, IInv, TypeOK, TokensInScope, NoTokenAtExit
  <2>2. PermitIsHeld' /\ QueueIsWaiting' /\ WaitersAreQueued'
    <3>1. holder = t /\ pc' = [pc EXCEPT ![t] = "dropping"] /\ pc[t] = "leaving"
      BY <1>8 DEF ReleaseGuard, IInv, TypeOK, PermitIsHeld
    <3>2. CASE queue = <<>>
      BY <1>8, <3>1, <3>2 DEF ReleaseGuard, IInv, TypeOK, PermitIsHeld, QueueIsWaiting, WaitersAreQueued
    <3>3. CASE queue # <<>>
      <4>1. holder' = queue[1] /\ queue[1] \in Gated /\ Len(queue') = Len(queue) - 1
        BY <1>8, <3>3, TailShifts DEF ReleaseGuard, TypeOK
      <4>2. \A j \in 1 .. Len(queue') : j + 1 \in 1 .. Len(queue) /\ queue'[j] = queue[j + 1]
        BY <1>8, <3>3, <4>1, TailShifts DEF ReleaseGuard, TypeOK
      <4>3. 1 \in 1 .. Len(queue) /\ \A i \in 1 .. Len(queue) : i = 1 \/ i - 1 \in 1 .. Len(queue')
        BY <3>3, <4>1 DEF TypeOK
      <4>4. \A i \in 1 .. Len(queue) : i = 1 \/ queue'[i - 1] = queue[i]
        BY <4>2, <4>3
      <4>5. pc[queue[1]] = "queued" /\ queue[1] # t
        BY <3>1, <4>3 DEF IInv, QueueIsWaiting
      <4>6. PermitIsHeld'
        BY <3>1, <4>1, <4>5 DEF IInv, TypeOK, PermitIsHeld
      <4>7. QueueIsWaiting'
        <5>1. \A j \in 1 .. Len(queue') : pc'[queue'[j]] = "queued" /\ queue'[j] # holder'
          <6> SUFFICES ASSUME NEW j \in 1 .. Len(queue')
                       PROVE  pc'[queue'[j]] = "queued" /\ queue'[j] # holder'
            OBVIOUS
          <6>1. j + 1 \in 1 .. Len(queue) /\ queue'[j] = queue[j + 1] /\ j + 1 # 1
            BY <4>2
          <6>2. pc[queue[j + 1]] = "queued" /\ queue[j + 1] # t /\ queue[j + 1] # queue[1]
            BY <3>1, <4>3, <6>1 DEF IInv, QueueIsWaiting
          <6> QED
            BY <3>1, <4>1, <6>1, <6>2 DEF TypeOK
        <5>2. \A j, k \in 1 .. Len(queue') : queue'[j] = queue'[k] => j + 1 = k + 1
          BY <4>2 DEF IInv, QueueIsWaiting
        <5> QED
          BY <5>1, <5>2 DEF QueueIsWaiting
      <4>8. WaitersAreQueued'
        <5> SUFFICES ASSUME NEW u \in Gated, pc[u] = "queued", u # queue[1]
                     PROVE  \E j \in 1 .. Len(queue') : queue'[j] = u
          BY <3>1, <4>1 DEF WaitersAreQueued, TypeOK
        <5>1. PICK i \in 1 .. Len(queue) : queue[i] = u
          BY <3>1 DEF IInv, WaitersAreQueued
        <5> QED
          BY <4>3, <4>4, <5>1
      <4> QED
        BY <4>6, <4>7, <4>8
    <3> QED
      BY <3>2, <3>3
  <2>3. JobsInScope'
    BY <1>8 DEF ReleaseGuard, IInv, TypeOK, JobsInScope
  <2> QED
    BY <2>1, <2>2, <2>3 DEF IInv
<1>9. ASSUME NEW t \in Gated, DropToken(t) PROVE IInv'
  <2>1. TokensInScope' /\ NoTokenAtExit'
    BY <1>9 DEF DropToken, IInv, TypeOK, TokensInScope, NoTokenAtExit
  <2>2. PermitIsHeld' /\ QueueIsWaiting' /\ WaitersAreQueued'
    BY <1>9 DEF DropToken, IInv, TypeOK, PermitIsHeld, QueueIsWaiting, WaitersAreQueued
  <2>3. JobsInScope'
    BY <1>9 DEF DropToken, IInv, TypeOK, JobsInScope
  <2> QED
    BY <2>1, <2>2, <2>3 DEF IInv
<1>10. ASSUME NEW t \in Gated, AbortQueued(t) PROVE IInv'
  <2>1. TokensInScope' /\ NoTokenAtExit'
    BY <1>10 DEF AbortQueued, AbortTask, IInv, TypeOK, TokensInScope, NoTokenAtExit
  <2>2. PermitIsHeld' /\ QueueIsWaiting' /\ WaitersAreQueued'
    <3>1. PICK i \in 1 .. Len(queue) : queue[i] = t /\ queue' = RemoveAt(queue, i)
      BY <1>10 DEF AbortQueued
    <3>2. Len(queue') = Len(queue) - 1
      BY <3>1, RemoveAtShifts DEF TypeOK
    <3>3. \A j \in 1 .. Len(queue') : queue'[j] = IF j < i THEN queue[j] ELSE queue[j + 1]
      <4>1. \A j \in 1 .. Len(queue) - 1 :
              RemoveAt(queue, i)[j] = IF j < i THEN queue[j] ELSE queue[j + 1]
        <5>1. queue \in Seq(Gated)
          BY DEF IInv, TypeOK
        <5> QED
          BY <5>1, RemoveAtShifts, Zenon
      <4> QED
        BY <3>1, <3>2, <4>1
    <3>4. holder' = holder /\ pc[t] = "queued" /\ pc' = [pc EXCEPT ![t] = "dropping"] /\ t # holder
      BY <1>10, <3>1 DEF AbortQueued, IInv, QueueIsWaiting
    <3>5. PermitIsHeld'
      BY <3>2, <3>4 DEF IInv, TypeOK, PermitIsHeld
    <3>6. QueueIsWaiting'
      <4>1. \A j \in 1 .. Len(queue') : \E k \in 1 .. Len(queue) :
              k # i /\ queue'[j] = queue[k] /\ k = IF j < i THEN j ELSE j + 1
        BY <3>2, <3>3 DEF TypeOK
      <4>2. \A k \in 1 .. Len(queue) : k # i => queue[k] # t /\ queue[k] \in Gated
        BY <3>1 DEF IInv, TypeOK, QueueIsWaiting
      <4>3. \A j \in 1 .. Len(queue') : pc'[queue'[j]] = "queued" /\ queue'[j] # holder'
        <5> SUFFICES ASSUME NEW j \in 1 .. Len(queue')
                     PROVE  pc'[queue'[j]] = "queued" /\ queue'[j] # holder'
          OBVIOUS
        <5>1. PICK k \in 1 .. Len(queue) : k # i /\ queue'[j] = queue[k]
          BY <4>1
        <5>2. pc[queue[k]] = "queued" /\ queue[k] # holder /\ queue[k] # t /\ queue[k] \in Gated
          BY <4>2, <5>1 DEF IInv, QueueIsWaiting
        <5> QED
          BY <3>4, <5>1, <5>2 DEF TypeOK
      <4>4. \A j, k \in 1 .. Len(queue') : queue'[j] = queue'[k] => j = k
        <5> SUFFICES ASSUME NEW j \in 1 .. Len(queue'), NEW k \in 1 .. Len(queue'),
                            queue'[j] = queue'[k]
                     PROVE  j = k
          OBVIOUS
        <5>1. PICK a \in 1 .. Len(queue) : queue'[j] = queue[a] /\ a = IF j < i THEN j ELSE j + 1
          BY <4>1
        <5>2. PICK b \in 1 .. Len(queue) : queue'[k] = queue[b] /\ b = IF k < i THEN k ELSE k + 1
          BY <4>1
        <5>3. a = b
          BY <5>1, <5>2 DEF IInv, QueueIsWaiting
        <5> QED
          BY <3>1, <5>1, <5>2, <5>3 DEF TypeOK
      <4> QED
        BY <4>3, <4>4 DEF QueueIsWaiting
    <3>7. WaitersAreQueued'
      <4> SUFFICES ASSUME NEW u \in Gated, pc[u] = "queued", u # t, u # holder
                   PROVE  \E j \in 1 .. Len(queue') : queue'[j] = u
        BY <3>4 DEF WaitersAreQueued, TypeOK
      <4>1. PICK k \in 1 .. Len(queue) : queue[k] = u
        BY DEF IInv, WaitersAreQueued
      <4>2. k # i
        BY <3>1, <4>1
      <4>3. CASE k < i
        <5>1. k \in 1 .. Len(queue')
          BY <3>2, <4>3 DEF TypeOK
        <5> QED
          BY <3>3, <4>1, <4>3, <5>1
      <4>4. CASE k > i
        <5>1. k - 1 \in 1 .. Len(queue') /\ ~(k - 1 < i) /\ (k - 1) + 1 = k
          BY <3>2, <4>4 DEF TypeOK
        <5> QED
          BY <3>3, <4>1, <5>1
      <4> QED
        BY <4>2, <4>3, <4>4
    <3> QED
      BY <3>5, <3>6, <3>7
  <2>3. JobsInScope'
    BY <1>10 DEF AbortQueued, AbortTask, IInv, TypeOK, JobsInScope
  <2> QED
    BY <2>1, <2>2, <2>3 DEF IInv
<1>11. ASSUME NEW t \in Gated, AbortAssigned(t) PROVE IInv'
  <2>1. TokensInScope' /\ NoTokenAtExit'
    BY <1>11 DEF AbortAssigned, AbortTask, IInv, TypeOK, TokensInScope, NoTokenAtExit
  <2>2. PermitIsHeld' /\ QueueIsWaiting' /\ WaitersAreQueued'
    BY <1>11 DEF AbortAssigned, AbortTask, IInv, TypeOK, PermitIsHeld, QueueIsWaiting, WaitersAreQueued
  <2>3. JobsInScope'
    BY <1>11 DEF AbortAssigned, AbortTask, IInv, TypeOK, JobsInScope
  <2> QED
    BY <2>1, <2>2, <2>3 DEF IInv
<1>12. ASSUME NEW t \in Gated, AbortExecuting(t) PROVE IInv'
  <2>1. TokensInScope' /\ NoTokenAtExit'
    BY <1>12 DEF AbortExecuting, AbortTask, IInv, TypeOK, TokensInScope, NoTokenAtExit
  <2>2. PermitIsHeld' /\ QueueIsWaiting' /\ WaitersAreQueued'
    BY <1>12 DEF AbortExecuting, AbortTask, IInv, TypeOK, PermitIsHeld, QueueIsWaiting, WaitersAreQueued
  <2>3. JobsInScope'
    BY <1>12 DEF AbortExecuting, AbortTask, IInv, TypeOK, JobsInScope
  <2> QED
    BY <2>1, <2>2, <2>3 DEF IInv
<1>13. ASSUME NEW t \in Hostnames, HostnameNext(t) PROVE IInv'
  <2>1. \A u \in Gated : pc'[u] = pc[u] /\ job'[u] = job[u]
    BY <1>13 DEF HostnameNext, HostnameBegin, HostnameEnd, TypeOK
  <2>2. UNCHANGED <<proc, tokens, holder, queue, orphans>>
    BY <1>13 DEF HostnameNext, HostnameBegin, HostnameEnd
  <2>3. TokensInScope' /\ NoTokenAtExit'
    BY <2>1, <2>2 DEF IInv, TokensInScope, NoTokenAtExit
  <2>4. PermitIsHeld' /\ WaitersAreQueued' /\ JobsInScope'
    BY <2>1, <2>2 DEF IInv, TypeOK, PermitIsHeld, WaitersAreQueued, JobsInScope
  <2>5. QueueIsWaiting'
    BY <2>1, <2>2 DEF IInv, TypeOK, QueueIsWaiting
  <2> QED
    BY <2>3, <2>4, <2>5 DEF IInv
<1>14. ASSUME NEW t \in Tasks, JobNext(t) PROVE IInv'
  <2>1. UNCHANGED <<proc, tokens, holder, queue, pc, orphans>>
    BY <1>14 DEF JobNext, JobBegin, JobCommit, JobFail, JobStep
  <2>2. \A u \in Tasks : job'[u] \in {"pending", "writing"} => job[u] \in {"pending", "writing"}
    BY <1>14 DEF JobNext, JobBegin, JobCommit, JobFail, JobStep, TypeOK
  <2>3. TokensInScope' /\ NoTokenAtExit' /\ JobsInScope'
    BY <2>1, <2>2 DEF IInv, TokensInScope, NoTokenAtExit, JobsInScope
  <2>4. PermitIsHeld' /\ QueueIsWaiting' /\ WaitersAreQueued'
    BY <2>1 DEF IInv, PermitIsHeld, QueueIsWaiting, WaitersAreQueued
  <2> QED
    BY <2>3, <2>4 DEF IInv
<1>15. CASE Terminate \/ Exit \/ Kill
  <2>1. /\ UNCHANGED <<tokens, holder, queue, pc, job, orphans>>
        /\ proc' = "exited" => tokens = {}
    BY <1>15 DEF Terminate, Exit, Kill, SetProc
  <2>2. TokensInScope' /\ NoTokenAtExit' /\ JobsInScope'
    BY <2>1 DEF IInv, TokensInScope, NoTokenAtExit, JobsInScope
  <2>3. PermitIsHeld' /\ QueueIsWaiting' /\ WaitersAreQueued'
    BY <2>1 DEF IInv, PermitIsHeld, QueueIsWaiting, WaitersAreQueued
  <2> QED
    BY <2>2, <2>3 DEF IInv
<1>16. ASSUME NEW t \in Gated, Reject(t) PROVE IInv'
  <2>1. TokensInScope' /\ NoTokenAtExit'
    BY <1>16 DEF Reject, IInv, TypeOK, TokensInScope, NoTokenAtExit
  <2>2. PermitIsHeld' /\ QueueIsWaiting' /\ WaitersAreQueued'
    BY <1>16 DEF Reject, IInv, TypeOK, PermitIsHeld, QueueIsWaiting, WaitersAreQueued
  <2>3. JobsInScope'
    BY <1>16 DEF Reject, IInv, TypeOK, JobsInScope
  <2> QED
    BY <2>1, <2>2, <2>3 DEF IInv
<1>17. CASE UNCHANGED vars
  BY <1>17 DEF vars, IInv, TokensInScope, NoTokenAtExit, PermitIsHeld, QueueIsWaiting,
     WaitersAreQueued, JobsInScope
<1> QED
  BY <1>1, <1>2, <1>3, <1>4, <1>5, <1>6, <1>7, <1>8, <1>9, <1>10, <1>11, <1>12, <1>13,
     <1>14, <1>15, <1>16, <1>17
     DEF Next, GatedNext

\* The invariant holds throughout.
LEMMA InvariantHolds == SafeSpec => []IInv
<1>1. Init => IInv
  BY InitInductive
<1>2. IInv /\ [Next]_vars => IInv'
  BY Inductive
<1> QED
  BY <1>1, <1>2, PTL DEF SafeSpec

--------------------------------------------------------------------------------
(* The theorems *)

\* The types of every variable hold along every run of the daemon (the state of
\* shutdown.rs, rebuild.rs and their callers).
THEOREM TypeCorrect == SafeSpec => []TypeOK
<1>1. IInv => TypeOK
  BY DEF IInv
<1> QED
  BY <1>1, InvariantHolds, PTL

\* The guard of rebuild.rs: of the transactions it covers, at most one is between
\* its first write and its commit, for any number of commands, reports and watchers.
THEOREM CoveredTransactionsExclude == SafeSpec => []CoveredExclusion
<1> QED
  BY ExclusionFromInv, InvariantHolds, PTL

\* The token of shutdown.rs: the daemon's own exit finds no covered transaction
\* running, nor one its blocking pool has yet to start.
THEOREM ExitSparesCoveredTransactions == SafeSpec => []ExitSparesCovered
<1> QED
  BY ExitFromInv, InvariantHolds, PTL

\* Daemon::run and apply.rs: the permit is never lost, whatever watcher is aborted
\* at whatever await.
THEOREM GuardNeverLost == SafeSpec => []GuardIsAccountedFor
<1> QED
  BY GuardFromInv, InvariantHolds, PTL

--------------------------------------------------------------------------------
(* The callers use the tokens as module DrainGate allows *)

\* Every step of the callers is one of the gate, or none of its business.
LEMMA GateStep ==
  ASSUME IInv, [Next]_vars
  PROVE  [Gate!Next]_(Gate!gateVars)
<1> USE TasksAssumption DEF Goto, Alive, Gated, Tasks, Gate!Next, Gate!gateVars
<1>1. ASSUME NEW t \in Gated, Enter(t) PROVE Gate!Admit(t)
  BY <1>1 DEF Enter, IInv, TokensInScope, InScope, Gate!Admit
<1>2. ASSUME NEW t \in Gated, DropToken(t) PROVE Gate!Leave(t)
  BY <1>2 DEF DropToken, IInv, TokensInScope, InScope, Gate!Leave
<1>3. ASSUME Terminate PROVE Gate!Close
  BY <1>3 DEF Terminate, SetProc, Gate!Close
<1>4. ASSUME Exit PROVE Gate!Exit
  BY <1>4 DEF Exit, SetProc, Gate!Exit
<1>5. ASSUME Kill PROVE Gate!Close \/ UNCHANGED Gate!gateVars
  BY <1>5 DEF Kill, SetProc, Gate!Close
<1>6. ASSUME NEW t \in Gated, GatedNext(t), ~Enter(t), ~DropToken(t)
      PROVE  UNCHANGED Gate!gateVars
  BY <1>6 DEF GatedNext, Refuse, Lock, Locked, Spawn, Collect, Reject, Succeed, ReleaseGuard,
     AbortQueued, AbortAssigned, AbortExecuting
<1>7. ASSUME NEW t \in Hostnames, HostnameNext(t) PROVE UNCHANGED Gate!gateVars
  BY <1>7 DEF HostnameNext, HostnameBegin, HostnameEnd
<1>8. ASSUME NEW t \in Tasks, JobNext(t) PROVE UNCHANGED Gate!gateVars
  BY <1>8 DEF JobNext, JobBegin, JobCommit, JobFail, JobStep
<1>9. CASE UNCHANGED vars
  BY <1>9 DEF vars
<1> QED
  BY <1>1, <1>2, <1>3, <1>4, <1>5, <1>6, <1>7, <1>8, <1>9 DEF Next

\* The callers of enter() keep the protocol of the gate: each holds its token from
\* its admission to the end of its scope, and the process exits past none.
THEOREM CallersKeepTheGate == SafeSpec => TokensImplementGate
<1>1. Init => Gate!Init
  BY DEF Init, Gate!Init
<1>2. IInv /\ [Next]_vars => [Gate!Next]_(Gate!gateVars)
  BY GateStep
<1> QED
  BY <1>1, <1>2, InvariantHolds, PTL DEF SafeSpec, TokensImplementGate, Gate!SafeSpec

--------------------------------------------------------------------------------
(* The privileged interface *)

\* The local state of one call.
CallInv(t) ==
  /\ stage[t] = "unanswered" => pc[t] = "idle"
  /\ stage[t] = "run" => pc[t] \in {"entered", "queued"}
  /\ stage[t] \in {"checking", "applying"} => pc[t] \in {"executing", "leaving", "dropping"}
  /\ stage[t] = "over" => pc[t] \in {"idle", "settled"}
  /\ job[t] # "none" => stage[t] = "applying" /\ pc[t] = "executing"
  /\ pc[t] \in {"idle", "entered", "queued", "executing"} => result[t] = "none"
  /\ pc[t] \in {"leaving", "dropping"} => result[t] \in {"ok", "err"}
  /\ pc[t] \in {"executing", "leaving"} => method[t] \in Served
  /\ pc[t] \notin {"executing", "leaving"} => method[t] = "none" /\ applied[t] = 0 /\ t \notin failed
  /\ dry => left[t] = 0

\* ... and what it has made of its transactions.
CountInv(t) ==
  /\ applied[t] + left[t] + (IF job[t] \in {"pending", "writing"} THEN 1 ELSE 0) <= MaxNames
  /\ stage[t] = "checking" => applied[t] = 0 /\ t \notin failed
  /\ t \in failed => job[t] = "err" \/ result[t] = "err"
  /\ method[t] \in Methods \ Modules =>
       /\ left[t] <= 1
       /\ job[t] # "none" => left[t] = 0
       /\ left[t] = 1 \/ job[t] \in {"pending", "writing", "err"} => applied[t] = 0
  /\ pc[t] = "leaving" /\ result[t] = "ok" => left[t] = 0
  /\ pc[t] = "leaving" /\ result[t] = "err" => applied[t] = 0 \/ method[t] \in Modules

CallsInv == \A t \in Commands : CallInv(t) /\ CountInv(t)

ReadyToEnrol ==
  \A t \in Commands :
    /\ method[t] = "EnableSecureBoot" /\ stage[t] = "applying" /\ pc[t] = "executing"
    /\ left[t] = 1 \/ job[t] \in {"pending", "writing"}
    => firmware = "SetupMode"

HiddenIsKnown ==
  \A t \in Commands, c \in Caches :
    <<t, c>> \in unseen =>
      /\ pc[t] \in {"executing", "leaving", "dropping", "settled"}
      /\ pc[t] = "executing" => c \in Affects(method[t])
      /\ pc[t] # "executing" => result[t] = "err"

DInv ==
  /\ IInv
  /\ DaemonTypeOK
  /\ CallsInv
  /\ ReadyToEnrol
  /\ HiddenIsKnown

--------------------------------------------------------------------------------
(* A step of the daemon is a step of the transactions, or none of theirs *)

\* The transactions do not see who asks, why a command refuses, or the firmware.
LEMMA StepRefines == [DaemonNext]_daemonVars => [Next]_vars
<1> SUFFICES ASSUME DaemonNext PROVE [Next]_vars
  BY DEF daemonVars
<1> USE DEF Gated, Tasks
<1>1. CASE StartUp
  BY <1>1 DEF StartUp, Serve, Listen, HandleSignals, Starting
<1>2. CASE StartFails \/ UnhandledSignal \/ Ending \/ Overdue
  BY <1>2 DEF StartFails, UnhandledSignal, Ending, Overdue, Next
<1>3. ASSUME NEW t \in Commands, Deny(t) \/ SetOptions(t) \/ EnterCall(t) \/ RefuseCall(t)
      PROVE  UNCHANGED vars \/ GatedNext(t)
  BY <1>3 DEF Deny, SetOptions, EnterCall, RefuseCall, GatedNext
<1>4. ASSUME NEW t \in Commands, CallProgress(t)
      PROVE  UNCHANGED vars \/ GatedNext(t)
  BY <1>4 DEF CallProgress, Dispatch, Begin, BeginLifecycle, BeginPlugin, BeginUpdate,
     BeginHardware, BeginSecureBoot, Executing, LookupFails, BadMode, NotEnrollable, Turndown,
     SpawnCall, CollectCall, SucceedCall, ReleaseCall, AnswerCall, GatedNext
<1>5. ASSUME NEW t \in Commands, CallJob(t) PROVE JobNext(t)
  BY <1>5 DEF CallJob, BeginCallJob, CommitCall, FailCall, JobNext
<1>6. ASSUME NEW t \in Reports \cup Watchers, ListenerNext(t) PROVE GatedNext(t) \/ JobNext(t)
  BY <1>6 DEF ListenerNext
<1>7. ASSUME NEW t \in Hostnames, HostnameReaction(t) PROVE HostnameNext(t) \/ JobNext(t)
  BY <1>7 DEF HostnameReaction
<1> QED
  BY <1>1, <1>2, <1>3, <1>4, <1>5, <1>6, <1>7 DEF DaemonNext, CallNext, Next

\* The daemon, from its start, is a system of transactions: whatever Transactions
\* guarantees of the guard, the token and the exit, the daemon does.
THEOREM DaemonRunsTransactions == DaemonSafeSpec => SafeSpec
<1>1. DaemonInit => Init
  BY DEF DaemonInit
<1>2. [DaemonNext]_daemonVars => [Next]_vars
  BY StepRefines
<1> QED
  BY <1>1, <1>2, PTL DEF DaemonSafeSpec, SafeSpec

--------------------------------------------------------------------------------
\* Nothing has been called at the start.
LEMMA DaemonInitInductive == DaemonInit => DInv
<1> SUFFICES ASSUME DaemonInit PROVE DInv
  OBVIOUS
<1> USE TasksAssumption, DaemonAssumption DEF Gated, Tasks
<1>1. IInv
  BY InitInductive DEF DaemonInit
<1>2. DaemonTypeOK
  BY DEF DaemonInit, DaemonTypeOK, Phases
<1>3. CallsInv
  BY DEF DaemonInit, Init, CallsInv, CallInv, CountInv, Methods, Installers, Uninstallers, SecureBoot
<1>4. ReadyToEnrol /\ HiddenIsKnown
  BY DEF DaemonInit, Init, ReadyToEnrol, HiddenIsKnown
<1> QED
  BY <1>1, <1>2, <1>3, <1>4 DEF DInv

--------------------------------------------------------------------------------
(* What a step leaves alone *)

\* The variables of one call.
SameCall(t) ==
  /\ pc'[t] = pc[t] /\ left'[t] = left[t] /\ job'[t] = job[t] /\ result'[t] = result[t]
  /\ stage'[t] = stage[t] /\ method'[t] = method[t] /\ applied'[t] = applied[t]
  /\ t \in failed' <=> t \in failed

\* A step of main(), of a listener's transaction or of a signal touches no call.
LEMMA OthersKeepCalls ==
  ASSUME TypeOK, DaemonTypeOK,
         \/ StartUp \/ StartFails \/ UnhandledSignal \/ Ending \/ Overdue
         \/ \E u \in Reports \cup Watchers : ListenerNext(u)
         \/ \E u \in Hostnames : HostnameReaction(u)
  PROVE  /\ \A t \in Commands : SameCall(t)
         /\ dry' = dry /\ firmware' = firmware /\ unseen' = unseen
         /\ UNCHANGED callVars
<1> USE TasksAssumption DEF Gated, Tasks, SameCall, callVars, TypeOK, DaemonTypeOK, Goto
<1>1. CASE StartUp
  BY <1>1 DEF StartUp, Serve, Listen, HandleSignals, Starting, vars
<1>2. CASE StartFails \/ UnhandledSignal \/ Ending \/ Overdue
  BY <1>2 DEF StartFails, UnhandledSignal, Ending, Overdue, Terminate, Exit, Kill, SetProc
<1>3. ASSUME NEW u \in Tasks \ Commands, JobNext(u), UNCHANGED <<phase, dry, callVars>>
      PROVE  (\A t \in Commands : SameCall(t)) /\ unseen' = unseen
  <2>1. {u} \cap Commands = {}
    OBVIOUS
  <2>2. unseen' = unseen
    BY <1>3, <2>1 DEF JobNext, JobBegin, JobCommit, JobFail
  <2> QED
    BY <1>3, <2>2 DEF JobNext, JobBegin, JobCommit, JobFail, JobStep
<1>4. ASSUME NEW u \in Gated \ Commands, GatedNext(u), UNCHANGED <<phase, dry, callVars>>
      PROVE  (\A t \in Commands : SameCall(t)) /\ unseen' = unseen
  <2>1. CASE Succeed(u)
    <3>1. unseen' = unseen
      BY <2>1 DEF Succeed, StillUnseen
    <3> QED
      BY <1>4, <2>1, <3>1 DEF Succeed
  <2>2. CASE Enter(u)
    BY <1>4, <2>2 DEF Enter
  <2>3. CASE Refuse(u) \/ Lock(u) \/ Locked(u)
    BY <1>4, <2>3 DEF Refuse, Lock, Locked
  <2>4. CASE Spawn(u) \/ Collect(u) \/ Reject(u)
    BY <1>4, <2>4 DEF Spawn, Collect, Reject
  <2>5. CASE ReleaseGuard(u) \/ DropToken(u)
    BY <1>4, <2>5 DEF ReleaseGuard, DropToken
  <2>6. CASE AbortQueued(u) \/ AbortAssigned(u) \/ AbortExecuting(u)
    BY <1>4, <2>6 DEF AbortQueued, AbortAssigned, AbortExecuting, AbortTask
  <2> QED
    BY <1>4, <2>1, <2>2, <2>3, <2>4, <2>5, <2>6 DEF GatedNext
<1>5. ASSUME NEW u \in Hostnames, HostnameNext(u), UNCHANGED <<phase, dry, callVars>>
      PROVE  (\A t \in Commands : SameCall(t)) /\ unseen' = unseen
  BY <1>5 DEF HostnameNext, HostnameBegin, HostnameEnd
<1> QED
  BY <1>1, <1>2, <1>3, <1>4, <1>5 DEF ListenerNext, HostnameReaction

\* A step of one call touches no other.
LEMMA CallsAreApart ==
  ASSUME TypeOK, DaemonTypeOK, NEW u \in Commands, CallNext(u), NEW t \in Commands, t # u
  PROVE  SameCall(t) /\ dry' = dry
<1> USE TasksAssumption DEF Gated, Tasks, SameCall, TypeOK, DaemonTypeOK, Goto, Outside
<1>1. CASE Deny(u) \/ SetOptions(u)
  BY <1>1 DEF Deny, SetOptions, vars
<1>2. CASE EnterCall(u) \/ RefuseCall(u)
  BY <1>2 DEF EnterCall, RefuseCall, Enter, Refuse
<1>3. CASE Lock(u) /\ UNCHANGED <<phase, dry, callVars>>
  BY <1>3 DEF Lock, callVars
<1>4. CASE Dispatch(u)
  BY <1>4 DEF Dispatch, Locked
<1>5. CASE Begin(u)
  BY <1>5 DEF Begin, BeginLifecycle, BeginPlugin, BeginUpdate, BeginHardware, BeginSecureBoot,
     Executing, vars
<1>6. CASE LookupFails(u) \/ BadMode(u) \/ NotEnrollable(u)
  BY <1>6 DEF LookupFails, BadMode, NotEnrollable, Turndown, Reject, callVars
<1>7. CASE SpawnCall(u) \/ CollectCall(u) \/ SucceedCall(u)
  BY <1>7 DEF SpawnCall, CollectCall, SucceedCall, Spawn, Collect, Succeed, callVars
<1>8. CASE ReleaseCall(u) \/ AnswerCall(u)
  BY <1>8 DEF ReleaseCall, AnswerCall, ReleaseGuard, DropToken
<1>9. CASE CallJob(u)
  BY <1>9 DEF CallJob, BeginCallJob, CommitCall, FailCall, JobBegin, JobCommit, JobFail,
     JobStep, callVars
<1> QED
  BY <1>1, <1>2, <1>3, <1>4, <1>5, <1>6, <1>7, <1>8, <1>9 DEF CallNext, CallProgress

\* The two invariants of a call read nothing else.
LEMMA SameCallSameInv ==
  ASSUME NEW t \in Commands, SameCall(t), dry' = dry, CallInv(t), CountInv(t)
  PROVE  CallInv(t)' /\ CountInv(t)'
BY DEF SameCall, CallInv, CountInv

--------------------------------------------------------------------------------
(* A call keeps its own invariant. In each step: the types, where it stands,   *)
(* and what it has made.                                                       *)

\* Its counters and its method keep their types.
LEMMA CallKeepsTypes ==
  ASSUME TypeOK, DaemonTypeOK, NEW t \in Commands, CallInv(t), CountInv(t), CallNext(t)
  PROVE  DaemonTypeOK'
<1> DEFINE Rest == /\ phase \in Phases
                   /\ stage \in [Commands -> {"unanswered", "run", "checking", "applying", "over"}]
                   /\ method \in [Commands -> Served \cup {"none"}]
                   /\ applied \in [Commands -> 0 .. MaxNames]
                   /\ failed \subseteq Commands
                   /\ firmware \in FirmwareStates
<1>0. Rest
  BY DEF DaemonTypeOK
<1> USE <1>0, TasksAssumption DEF Outside
<1> SUFFICES Rest' /\ dry' = dry
  BY DEF DaemonTypeOK
<1>1. CASE Deny(t) \/ SetOptions(t)
  BY <1>1 DEF Deny, SetOptions
<1>2. CASE EnterCall(t) \/ RefuseCall(t)
  BY <1>2 DEF EnterCall, RefuseCall
<1>3. CASE Lock(t) /\ UNCHANGED <<phase, dry, callVars>>
  BY <1>3 DEF callVars
<1>4. CASE Dispatch(t)
  BY <1>4 DEF Dispatch
<1>5. CASE Begin(t)
  BY <1>5 DEF Begin, BeginLifecycle, BeginPlugin, BeginUpdate, BeginHardware, BeginSecureBoot,
     Executing
<1>6. CASE LookupFails(t) \/ BadMode(t) \/ NotEnrollable(t)
  BY <1>6 DEF LookupFails, BadMode, NotEnrollable, Turndown, callVars
<1>7. CASE SpawnCall(t) \/ CollectCall(t) \/ SucceedCall(t)
  BY <1>7 DEF SpawnCall, CollectCall, SucceedCall, callVars
<1>8. CASE ReleaseCall(t) \/ AnswerCall(t)
  BY <1>8 DEF ReleaseCall, AnswerCall
<1>9. CASE BeginCallJob(t)
  BY <1>9 DEF BeginCallJob, callVars
<1>10. CASE CommitCall(t)
  <2>1. job[t] = "writing"
    BY <1>10 DEF CommitCall, JobCommit, JobStep
  <2>2. applied[t] + 1 \in 0 .. MaxNames
    BY <2>1 DEF CountInv, TypeOK, Gated, Tasks
  <2> QED
    BY <1>10, <2>2 DEF CommitCall, Enrol, FirmwareStates
<1>11. CASE FailCall(t)
  BY <1>11 DEF FailCall, Enrol, FirmwareStates
<1> QED
  BY <1>1, <1>2, <1>3, <1>4, <1>5, <1>6, <1>7, <1>8, <1>9, <1>10, <1>11
     DEF CallNext, CallProgress, CallJob

\* A commit is one transaction less under way and one more made.
LEMMA CommitKeepsInv ==
  ASSUME TypeOK, DaemonTypeOK, NEW t \in Commands, CallInv(t), CountInv(t), CommitCall(t)
  PROVE  CallInv(t)' /\ CountInv(t)'
<1>1. /\ job[t] = "writing" /\ job' = [job EXCEPT ![t] = "ok"]
      /\ applied' = [applied EXCEPT ![t] = @ + 1]
      /\ UNCHANGED <<pc, left, result, dry, stage, method, failed>>
  BY DEF CommitCall, JobCommit, JobStep
<1>2. job'[t] = "ok" /\ applied'[t] = applied[t] + 1
  BY <1>1 DEF TypeOK, DaemonTypeOK, Gated, Tasks
<1>3. applied[t] \in Nat /\ left[t] \in Nat /\ MaxNames \in Nat
  BY TasksAssumption DEF TypeOK, DaemonTypeOK, Gated, Tasks
<1>4. CallInv(t)'
  BY <1>1, <1>2 DEF CallInv
<1>5. /\ applied[t] + left[t] + 1 <= MaxNames
      /\ stage[t] # "checking" /\ t \notin failed /\ pc[t] = "executing"
      /\ method[t] \in Methods \ Modules => left[t] = 0
  BY <1>1, <1>3 DEF CallInv, CountInv
<1>6. CountInv(t)'
  BY <1>1, <1>2, <1>3, <1>5 DEF CountInv
<1> QED
  BY <1>4, <1>6

\* Where it stands and what it has made go together.
LEMMA CallKeepsInv ==
  ASSUME TypeOK, TypeOK', DaemonTypeOK, DaemonTypeOK',
         NEW t \in Commands, CallInv(t), CountInv(t), CallNext(t)
  PROVE  CallInv(t)' /\ CountInv(t)'
<1> USE TasksAssumption, DaemonAssumption
    DEF Gated, Tasks, TypeOK, DaemonTypeOK, Goto, Outside, CallInv, CountInv
<1>0. "none" \notin Methods
  BY DEF Methods, Installers, Uninstallers, SecureBoot
<1> USE <1>0
<1>1. CASE Deny(t) \/ SetOptions(t)
  BY <1>1 DEF Deny, SetOptions, vars
<1>2. CASE EnterCall(t)
  <2>1. PICK n \in 0 .. MaxNames : left' = [left EXCEPT ![t] = n]
    BY <1>2 DEF EnterCall, Enter, Sizes
  <2> QED
    BY <1>2, <2>1 DEF EnterCall, Enter, AsksNothingIfDry
<1>3. CASE RefuseCall(t)
  BY <1>3 DEF RefuseCall, Refuse
<1>4. CASE Lock(t) /\ UNCHANGED <<phase, dry, callVars>>
  BY <1>4 DEF Lock, callVars
<1>5. CASE Dispatch(t)
  <2>1. PICK m \in Served : (dry \/ left[t] = 1 \/ m \in Modules) /\ method' = [method EXCEPT ![t] = m]
    BY <1>5 DEF Dispatch
  <2> QED
    BY <1>5, <2>1 DEF Dispatch, Locked
<1>6. CASE Begin(t)
  BY <1>6 DEF Begin, BeginLifecycle, BeginPlugin, BeginUpdate, BeginHardware, BeginSecureBoot,
     Executing, vars
<1>7. CASE LookupFails(t) \/ BadMode(t) \/ NotEnrollable(t)
  BY <1>7 DEF LookupFails, BadMode, NotEnrollable, Turndown, Reject, callVars
<1>8. CASE SpawnCall(t)
  BY <1>8 DEF SpawnCall, Spawn, callVars
<1>9. CASE CollectCall(t)
  BY <1>9 DEF CollectCall, Collect, callVars
<1>10. CASE SucceedCall(t)
  BY <1>10 DEF SucceedCall, Succeed, callVars
<1>11. CASE ReleaseCall(t)
  BY <1>11 DEF ReleaseCall, ReleaseGuard
<1>12. CASE AnswerCall(t)
  BY <1>12 DEF AnswerCall, DropToken
<1>13. CASE BeginCallJob(t)
  BY <1>13 DEF BeginCallJob, JobBegin, JobStep, callVars
<1>14. CASE CommitCall(t)
  BY <1>14, CommitKeepsInv
<1>15. CASE FailCall(t)
  BY <1>15 DEF FailCall, JobFail, JobStep
<1> QED
  BY <1>1, <1>2, <1>3, <1>4, <1>5, <1>6, <1>7, <1>8, <1>9, <1>10, <1>11, <1>12, <1>13,
     <1>14, <1>15
     DEF CallNext, CallProgress, CallJob

\* What only changes the phase keeps the types.
LEMMA SameTypes ==
  ASSUME DaemonTypeOK, phase' \in Phases, dry' = dry, UNCHANGED callVars
  PROVE  DaemonTypeOK'
<1>1. stage' = stage /\ method' = method /\ applied' = applied /\ failed' = failed
      /\ firmware' = firmware
  BY DEF callVars
<1> QED
  BY <1>1 DEF DaemonTypeOK

\* The calls keep their invariants, and the state of the interface its types.
LEMMA CallsInductive ==
  ASSUME DInv, [DaemonNext]_daemonVars
  PROVE  TypeOK /\ TypeOK' /\ DaemonTypeOK' /\ CallsInv'
<1>0. DaemonTypeOK
  BY DEF DInv
<1>1. TypeOK /\ TypeOK'
  BY TypeInductive, StepRefines DEF DInv, IInv
<1>2. ASSUME NEW u \in Commands, CallNext(u) PROVE DaemonTypeOK' /\ CallsInv'
  <2>1. DaemonTypeOK'
    BY <1>1, <1>2, CallKeepsTypes DEF DInv, CallsInv
  <2>2. CallInv(u)' /\ CountInv(u)'
    BY <1>1, <1>2, <2>1, CallKeepsInv DEF DInv, CallsInv
  <2>3. ASSUME NEW t \in Commands, t # u PROVE CallInv(t)' /\ CountInv(t)'
    BY <1>1, <1>2, <2>3, CallsAreApart, SameCallSameInv DEF DInv, CallsInv
  <2> QED
    BY <2>1, <2>2, <2>3 DEF CallsInv
<1>3. CASE \/ StartUp \/ StartFails \/ UnhandledSignal \/ Ending \/ Overdue
           \/ \E u \in Reports \cup Watchers : ListenerNext(u)
           \/ \E u \in Hostnames : HostnameReaction(u)
  <2>1. /\ \A t \in Commands : SameCall(t)
        /\ dry' = dry /\ UNCHANGED callVars
    BY <1>1, <1>3, OthersKeepCalls DEF DInv
  <2>2. phase' \in Phases
    <3>1. phase' = phase \/ phase' \in {"serving", "listening", "ready"}
      BY <1>3 DEF StartUp, Serve, Listen, HandleSignals, Starting, StartFails, UnhandledSignal,
         Ending, Overdue, ListenerNext, HostnameReaction
    <3> QED
      BY <3>1 DEF DInv, DaemonTypeOK, Phases
  <2>3. DaemonTypeOK'
    BY <1>0, <2>1, <2>2, SameTypes
  <2> QED
    BY <1>1, <2>1, <2>3, SameCallSameInv DEF DInv, CallsInv
<1>4. CASE UNCHANGED daemonVars
  <2>1. DaemonTypeOK'
    <3>1. DaemonTypeOK => phase \in Phases
      BY DEF DaemonTypeOK
    <3>2. UNCHANGED <<phase, dry, callVars>>
      BY <1>4 DEF daemonVars
    <3> QED
      BY <1>0, <3>1, <3>2, SameTypes
  <2>2. dry' = dry /\ \A t \in Commands : SameCall(t)
    BY <1>4 DEF daemonVars, vars, callVars, SameCall
  <2> QED
    BY <1>1, <2>1, <2>2, SameCallSameInv DEF DInv, CallsInv
<1> QED
  BY <1>1, <1>2, <1>3, <1>4 DEF DaemonNext

--------------------------------------------------------------------------------
(* The firmware, and the caches *)

\* Only the holder of the guard can take the firmware out of Setup Mode, and it has
\* no transaction left then.
LEMMA EnrolInductive ==
  ASSUME DInv, [DaemonNext]_daemonVars
  PROVE  ReadyToEnrol'
<1>0. TypeOK /\ DaemonTypeOK /\ CallsInv /\ PermitIsHeld /\ ReadyToEnrol
  BY DEF DInv, IInv
<1>1. ASSUME NEW u \in Commands, CallNext(u) PROVE ReadyToEnrol'
  <2> SUFFICES ASSUME NEW t \in Commands,
                      method'[t] = "EnableSecureBoot", stage'[t] = "applying", pc'[t] = "executing",
                      left'[t] = 1 \/ job'[t] \in {"pending", "writing"}
               PROVE  firmware' = "SetupMode"
    BY DEF ReadyToEnrol
  <2>1. firmware' = firmware \/ (job[u] = "writing" /\ job'[u] \in {"ok", "err"})
    <3>1. CASE Deny(u) \/ SetOptions(u) \/ EnterCall(u) \/ RefuseCall(u)
      BY <3>1 DEF Deny, SetOptions, EnterCall, RefuseCall, Outside
    <3>2. CASE CallProgress(u)
      BY <3>2 DEF CallProgress, Dispatch, Begin, BeginLifecycle, BeginPlugin, BeginUpdate,
         BeginHardware, BeginSecureBoot, Executing, Outside, LookupFails, BadMode, NotEnrollable,
         Turndown, SpawnCall, CollectCall, SucceedCall, ReleaseCall, AnswerCall, callVars
    <3>3. CASE CallJob(u)
      BY <1>0, <3>3 DEF CallJob, BeginCallJob, CommitCall, FailCall, JobBegin, JobCommit, JobFail,
         JobStep, callVars, TypeOK, Gated, Tasks
    <3> QED
      BY <1>1, <3>1, <3>2, <3>3 DEF CallNext
  <2>2. CASE t # u
    <3>1. SameCall(t)
      BY <1>0, <1>1, <2>2, CallsAreApart
    <3>2. firmware = "SetupMode" /\ holder = t
      BY <1>0, <3>1 DEF SameCall, ReadyToEnrol, PermitIsHeld, Gated
    <3>3. job[u] = "writing" => holder = u
      BY <1>0 DEF CallsInv, CallInv, PermitIsHeld, Gated
    <3> QED
      BY <2>1, <2>2, <3>2, <3>3
  <2>3. CASE t = u
    <3> USE <1>0, <2>3, TasksAssumption DEF TypeOK, Gated, Tasks, DaemonTypeOK
    <3>0. CallInv(u) /\ CountInv(u)
      BY DEF CallsInv
    <3>1. CASE Deny(u) \/ SetOptions(u) \/ EnterCall(u) \/ RefuseCall(u)
      BY <3>1 DEF Deny, SetOptions, EnterCall, RefuseCall, Outside
    <3>2. CASE Lock(u) /\ UNCHANGED <<phase, dry, callVars>>
      BY <3>2 DEF Lock, Goto, callVars
    <3>3. CASE Dispatch(u)
      BY <3>3 DEF Dispatch
    <3>4. CASE Begin(u)
      BY <3>4 DEF Begin, BeginLifecycle, BeginPlugin, BeginUpdate, BeginHardware, BeginSecureBoot,
         Executing, Outside, Installers, Uninstallers, Plugins
    <3>5. CASE LookupFails(u) \/ BadMode(u) \/ NotEnrollable(u)
      BY <3>5 DEF LookupFails, BadMode, NotEnrollable, Turndown, callVars
    <3>6. CASE SpawnCall(u)
      <4>1. "EnableSecureBoot" \in Methods \ Modules
        BY DEF Methods, Modules, SecureBoot
      <4>2. UNCHANGED callVars /\ pc[u] = "executing" /\ left[u] > 0
        BY <3>6 DEF SpawnCall, Spawn, Goto
      <4>3. left[u] = 1
        BY <3>0, <4>1, <4>2 DEF CountInv, callVars
      <4> QED
        BY <4>2, <4>3 DEF ReadyToEnrol, callVars
    <3>7. CASE CollectCall(u)
      <4>1. "EnableSecureBoot" \in Methods \ Modules
        BY DEF Methods, Modules, SecureBoot
      <4> QED
        BY <3>0, <3>7, <4>1 DEF CountInv, CollectCall, Collect, callVars
    <3>8. CASE SucceedCall(u) \/ ReleaseCall(u) \/ AnswerCall(u)
      BY <3>8 DEF SucceedCall, Succeed, ReleaseCall, ReleaseGuard, AnswerCall, DropToken, Goto
    <3>9. CASE BeginCallJob(u)
      BY <3>0, <3>9 DEF BeginCallJob, JobBegin, JobStep, callVars, ReadyToEnrol
    <3>10. CASE CommitCall(u) \/ FailCall(u)
      <4>1. "EnableSecureBoot" \in Methods \ Modules
        BY DEF Methods, Modules, SecureBoot
      <4> QED
        BY <3>0, <3>10, <4>1 DEF CountInv, CommitCall, FailCall, JobCommit, JobFail, JobStep
    <3> QED
      BY <1>1, <3>1, <3>2, <3>3, <3>4, <3>5, <3>6, <3>7, <3>8, <3>9, <3>10
         DEF CallNext, CallProgress, CallJob
  <2> QED
    BY <2>2, <2>3
<1>2. CASE \/ StartUp \/ StartFails \/ UnhandledSignal \/ Ending \/ Overdue
           \/ \E u \in Reports \cup Watchers : ListenerNext(u)
           \/ \E u \in Hostnames : HostnameReaction(u)
  <2>1. firmware' = firmware /\ \A t \in Commands : SameCall(t)
    BY <1>0, <1>2, OthersKeepCalls
  <2> QED
    BY <1>0, <2>1 DEF ReadyToEnrol, SameCall
<1>3. CASE UNCHANGED daemonVars
  BY <1>0, <1>3 DEF ReadyToEnrol, daemonVars, vars, callVars
<1> QED
  BY <1>1, <1>2, <1>3 DEF DaemonNext

\* Another call's step hides nothing of a call, and its own hides only what its
\* method affects, which its success shows again.
LEMMA HiddenInductive ==
  ASSUME DInv, [DaemonNext]_daemonVars
  PROVE  HiddenIsKnown'
<1>0. TypeOK /\ DaemonTypeOK /\ CallsInv /\ HiddenIsKnown
  BY DEF DInv, IInv
<1>1. ASSUME NEW u \in Commands, CallNext(u) PROVE HiddenIsKnown'
  <2> SUFFICES ASSUME NEW t \in Commands, NEW c \in Caches, <<t, c>> \in unseen'
               PROVE  /\ pc'[t] \in {"executing", "leaving", "dropping", "settled"}
                      /\ pc'[t] = "executing" => c \in Affects(method'[t])
                      /\ pc'[t] # "executing" => result'[t] = "err"
    BY DEF HiddenIsKnown, Affects
  <2> DEFINE Known == /\ pc[t] \in {"executing", "leaving", "dropping", "settled"}
                      /\ pc[t] = "executing" => c \in Affects(method[t])
                      /\ pc[t] # "executing" => result[t] = "err"
  <2>0. <<t, c>> \in unseen => Known
    BY <1>0 DEF HiddenIsKnown
  <2>1. CASE t # u
    <3>1. SameCall(t)
      BY <1>0, <1>1, <2>1, CallsAreApart
    <3>2. <<t, c>> \in unseen
      <4>1. CASE CommitCall(u)
        BY <2>1, <4>1 DEF CommitCall
      <4>2. CASE SucceedCall(u)
        BY <4>2 DEF SucceedCall, StillUnseen
      <4>3. CASE ~CommitCall(u) /\ ~SucceedCall(u)
        BY <1>1, <4>3 DEF CallNext, CallProgress, CallJob, Deny, SetOptions, EnterCall, Enter,
           RefuseCall, Refuse, Lock, Dispatch, Locked, Begin, BeginLifecycle, BeginPlugin,
           BeginUpdate, BeginHardware, BeginSecureBoot, Executing, LookupFails, BadMode,
           NotEnrollable, Turndown, Reject, SpawnCall, Spawn, CollectCall, Collect, ReleaseCall,
           ReleaseGuard, AnswerCall, DropToken, BeginCallJob, JobBegin, FailCall, JobFail, vars
      <4> QED
        BY <4>1, <4>2, <4>3
    <3> QED
      BY <2>0, <3>1, <3>2 DEF SameCall
  <2>2. CASE t = u
    <3>0. CallInv(u)
      BY <1>0 DEF CallsInv
    <3> USE <1>0, <2>0, <2>2, <3>0, TasksAssumption
        DEF Gated, Tasks, TypeOK, DaemonTypeOK, Goto, Outside
    <3>1. CASE Deny(u) \/ SetOptions(u)
      BY <3>1 DEF Deny, SetOptions, vars
    <3>2. CASE EnterCall(u) \/ RefuseCall(u)
      BY <3>2 DEF EnterCall, RefuseCall, Enter, Refuse
    <3>3. CASE Lock(u) /\ UNCHANGED <<phase, dry, callVars>>
      BY <3>3 DEF Lock, callVars
    <3>4. CASE Dispatch(u)
      BY <3>4 DEF Dispatch, Locked
    <3>5. CASE Begin(u)
      BY <3>5 DEF Begin, BeginLifecycle, BeginPlugin, BeginUpdate, BeginHardware,
         BeginSecureBoot, Executing, vars
    <3>6. CASE LookupFails(u) \/ BadMode(u) \/ NotEnrollable(u)
      BY <3>6 DEF LookupFails, BadMode, NotEnrollable, Turndown, Reject, callVars
    <3>7. CASE SpawnCall(u) \/ CollectCall(u)
      BY <3>7 DEF SpawnCall, Spawn, CollectCall, Collect, callVars
    <3>8. CASE SucceedCall(u)
      <4>1. pc[u] = "executing" /\ <<u, c>> \in unseen /\ c \notin Invalidates(method[u])
        BY <3>8 DEF SucceedCall, Succeed, StillUnseen
      <4>2. Invalidates(method[u]) = Affects(method[u])
        BY DEF Invalidates, Affects, Installers, Uninstallers
      <4> QED
        BY <4>1, <4>2
    <3>9. CASE ReleaseCall(u) \/ AnswerCall(u)
      BY <3>9 DEF ReleaseCall, ReleaseGuard, AnswerCall, DropToken
    <3>10. CASE BeginCallJob(u) \/ FailCall(u)
      BY <3>10 DEF BeginCallJob, JobBegin, FailCall, JobFail, JobStep, callVars
    <3>11. CASE CommitCall(u)
      <4>1. pc[u] = "executing" /\ UNCHANGED <<pc, method>>
        BY <3>11 DEF CommitCall, JobCommit, JobStep, CallInv
      <4>2. <<t, c>> \in unseen \/ c \in Affects(method[u])
        BY <3>11 DEF CommitCall
      <4> QED
        BY <4>1, <4>2
    <3> QED
      BY <1>1, <3>1, <3>2, <3>3, <3>4, <3>5, <3>6, <3>7, <3>8, <3>9, <3>10, <3>11
         DEF CallNext, CallProgress, CallJob
  <2> QED
    BY <2>1, <2>2
<1>2. CASE \/ StartUp \/ StartFails \/ UnhandledSignal \/ Ending \/ Overdue
           \/ \E u \in Reports \cup Watchers : ListenerNext(u)
           \/ \E u \in Hostnames : HostnameReaction(u)
  <2>1. unseen' = unseen /\ \A t \in Commands : SameCall(t)
    BY <1>0, <1>2, OthersKeepCalls
  <2> QED
    BY <1>0, <2>1 DEF HiddenIsKnown, SameCall, Affects
<1>3. CASE UNCHANGED daemonVars
  BY <1>0, <1>3 DEF HiddenIsKnown, daemonVars, vars, callVars, Affects
<1> QED
  BY <1>1, <1>2, <1>3 DEF DaemonNext

\* Together.
LEMMA DaemonInductive == DInv /\ [DaemonNext]_daemonVars => DInv'
<1> SUFFICES ASSUME DInv, [DaemonNext]_daemonVars PROVE DInv'
  OBVIOUS
<1>1. IInv'
  BY StepRefines, Inductive DEF DInv
<1>2. DaemonTypeOK' /\ CallsInv'
  BY CallsInductive
<1>3. ReadyToEnrol' /\ HiddenIsKnown'
  BY EnrolInductive, HiddenInductive
<1> QED
  BY <1>1, <1>2, <1>3 DEF DInv

LEMMA DaemonInvariant == DaemonSafeSpec => []DInv
BY DaemonInitInductive, DaemonInductive, PTL DEF DaemonSafeSpec

--------------------------------------------------------------------------------
(* What a client of the interface can rely on *)

\* The state of the interface is always of its type (main.rs, daemon/mod.rs).
THEOREM DaemonTypeCorrect == DaemonSafeSpec => []DaemonTypeOK
<1>1. DInv => DaemonTypeOK
  BY DEF DInv
<1> QED
  BY <1>1, DaemonInvariant, PTL

\* Keys are enrolled only into a firmware in Setup Mode, however many calls have
\* found it so (secure_boot.rs): whoever checked is under the guard until its job is
\* over, and nobody else's job can run meanwhile.
THEOREM EnrolsInSetupMode == DaemonSafeSpec => []EnrolsOnlyInSetupMode
<1>1. DInv => EnrolsOnlyInSetupMode
  BY DEF DInv, CallsInv, CallInv, ReadyToEnrol, EnrolsOnlyInSetupMode
<1> QED
  BY <1>1, DaemonInvariant, PTL

\* A reply of success means every transaction was committed, one of error that none
\* was, unless of a list of modules (Daemon::run and the loops of command/module.rs).
THEOREM ReplyIsTrue == DaemonSafeSpec => []ReplyTellsTheOutcome
<1>1. DInv => ReplyTellsTheOutcome
  BY DEF DInv, CallsInv, CallInv, CountInv, ReplyTellsTheOutcome
<1> QED
  BY <1>1, DaemonInvariant, PTL

\* What a command wrote is in nobody's stale cache once its caller is told of success
\* (Daemon::run): what it may hide is what its name is known to affect.
THEOREM SuccessIsVisible == DaemonSafeSpec => []OkMeansVisible
<1>1. DInv => OkMeansVisible
  <2> SUFFICES ASSUME DInv, NEW w \in unseen
               PROVE  /\ result[w[1]] # "ok"
                      /\ result[w[1]] = "none" => holder = w[1]
    BY DEF OkMeansVisible
  <2>1. PICK t \in Commands, c \in Caches : w = <<t, c>>
    BY DEF DInv, IInv, TypeOK
  <2>2. pc[t] = "executing" \/ result[t] = "err"
    BY <2>1 DEF DInv, HiddenIsKnown
  <2>3. pc[t] = "executing" => result[t] = "none" /\ holder = t
    BY DEF DInv, CallsInv, CallInv, IInv, PermitIsHeld, Gated
  <2> QED
    BY <2>1, <2>2, <2>3
<1> QED
  BY <1>1, DaemonInvariant, PTL

\* The daemon inherits what is proved of its transactions: those the guard covers are
\* apart (rebuild.rs), and its own exit interrupts none (shutdown.rs).
THEOREM DaemonKeepsTransactionsApart ==
  DaemonSafeSpec => [](CoveredExclusion /\ ExitSparesCovered)
BY DaemonRunsTransactions, CoveredTransactionsExclude, ExitSparesCoveredTransactions, PTL
================================================================================
