---------------------------- MODULE PidLockProofs ----------------------------
(* The theorems about PidLock, for any number of instances. *)
EXTENDS PidLock, TLAPS

\* Type correctness: every step leaves each variable in its type.
THEOREM TypeCorrect == Spec => []TypeOK
<1>1. Init => TypeOK
  BY NoPidAssumption DEF Init, TypeOK, PC, Auth
<1>2. TypeOK /\ [Next]_vars => TypeOK'
  <2> SUFFICES ASSUME TypeOK, [Next]_vars PROVE TypeOK'
    OBVIOUS
  <2> USE DEF TypeOK, PC, Auth, GoTo, GoesTo, Unlink, Close, files
  <2>1. CASE UNCHANGED vars
    BY <2>1 DEF vars, process
  <2>2. ASSUME NEW p \in Pids, pid_lock_init(p) PROVE TypeOK'
    BY <2>2 DEF pid_lock_init
  <2>3. ASSUME NEW p \in Pids, InitFails(p) \/ SetupFails(p) \/ SaveFails(p) PROVE TypeOK'
    BY <2>3 DEF InitFails, SetupFails, SaveFails
  <2>4. ASSUME NEW p \in Pids, pid_lock_lock(p) PROVE TypeOK'
    BY <2>4 DEF pid_lock_lock
  <2>5. ASSUME NEW p \in Pids, pid_lock_handle_multiple_instance(p) PROVE TypeOK'
    <3>1. term' \in [Pids -> BOOLEAN]
      BY <2>5, Zenon DEF pid_lock_handle_multiple_instance, Kill
    <3> QED
      BY <2>5, <3>1 DEF pid_lock_handle_multiple_instance, Refused
  <2>6. ASSUME NEW p \in Pids, SaveTruncates(p) \/ SaveWrites(p) PROVE TypeOK'
    BY <2>6 DEF SaveTruncates, SaveWrites
  <2>7. ASSUME NEW p \in Pids,
               \/ pid_lock_mark_online(p) \/ AuthenticatesAgain(p)
               \/ pid_lock_clear_online(p) \/ FailsAgain(p) \/ Exit(p)
        PROVE  TypeOK'
    BY <2>7 DEF pid_lock_mark_online, AuthenticatesAgain, pid_lock_clear_online,
                FailsAgain, Exit
  <2>8. ASSUME NEW p \in Pids, DestroyClears(p) PROVE TypeOK'
    BY <2>8 DEF DestroyClears
  <2>9. ASSUME NEW p \in Pids, DestroyTruncates(p) \/ DestroyCloses(p) PROVE TypeOK'
    BY <2>9 DEF DestroyTruncates, DestroyCloses
  <2>10. ASSUME NEW p \in Pids, Killed(p) PROVE TypeOK'
    BY <2>10 DEF Killed
  <2> QED
    BY <2>1, <2>2, <2>3, <2>4, <2>5, <2>6, <2>7, <2>8, <2>9, <2>10 DEF Next
<1> QED
  BY <1>1, <1>2, PTL DEF Spec

\* One step keeps the lock with whoever is past pid_lock_lock.
LEMMA LockInvStep ==
    ASSUME "KILL_AND_START" \notin KillTypes, TypeOK, LockInv, [Next]_vars
    PROVE  LockInv'
<1> USE NoPidAssumption
      DEF TypeOK, PC, LockInv, Active, PidFileNamesNoOther, GoTo, GoesTo,
          Unlink, Close, files
<1>1. CASE UNCHANGED vars
  BY <1>1 DEF vars, process
<1>2. ASSUME NEW p \in Pids, pid_lock_init(p) PROVE LockInv'
  BY <1>2 DEF pid_lock_init
<1>3. ASSUME NEW p \in Pids, InitFails(p) \/ SetupFails(p) \/ SaveFails(p) PROVE LockInv'
  BY <1>3 DEF InitFails, SetupFails, SaveFails
<1>4. ASSUME NEW p \in Pids, pid_lock_lock(p) PROVE LockInv'
  BY <1>4 DEF pid_lock_lock
<1>5. ASSUME NEW p \in Pids, pid_lock_handle_multiple_instance(p) PROVE LockInv'
  BY <1>5 DEF pid_lock_handle_multiple_instance, Refused
<1>6. ASSUME NEW p \in Pids, SaveTruncates(p) \/ SaveWrites(p) PROVE LockInv'
  BY <1>6 DEF SaveTruncates, SaveWrites
<1>7. ASSUME NEW p \in Pids,
             \/ pid_lock_mark_online(p) \/ AuthenticatesAgain(p)
             \/ pid_lock_clear_online(p) \/ FailsAgain(p) \/ Exit(p)
      PROVE  LockInv'
  BY <1>7 DEF pid_lock_mark_online, AuthenticatesAgain, pid_lock_clear_online,
              FailsAgain, Exit
<1>8. ASSUME NEW p \in Pids, DestroyClears(p) PROVE LockInv'
  BY <1>8 DEF DestroyClears
<1>9. ASSUME NEW p \in Pids, DestroyTruncates(p) \/ DestroyCloses(p) PROVE LockInv'
  BY <1>9 DEF DestroyTruncates, DestroyCloses
<1>10. ASSUME NEW p \in Pids, Killed(p) PROVE LockInv'
  BY <1>10 DEF Killed
<1> QED
  BY <1>1, <1>2, <1>3, <1>4, <1>5, <1>6, <1>7, <1>8, <1>9, <1>10 DEF Next

\* Without the option that starts beside a locked PID file, LockInv is invariant.
THEOREM LockInvariant ==
    ASSUME "KILL_AND_START" \notin KillTypes
    PROVE  Spec => []LockInv
<1>1. Init => LockInv
  BY NoPidAssumption DEF Init, LockInv, Active, PidFileNamesNoOther
<1>2. TypeOK /\ LockInv /\ [Next]_vars => LockInv'
  BY LockInvStep
<1> QED
  BY <1>1, <1>2, TypeCorrect, PTL DEF Spec

\* pid_lock_lock lets one instance through at a time (config.h: "PID file, avoid
\* multiple instances"), even when instances fail half way or are killed.
THEOREM MutualExclusion ==
    ASSUME "KILL_AND_START" \notin KillTypes
    PROVE  Spec => []OneInstance
<1>1. LockInv => OneInstance
  BY DEF LockInv, OneInstance
<1> QED
  BY <1>1, LockInvariant, PTL

\* No instance that ends, is refused or fails half way leaves the PID file of a
\* running instance naming another process.
THEOREM PidFileSafe ==
    ASSUME "KILL_AND_START" \notin KillTypes
    PROVE  Spec => []PidFileNamesNoOther
<1>1. LockInv => PidFileNamesNoOther
  BY DEF LockInv
<1> QED
  BY <1>1, LockInvariant, PTL

\* A marker has an instance that got through to the server and was not thrown off
\* since, or one about to remove it, or is that of an instance that was killed:
\* with any -k option, any number of instances and any of them failing half way.
THEOREM NoStrayMarker == Spec => []MarkerHasOwner
<1> USE DEF MarkerInv, MarkerHasOwner, Owns, TypeOK, PC, Auth, GoTo, GoesTo,
            Unlink, Close, files
<1>1. Init => MarkerInv
  BY DEF Init
<1>2. TypeOK /\ MarkerInv /\ [Next]_vars => MarkerInv'
  <2> SUFFICES ASSUME TypeOK, MarkerInv, [Next]_vars PROVE MarkerInv'
    OBVIOUS
  <2>1. CASE UNCHANGED vars
    BY <2>1 DEF vars, process
  <2>2. ASSUME NEW p \in Pids, pid_lock_init(p) \/ InitFails(p) \/ SetupFails(p)
        PROVE  MarkerInv'
    BY <2>2 DEF pid_lock_init, InitFails, SetupFails
  <2>3. ASSUME NEW p \in Pids, pid_lock_lock(p) PROVE MarkerInv'
    BY <2>3 DEF pid_lock_lock
  <2>4. ASSUME NEW p \in Pids, pid_lock_handle_multiple_instance(p) PROVE MarkerInv'
    BY <2>4 DEF pid_lock_handle_multiple_instance, Refused
  <2>5. ASSUME NEW p \in Pids, SaveTruncates(p) \/ SaveWrites(p) \/ SaveFails(p)
        PROVE  MarkerInv'
    BY <2>5 DEF SaveTruncates, SaveWrites, SaveFails
  <2>6. ASSUME NEW p \in Pids, pid_lock_mark_online(p) PROVE MarkerInv'
    BY <2>6 DEF pid_lock_mark_online
  <2>7. ASSUME NEW p \in Pids,
               AuthenticatesAgain(p) \/ pid_lock_clear_online(p) \/ FailsAgain(p)
        PROVE  MarkerInv'
    BY <2>7 DEF AuthenticatesAgain, pid_lock_clear_online, FailsAgain
  <2>8. ASSUME NEW p \in Pids, Exit(p) PROVE MarkerInv'
    BY <2>8 DEF Exit
  <2>9. ASSUME NEW p \in Pids, DestroyClears(p) PROVE MarkerInv'
    BY <2>9 DEF DestroyClears
  <2>10. ASSUME NEW p \in Pids, DestroyTruncates(p) \/ DestroyCloses(p)
         PROVE  MarkerInv'
    BY <2>10 DEF DestroyTruncates, DestroyCloses
  <2>11. ASSUME NEW p \in Pids, Killed(p) PROVE MarkerInv'
    BY <2>11 DEF Killed
  <2> QED
    BY <2>1, <2>2, <2>3, <2>4, <2>5, <2>6, <2>7, <2>8, <2>9, <2>10, <2>11 DEF Next
<1>3. MarkerInv => MarkerHasOwner
  OBVIOUS
<1> QED
  BY <1>1, <1>2, <1>3, TypeCorrect, PTL DEF Spec
=============================================================================
