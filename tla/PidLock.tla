------------------------------ MODULE PidLock ------------------------------
(* util/pid_lock.c and the part of minieap.c's main that uses it: instances   *)
(* that start, run and end beside each other, with the PID file, the flock on *)
(* it and the <pidfile>.online marker as the only things they share.          *)
(*                                                                            *)
(* A step is at most one system call on a shared file, so the instances       *)
(* interleave between any two of them.  An instance is known by its pid; a    *)
(* pid is used again after its process ended.                                 *)
EXTENDS FiniteSets

CONSTANTS
    Pids,       \* bound: the pids the kernel hands out
    NoPid,      \* an empty PID file; a lock nobody holds
    KillTypes,  \* the -k options instances are started with
    Sigkill     \* whether an instance may be killed outright

ASSUME NoPidAssumption == NoPid \notin Pids
ASSUME KillTypesAssumption ==
    KillTypes \subseteq {"KILL_NONE", "KILL_ONLY", "KILL_AND_START"}
ASSUME SigkillAssumption == Sigkill \in BOOLEAN

VARIABLES
    pc,         \* where each instance is, "absent" when the pid is not in use
    kill_type,  \* its -k option
    fd,         \* pid_lock_fd > 0: it has the PID file open
    auth,       \* how its authentication stands
    term,       \* SIGTERM was sent to it
    holder,     \* the instance whose open file has the flock
    pid_file,   \* the pid the PID file holds
    marker,     \* <pidfile>.online exists
    orphaned    \* history: an instance whose marker it may be was killed

process == <<pc, kill_type, fd, auth, term>>
files   == <<holder, pid_file, marker, orphaned>>
vars    == <<process, files>>

\* lock, save, write and run follow main; clear, truncate and close follow
\* pid_lock_destroy.
PC == {"absent", "lock", "blocked", "save", "write", "run", "clear", "truncate", "close"}

\* "success" in the state EAP_STATE_SUCCESS, "again" when it has left that state
\* for another authentication, "failed" when the server has refused that one;
\* "none" before the first Success and once it was thrown off.
Auth == {"none", "success", "again", "failed"}

TypeOK ==
    /\ pc \in [Pids -> PC]
    /\ kill_type \in [Pids -> KillTypes]
    /\ fd \in [Pids -> BOOLEAN]
    /\ auth \in [Pids -> Auth]
    /\ term \in [Pids -> BOOLEAN]
    /\ holder \in Pids \cup {NoPid}
    /\ pid_file \in Pids \cup {NoPid}
    /\ marker \in BOOLEAN
    /\ orphaned \in BOOLEAN

Init ==
    /\ pc = [p \in Pids |-> "absent"]
    /\ kill_type \in [Pids -> KillTypes]
    /\ fd = [p \in Pids |-> FALSE]
    /\ auth = [p \in Pids |-> "none"]
    /\ term = [p \in Pids |-> FALSE]
    /\ holder = NoPid /\ pid_file = NoPid /\ marker = FALSE /\ orphaned = FALSE

GoTo(p, label) == pc' = [pc EXCEPT ![p] = label]

\* The kernel closes the files of p and drops the lock that goes with them.
Close(p) ==
    /\ fd' = [fd EXCEPT ![p] = FALSE]
    /\ holder' = IF holder = p THEN NoPid ELSE holder
-----------------------------------------------------------------------------
(* From main's start to the authentication. *)

\* A new process gets through its options to pid_lock_init.
pid_lock_init(p) ==
    /\ pc[p] = "absent"
    /\ GoTo(p, "lock")
    /\ fd' = [fd EXCEPT ![p] = TRUE]
    /\ \E k \in KillTypes : kill_type' = [kill_type EXCEPT ![p] = k]
    /\ UNCHANGED <<auth, term, files>>

\* The PID file or something before it cannot be opened: main returns, and
\* exit_handler runs all the same.
InitFails(p) ==
    /\ pc[p] = "absent"
    /\ GoTo(p, "clear")
    /\ UNCHANGED <<kill_type, fd, auth, term, files>>

\* init_if or flock fails: main returns with the file open and no lock.
SetupFails(p) ==
    /\ pc[p] = "lock"
    /\ GoTo(p, "clear")
    /\ UNCHANGED <<kill_type, fd, auth, term, files>>

\* Mutant: the result of flock is not looked at.
pid_lock_lock_unchecked(p) ==
    /\ pc[p] = "lock"
    /\ GoTo(p, "save")
    /\ holder' = IF holder = NoPid THEN p ELSE holder
    /\ UNCHANGED <<kill_type, fd, auth, term, pid_file, marker, orphaned>>

pid_lock_lock(p) ==
    /\ pc[p] = "lock"
    /\ IF holder = NoPid
       THEN GoTo(p, "save") /\ holder' = p
       ELSE GoTo(p, "blocked") /\ UNCHANGED holder
    /\ UNCHANGED <<kill_type, fd, auth, term, pid_file, marker, orphaned>>

\* pid_lock_handle_multiple_instance of an instance that found the file locked,
\* and what pid_lock_lock and main do with its answer.
Refused(p) ==
    /\ Close(p)
    /\ GoTo(p, "clear")

Kill(pid) == term' = [term EXCEPT ![pid] = @ \/ pc[pid] # "absent"]

\* Mutant: KILL_ONLY falls through to KILL_AND_START.
handle_multiple_instance_falls_through(p) ==
    /\ pc[p] = "blocked"
    /\ IF pid_file = NoPid \/ kill_type[p] = "KILL_NONE"
       THEN UNCHANGED term
       ELSE Kill(pid_file)
    /\ IF pid_file # NoPid /\ kill_type[p] # "KILL_NONE"
       THEN GoTo(p, "save") /\ UNCHANGED <<fd, holder>>
       ELSE Refused(p)
    /\ UNCHANGED <<kill_type, auth, pid_file, marker, orphaned>>

pid_lock_handle_multiple_instance(p) ==
    /\ pc[p] = "blocked"
    /\ IF pid_file = NoPid \/ kill_type[p] = "KILL_NONE"
       THEN UNCHANGED term
       ELSE Kill(pid_file)
    /\ IF pid_file # NoPid /\ kill_type[p] = "KILL_AND_START"
       THEN GoTo(p, "save") /\ UNCHANGED <<fd, holder>>
       ELSE Refused(p)
    /\ UNCHANGED <<kill_type, auth, pid_file, marker, orphaned>>

\* pid_lock_save_pid: ftruncate, then write.
SaveTruncates(p) ==
    /\ pc[p] = "save"
    /\ GoTo(p, "write")
    /\ pid_file' = NoPid
    /\ UNCHANGED <<kill_type, fd, auth, term, holder, marker, orphaned>>

SaveWrites(p) ==
    /\ pc[p] = "write"
    /\ GoTo(p, "run")
    /\ pid_file' = p
    /\ UNCHANGED <<kill_type, fd, auth, term, holder, marker, orphaned>>

\* Either call fails: main returns.
SaveFails(p) ==
    /\ pc[p] \in {"save", "write"}
    /\ GoTo(p, "clear")
    /\ UNCHANGED <<kill_type, fd, auth, term, files>>
-----------------------------------------------------------------------------
(* The authentication, and the end. *)

GoesTo(p, how) == auth' = [auth EXCEPT ![p] = how]

Unlink == marker' = FALSE /\ orphaned' = FALSE

\* EAP Success, of the last round.  A marker that was left behind is now its own.
pid_lock_mark_online(p) ==
    /\ pc[p] = "run"
    /\ GoesTo(p, "success")
    /\ marker' = TRUE /\ orphaned' = FALSE
    /\ UNCHANGED <<pc, kill_type, fd, term, holder, pid_file>>

\* A Request of the server, or the second authentication of rjv3: the state
\* changes, the marker stays.
AuthenticatesAgain(p) ==
    /\ pc[p] = "run" /\ auth[p] = "success"
    /\ GoesTo(p, "again")
    /\ UNCHANGED <<pc, kill_type, fd, term, files>>

\* EAP Failure in EAP_STATE_SUCCESS: the server forces the instance offline.
pid_lock_clear_online(p) ==
    /\ pc[p] = "run" /\ auth[p] = "success"
    /\ GoesTo(p, "none")
    /\ Unlink
    /\ UNCHANGED <<pc, kill_type, fd, term, holder, pid_file>>

\* EAP Failure in any other state is taken for one "during auth": the marker of
\* the session it ends stays.
FailsAgain(p) ==
    /\ pc[p] = "run" /\ auth[p] = "again"
    /\ GoesTo(p, "failed")
    /\ UNCHANGED <<pc, kill_type, fd, term, files>>

\* Mutant: the signals are blocked in the inherited mask.
Exit_masked(p) ==
    /\ pc[p] = "run" /\ ~term[p]
    /\ GoTo(p, "clear")
    /\ GoesTo(p, "none")
    /\ UNCHANGED <<kill_type, fd, term, files>>

\* A signal or the end of the retries: exit_handler sends the Logoff first.
Exit(p) ==
    /\ pc[p] = "run"
    /\ GoTo(p, "clear")
    /\ GoesTo(p, "none")
    /\ UNCHANGED <<kill_type, fd, term, files>>

\* Mutant: the marker is left behind.
DestroyClears_nothing(p) ==
    /\ pc[p] = "clear"
    /\ IF fd[p]
       THEN GoTo(p, "truncate") /\ UNCHANGED term
       ELSE GoTo(p, "absent") /\ term' = [term EXCEPT ![p] = FALSE]
    /\ UNCHANGED <<kill_type, fd, auth, files>>

\* pid_lock_destroy: unlink the marker, empty the PID file, close it.
DestroyClears(p) ==
    /\ pc[p] = "clear"
    /\ Unlink
    /\ IF fd[p]
       THEN GoTo(p, "truncate") /\ UNCHANGED term
       ELSE GoTo(p, "absent") /\ term' = [term EXCEPT ![p] = FALSE]
    /\ UNCHANGED <<kill_type, fd, auth, holder, pid_file>>

DestroyTruncates(p) ==
    /\ pc[p] = "truncate"
    /\ GoTo(p, "close")
    /\ pid_file' = NoPid
    /\ UNCHANGED <<kill_type, fd, auth, term, holder, marker, orphaned>>

DestroyCloses(p) ==
    /\ pc[p] = "close"
    /\ GoTo(p, "absent")
    /\ Close(p)
    /\ term' = [term EXCEPT ![p] = FALSE]
    /\ UNCHANGED <<kill_type, auth, pid_file, marker, orphaned>>

\* An instance that may have written the marker, or is about to remove it.
Owns(p) == auth[p] # "none" \/ pc[p] = "clear"

\* SIGKILL or a crash: no handler runs.
Killed(p) ==
    /\ Sigkill /\ pc[p] # "absent"
    /\ GoTo(p, "absent")
    /\ Close(p)
    /\ GoesTo(p, "none")
    /\ term' = [term EXCEPT ![p] = FALSE]
    /\ orphaned' = (orphaned \/ (marker /\ Owns(p)))
    /\ UNCHANGED <<kill_type, pid_file, marker>>

Next == \E p \in Pids :
    \/ pid_lock_init(p) \/ InitFails(p) \/ SetupFails(p)
    \/ pid_lock_lock(p) \/ pid_lock_handle_multiple_instance(p)
    \/ SaveTruncates(p) \/ SaveWrites(p) \/ SaveFails(p)
    \/ pid_lock_mark_online(p) \/ AuthenticatesAgain(p)
    \/ pid_lock_clear_online(p) \/ FailsAgain(p) \/ Exit(p)
    \/ DestroyClears(p) \/ DestroyTruncates(p) \/ DestroyCloses(p)
    \/ Killed(p)

Spec == Init /\ [][Next]_vars

\* A process that got SIGTERM is scheduled, and what it started ends.
Fairness ==
    \A p \in Pids :
        /\ WF_vars(Exit(p) /\ term[p])
        /\ WF_vars(DestroyClears(p) \/ DestroyTruncates(p) \/ DestroyCloses(p))
        /\ WF_vars(pid_lock_lock(p) \/ pid_lock_handle_multiple_instance(p))
        /\ WF_vars(SaveTruncates(p) \/ SaveWrites(p))

FairSpec == Spec /\ Fairness
-----------------------------------------------------------------------------
(* Properties. *)

\* Past pid_lock_lock, and not yet ending.
Active(p) == pc[p] \in {"save", "write", "run"}

\* config.h: "PID file, avoid multiple instances".  At most one instance is past
\* pid_lock_lock, whatever instances start, fail, end or are killed beside it.
OneInstance == \A p, q \in Pids : Active(p) /\ Active(q) => p = q

\* While an instance runs, the PID file names no other process: a supervisor
\* or -k that reads it never takes another process for the one that is online.
PidFileNamesNoOther ==
    \A p \in Pids : pc[p] = "run" => pid_file \in {p, NoPid}

\* No instance, no marker: unless an instance was killed outright, a supervisor
\* that sees the marker is looking at an instance that got through to the server
\* and was not thrown off since, or at one that is just ending.  It does not say
\* that this instance is online: see MarkerIsSure.
MarkerHasOwner == marker /\ ~orphaned => \E p \in Pids : Owns(p)

\* -k works: an instance that is sent SIGTERM ends, and its lock is free.
TermEnds == \A p \in Pids : term[p] ~> pc[p] = "absent"

\* OneInstance and PidFileNamesNoOther, strengthened to an inductive invariant:
\* whoever is past pid_lock_lock has the lock.
LockInv ==
    /\ \A p \in Pids : Active(p) => holder = p
    /\ PidFileNamesNoOther

\* MarkerHasOwner, strengthened to an inductive invariant.
MarkerInv ==
    /\ MarkerHasOwner
    /\ \A p \in Pids : auth[p] # "none" => pc[p] = "run"
-----------------------------------------------------------------------------
(* What comments and tests say of the program and TLC refutes (README). *)

\* config.h: "PID file, avoid multiple instances", and with KILL_AND_START "Kill
\* others and start": of several instances all but one were told to end.
OneInstanceLeft ==
    \A p, q \in Pids : Active(p) /\ Active(q) /\ ~term[p] /\ ~term[q] => p = q

\* pid_lock.h: the marker is "cleared as soon as we are no longer sure we are
\* online (offline detected, or process exiting)": while it exists and nobody was
\* killed, some instance has not been refused by the server since its last
\* Success, or is ending.
MarkerIsSure ==
    marker /\ ~orphaned =>
        \E p \in Pids : auth[p] \in {"success", "again"} \/ pc[p] = "clear"

\* The same comment: not cleared before, either.
MarkerWhileOnline == \A p \in Pids : auth[p] = "success" => marker
=============================================================================
