----------------------------- MODULE PortManager ---------------------------
(***************************************************************************)
(* The ports of the game processes: the matchmaker thread, which borrows a *)
(* port, forks a game and registers its pid (form_match in                 *)
(* src/server/supervisor/src/matchmaker/matchmaker.c), the reaper thread,  *)
(* which returns the port when the game exits (port_manager.c), and the    *)
(* kernel, which runs the children and holds at most one pending SIGCHLD.  *)
(*                                                                         *)
(* Queue and table are each used under their lock, so an access of one is  *)
(* a step; waitpid, the lookup and the push of the reaper are three.       *)
(* Whether players wait for a match, and which system call fails, is left  *)
(* open.                                                                   *)
(***************************************************************************)
EXTENDS Naturals, Sequences, FiniteSets

CONSTANTS
  Port,       \* the pool: BASE_PORT ..
  Pid,        \* bound: the pids the kernel hands out, again after a reap
  initial,    \* initial_ports: the pool as a sequence
  None        \* no port, no pid

ASSUME PortAssumption ==
  /\ IsFiniteSet(Port) /\ Port # {} /\ None \notin Port \union Pid
  /\ initial \in Seq(Port) /\ Len(initial) = Cardinality(Port)
  /\ \A i, j \in DOMAIN initial : i # j => initial[i] # initial[j]

VARIABLES
  \* port manager
  ports,          \* the queue of free ports
  mapping,        \* pid_port_mapping: the entries of a pid, newest first
  reaper_active,
  reaper_stop,
  t_shutdown,
  \* matchmaker thread
  mpc,            \* its place in matchmaker_run_t and form_match
  port,           \* port and pid of the round of form_match, None between rounds
  pid,
  \* reaper thread
  rpc,            \* its place in reaper_thread
  rpid,           \* what waitpid and pm_retrieve_port returned in this round
  rport,
  \* kernel
  child,          \* state of each pid: none, running or zombie
  sigchld,        \* SIGCHLD is pending
  told,           \* the port the child read from its pipe
  \* history
  registered      \* children registered and not yet reaped

flags == <<reaper_active, reaper_stop, t_shutdown>>
matchmaker == <<mpc, port, pid>>
reaper == <<rpc, rpid, rport>>
kernel == <<child, sigchld, told>>
vars == <<ports, mapping, flags, matchmaker, reaper, kernel, registered>>

Init ==
  /\ ports = initial /\ mapping = [p \in Pid |-> <<>>]
  /\ reaper_active = FALSE /\ reaper_stop = FALSE /\ t_shutdown = FALSE
  /\ mpc = "start" /\ port = None /\ pid = None
  /\ rpc = "none" /\ rpid = None /\ rport = None
  /\ child = [p \in Pid |-> "none"] /\ sigchld = FALSE
  /\ told = [p \in Pid |-> None]
  /\ registered = {}

-----------------------------------------------------------------------------
(* The queue holds init_ports_size ports.                                   *)
Room == Len(ports) < Len(initial)

(* spscq_push under ports_lock.                                             *)
PushPort(p) == ports' = IF Room THEN Append(ports, p) ELSE ports

-----------------------------------------------------------------------------
(* The matchmaker.                                                          *)

(* pm_create starts the reaper, or fails; what follows may fail, too.       *)
Create ==
  /\ mpc = "start"
  /\ \/ mpc' \in {"loop", "exit"} /\ rpc' = "start" /\ UNCHANGED t_shutdown
     \/ mpc' = "done" /\ t_shutdown' = TRUE /\ UNCHANGED rpc
  /\ UNCHANGED <<ports, mapping, reaper_active, reaper_stop, port, pid, rpid, rport,
                 kernel, registered>>

(* The loop condition of matchmaker_run_t, and epoll_wait: it fails, or     *)
(* form_match is due, or not.                                               *)
Loop ==
  /\ mpc = "loop"
  /\ IF t_shutdown THEN mpc' = "exit" ELSE mpc' \in {"exit", "form", "status"}
  /\ UNCHANGED <<ports, mapping, flags, port, pid, reaper, kernel, registered>>

(* A round that does not look at what pm_borrow_port returned.              *)
BorrowUnchecked ==
  /\ mpc = "form"
  /\ port' = IF ports = <<>> THEN None ELSE Head(ports)
  /\ ports' = IF ports = <<>> THEN ports ELSE Tail(ports)
  /\ mpc' = "borrowed"
  /\ UNCHANGED <<mapping, flags, pid, reaper, kernel, registered>>

(* One round of form_match has its players and a port: pm_borrow_port.      *)
Borrow ==
  /\ mpc = "form"
  /\ ports # <<>>
  /\ port' = Head(ports)
  /\ ports' = Tail(ports)
  /\ mpc' = "borrowed"
  /\ UNCHANGED <<mapping, flags, pid, reaper, kernel, registered>>

(* Players or ports are short, or there is no game id: form_match returns.  *)
FormEnd ==
  /\ mpc = "form"
  /\ mpc' = "status"
  /\ UNCHANGED <<ports, mapping, flags, port, pid, reaper, kernel, registered>>

(* The pids fork may return.  The kernel does not reuse a pid in the time   *)
(* the reaper takes from waitpid to the lookup.                             *)
FreshPid == {p \in Pid : child[p] = "none" /\ ~(rpc = "lookup" /\ rpid = p)}

(* spawn_process: the child got its port; or it runs and a write to its     *)
(* pipe failed; or there is no child.                                       *)
Spawn ==
  /\ mpc = "borrowed"
  /\ \E p \in FreshPid :
       /\ child' = [child EXCEPT ![p] = "running"]
       /\ pid' = p
       /\ told' = [told EXCEPT ![p] = port]
  /\ mpc' = "spawned"
  /\ UNCHANGED <<ports, mapping, flags, port, reaper, sigchld, registered>>

SpawnUnheard ==
  /\ mpc = "borrowed"
  /\ \E p \in FreshPid :
       /\ child' = [child EXCEPT ![p] = "running"]
       /\ told' = [told EXCEPT ![p] = None]
  /\ mpc' = "giveback"
  /\ UNCHANGED <<ports, mapping, flags, port, pid, reaper, sigchld, registered>>

SpawnFails ==
  /\ mpc = "borrowed"
  /\ mpc' = "giveback"
  /\ UNCHANGED <<ports, mapping, flags, port, pid, reaper, kernel, registered>>

(* A registration that falls through to the failure path.                   *)
RegisterFallsThrough ==
  /\ mpc = "spawned"
  /\ mapping' = [mapping EXCEPT ![pid] = <<port>> \o @]
  /\ registered' = IF child[pid] = "none" THEN registered ELSE registered \union {pid}
  /\ mpc' = "giveback" /\ pid' = None
  /\ UNCHANGED <<ports, flags, port, reaper, kernel>>

(* pm_register_port under ht_lock; a failure kills the child.               *)
Register ==
  /\ mpc = "spawned"
  /\ mapping' = [mapping EXCEPT ![pid] = <<port>> \o @]
  /\ registered' = IF child[pid] = "none" THEN registered ELSE registered \union {pid}
  /\ mpc' = "form" /\ port' = None /\ pid' = None
  /\ UNCHANGED <<ports, flags, reaper, kernel>>

(* A failure that leaves the entry in the table.                            *)
RegisterFailsLate ==
  /\ mpc = "spawned"
  /\ mapping' = [mapping EXCEPT ![pid] = <<port>> \o @]
  /\ mpc' = "giveback" /\ pid' = None
  /\ UNCHANGED <<ports, flags, port, reaper, kernel, registered>>

RegisterFails ==
  /\ mpc = "spawned"
  /\ mpc' = "giveback" /\ pid' = None
  /\ UNCHANGED <<ports, mapping, flags, port, reaper, kernel, registered>>

(* pm_return_port; form_match ends after the failure.                       *)
GiveBack ==
  /\ mpc = "giveback"
  /\ PushPort(port)
  /\ mpc' = "status" /\ port' = None
  /\ UNCHANGED <<mapping, flags, pid, reaper, kernel, registered>>

(* pm_status                                                                *)
Status ==
  /\ mpc = "status"
  /\ mpc' = IF reaper_active THEN "loop" ELSE "exit"
  /\ UNCHANGED <<ports, mapping, flags, port, pid, reaper, kernel, registered>>

(* The exit path: t_shutdown, and pm_destroy asks the reaper to stop ...    *)
Exit ==
  /\ mpc = "exit"
  /\ t_shutdown' = TRUE /\ reaper_stop' = TRUE
  /\ mpc' = "join"
  /\ UNCHANGED <<ports, mapping, reaper_active, port, pid, reaper, kernel, registered>>

(* ... and joins it.                                                        *)
Join ==
  /\ mpc = "join"
  /\ rpc = "end"
  /\ mpc' = "done"
  /\ UNCHANGED <<ports, mapping, flags, port, pid, reaper, kernel, registered>>

Matchmaker ==
  \/ Create \/ Loop \/ Borrow \/ FormEnd \/ Spawn \/ SpawnUnheard \/ SpawnFails
  \/ Register \/ RegisterFails \/ GiveBack \/ Status \/ Exit \/ Join

-----------------------------------------------------------------------------
(* The reaper.                                                              *)

ReaperStart ==
  /\ rpc = "start"
  /\ reaper_active' = TRUE
  /\ rpc' = "top"
  /\ UNCHANGED <<ports, mapping, reaper_stop, t_shutdown, matchmaker, rpid, rport, kernel,
                 registered>>

ReaperEnds ==
  /\ rpc' = "end"
  /\ reaper_active' = FALSE

ReaperTop ==
  /\ rpc = "top"
  /\ IF reaper_stop THEN ReaperEnds ELSE rpc' = "wait" /\ UNCHANGED reaper_active
  /\ UNCHANGED <<ports, mapping, reaper_stop, t_shutdown, matchmaker, rpid, rport, kernel,
                 registered>>

(* sigtimedwait takes the pending signal, or times out.                     *)
Signalled ==
  /\ rpc = "wait"
  /\ sigchld
  /\ sigchld' = FALSE
  /\ rpc' = "reap"
  /\ UNCHANGED <<ports, mapping, flags, matchmaker, rpid, rport, child, told, registered>>

TimedOut ==
  /\ rpc = "wait"
  /\ ~sigchld
  /\ rpc' = "top"
  /\ UNCHANGED <<ports, mapping, flags, matchmaker, rpid, rport, kernel, registered>>

(* waitpid returns a child that has exited ...                              *)
Reap(p) ==
  /\ rpc = "reap"
  /\ child[p] = "zombie"
  /\ child' = [child EXCEPT ![p] = "none"]
  /\ registered' = registered \ {p}
  /\ told' = [told EXCEPT ![p] = None]
  /\ rpid' = p
  /\ rpc' = "lookup"
  /\ UNCHANGED <<ports, mapping, flags, matchmaker, rport, sigchld>>

(* ... or there is none.                                                    *)
ReapNone ==
  /\ rpc = "reap"
  /\ \A p \in Pid : child[p] # "zombie"
  /\ rpc' = "top"
  /\ UNCHANGED <<ports, mapping, flags, matchmaker, rpid, rport, kernel, registered>>

(* sigtimedwait or waitpid fails.                                           *)
ReaperFails ==
  /\ rpc \in {"wait", "reap"}
  /\ ReaperEnds
  /\ UNCHANGED <<ports, mapping, reaper_stop, t_shutdown, matchmaker, rpid, rport, kernel,
                 registered>>

(* A lookup that leaves the entry in the table.                             *)
LookupKeeps ==
  /\ rpc = "lookup"
  /\ mapping[rpid] # <<>>
  /\ rport' = Head(mapping[rpid])
  /\ rpc' = "push" /\ rpid' = None
  /\ UNCHANGED <<ports, mapping, flags, matchmaker, kernel, registered>>

(* pm_retrieve_port takes the newest entry of the pid ...                   *)
Lookup ==
  /\ rpc = "lookup"
  /\ mapping[rpid] # <<>>
  /\ rport' = Head(mapping[rpid])
  /\ mapping' = [mapping EXCEPT ![rpid] = Tail(@)]
  /\ rpc' = "push" /\ rpid' = None
  /\ UNCHANGED <<ports, flags, matchmaker, kernel, registered>>

(* An unknown pid ends the round of the reaper.                             *)
LookupUnknownBreaks ==
  /\ rpc = "lookup"
  /\ mapping[rpid] = <<>>
  /\ rpc' = "top" /\ rpid' = None
  /\ UNCHANGED <<ports, mapping, flags, matchmaker, rport, kernel, registered>>

(* ... and an unknown pid is skipped.                                       *)
LookupUnknown ==
  /\ rpc = "lookup"
  /\ mapping[rpid] = <<>>
  /\ rpc' = "reap" /\ rpid' = None
  /\ UNCHANGED <<ports, mapping, flags, matchmaker, rport, kernel, registered>>

(* A reaper that takes one child for each signal.                           *)
PushThenWait ==
  /\ rpc = "push"
  /\ PushPort(rport) /\ rport' = None
  /\ IF Room THEN rpc' = "top" /\ UNCHANGED reaper_active ELSE ReaperEnds
  /\ UNCHANGED <<mapping, reaper_stop, t_shutdown, matchmaker, rpid, kernel, registered>>

(* The port goes back; a full queue would end the reaper.                   *)
Push ==
  /\ rpc = "push"
  /\ PushPort(rport) /\ rport' = None
  /\ IF Room THEN rpc' = "reap" /\ UNCHANGED reaper_active ELSE ReaperEnds
  /\ UNCHANGED <<mapping, reaper_stop, t_shutdown, matchmaker, rpid, kernel, registered>>

Reaper ==
  \/ ReaperStart \/ ReaperTop \/ Signalled \/ TimedOut
  \/ \E p \in Pid : Reap(p)
  \/ ReapNone \/ Lookup \/ LookupUnknown \/ Push

-----------------------------------------------------------------------------
(* A game process ends, for whatever reason and at any time.                *)
ChildExits ==
  /\ \E p \in Pid :
       /\ child[p] = "running"
       /\ child' = [child EXCEPT ![p] = "zombie"]
  /\ sigchld' = TRUE
  /\ UNCHANGED <<ports, mapping, flags, matchmaker, reaper, told, registered>>

(* main or the orchestrator ends the supervisor.                            *)
Shutdown ==
  /\ ~t_shutdown
  /\ t_shutdown' = TRUE
  /\ UNCHANGED <<ports, mapping, reaper_active, reaper_stop, matchmaker, reaper, kernel,
                 registered>>

Ended ==
  /\ mpc = "done"
  /\ UNCHANGED vars

Next == Matchmaker \/ Reaper \/ ReaperFails \/ ChildExits \/ Shutdown \/ Ended

Spec == Init /\ [][Next]_vars

(* The reaper is scheduled; its wait ends with the signal or the timeout.    *)
(* waitpid walks the children in the order of their forks, so a child that   *)
(* has exited is not passed over forever for younger ones.                   *)
FairSpec == Spec /\ WF_vars(Reaper) /\ \A p \in Pid : SF_vars(Reap(p))

-----------------------------------------------------------------------------
InHand == mpc \in {"borrowed", "spawned", "giveback"}

TypeOK ==
  /\ ports \in Seq(Port)
  /\ mapping \in [Pid -> Seq(Port)]
  /\ {reaper_active, reaper_stop, t_shutdown, sigchld} \subseteq BOOLEAN
  /\ mpc \in {"start", "loop", "form", "borrowed", "spawned", "giveback", "status", "exit",
              "join", "done"}
  /\ rpc \in {"none", "start", "top", "wait", "reap", "lookup", "push", "end"}
  /\ port \in Port \union {None} /\ (InHand => port \in Port)
  /\ rport \in Port \union {None} /\ (rpc = "push" => rport \in Port)
  /\ pid \in Pid \union {None} /\ (mpc = "spawned" => pid \in Pid)
  /\ rpid \in Pid \union {None} /\ (rpc = "lookup" => rpid \in Pid)
  /\ child \in [Pid -> {"none", "running", "zombie"}]
  /\ told \in [Pid -> Port \union {None}]
  /\ registered \in SUBSET Pid

(* A port is at one place at most: free, in the hands of the matchmaker, in  *)
(* an entry of the table, or in the hands of the reaper; and there once.     *)
Mapped(p) == \E c \in Pid : p \in {mapping[c][i] : i \in DOMAIN mapping[c]}
Free(p) == p \in {ports[i] : i \in DOMAIN ports}

NoPortTwice ==
  /\ \A i, j \in DOMAIN ports : i # j => ports[i] # ports[j]
  /\ \A c, d \in Pid : \A i \in DOMAIN mapping[c], j \in DOMAIN mapping[d] :
       mapping[c][i] = mapping[d][j] => c = d /\ i = j
  /\ \A p \in Port : ~(Free(p) /\ Mapped(p))
  /\ InHand => ~Free(port) /\ ~Mapped(port)
  /\ rpc = "push" => ~Free(rport) /\ ~Mapped(rport)
  /\ InHand /\ rpc = "push" => port # rport

(* Hence the queue has room for every port that comes back: the reaper never *)
(* ends for that, and pm_return_port never drops a port.                     *)
RoomForReturns == InHand \/ rpc = "push" => Room

(* Two games that players were sent to are never on the same port.           *)
GamesOnDistinctPorts ==
  \A c, d \in registered : c # d => told[c] # told[d]

(* One pending signal stands for any number of exits, and the reaper waits   *)
(* for it only when no exited child is left over without one.                *)
NoForgottenZombie ==
  rpc \in {"top", "wait"} /\ (\E p \in Pid : child[p] = "zombie") => sigchld

(* The inductive invariant: a registered game's port is in its own entry of  *)
(* the table, nobody has been registered or spawned under a pid whose lookup *)
(* is under way, and a signal is pending for every exit the reaper has not   *)
(* seen, also before it has started.                                         *)
Holding ==
  /\ \A c \in registered :
       /\ child[c] # "none" /\ told[c] \in Port
       /\ told[c] \in {mapping[c][i] : i \in DOMAIN mapping[c]}
  /\ mpc = "spawned" => pid \notin registered /\ (child[pid] # "none" => told[pid] = port)
  /\ rpc = "lookup" => child[rpid] = "none"

Pending ==
  rpc \in {"none", "start", "top", "wait"} /\ (\E p \in Pid : child[p] = "zombie")
    => sigchld

NoReaperYet == mpc = "start" => rpc = "none"

IndInv == TypeOK /\ NoPortTwice /\ Holding /\ Pending /\ NoReaperYet

(* Queue, table and the two threads' hands are a pool of ports: what the      *)
(* matchmaker holds is still free, what the reaper holds not yet, and a game *)
(* has its port from the registration until it is reaped.                    *)
FreePorts == {p \in Port : Free(p) \/ (InHand /\ port = p)}
GamePorts == [c \in Pid |-> IF c \in registered THEN told[c] ELSE None]

Pool == INSTANCE PortPool WITH Game <- Pid, free <- FreePorts, on <- GamePorts

ImplementsPool == Pool!Spec

(* The port of a registered game is free again some time after the game has  *)
(* exited (and handed out again perhaps), as long as the reaper lives.       *)
PortComesBack ==
  \A c \in Pid, p \in Port :
    c \in registered /\ child[c] = "zombie" /\ told[c] = p
      ~> Free(p) \/ ~reaper_active

(* ORCHESTRATOR.md, Managing Available Ports: "When a child process exits:   *)
(* the freed port is pushed back into the queue".  So a port is free, in a   *)
(* thread's hands, or belongs to a child that has not been reaped.           *)
NoPortLost ==
  \A p \in Port :
    \/ Free(p)
    \/ InHand /\ port = p
    \/ rpc = "push" /\ rport = p
    \/ \E c \in Pid : /\ child[c] # "none" \/ (rpc = "lookup" /\ rpid = c)
                      /\ p \in {mapping[c][i] : i \in DOMAIN mapping[c]}

=============================================================================
