----------------------------- MODULE Workloads -----------------------------
(***************************************************************************)
(* The workload panel (api/routes.py) and the commands it builds              *)
(* (runtime/workloads.py) for one workload of the target: a request is a      *)
(* sequence of ssh commands, each awaited, and requests are kept apart by     *)
(* nothing.  The target (external) has the server processes, server.pid and   *)
(* the console's password in server.properties.                              *)
(***************************************************************************)
EXTENDS Integers, Sequences, FiniteSets

CONSTANTS
  Requests,   \* HTTP requests, each made once
  MaxServers  \* bound: server processes started

Nobody == "none"

VARIABLES
  made,     \* what create_workload wrote: its quoted path is taken literally
  named,    \* does the command line of a server name the workload's path?
  recorded, \* does the start script write server.pid?
  server,   \* the processes started: their state and the password they read
  pid,      \* server.pid, 0 if there is none
  password, \* whose password server.properties has
  request,  \* of each request: the step it is at and how that went
  excused   \* a second server was asked for, or requests to control overlapped

vars == <<made, named, recorded, server, pid, password, request, excused>>

target == <<made, server, pid, password>>
script == <<named, recorded>>

(* "find" is list_workloads and get_workload; "look" reads logs, a status or   *)
(* whether there is a console.                                               *)
Program == [look    |-> <<"find", "look", "find">>,
            create  |-> <<"find", "create", "find">>,
            start   |-> <<"find", "start", "verify", "find">>,
            stop    |-> <<"find", "stop", "verify", "find">>,
            restart |-> <<"find", "stop", "start", "verify", "find">>,
            setup   |-> <<"find", "write", "find", "stop", "start", "verify", "find", "find">>,
            exec    |-> <<"find", "probe", "secret", "exec", "find">>]

Controls == {"start", "stop", "restart", "setup"}

Idle == [kind |-> "none", at |-> 1, sent |-> FALSE, exit |-> FALSE, ok |-> TRUE, secret |-> Nobody]

(* The steps a request has left, and the one it is at. *)
Left(r) == IF request[r].kind = "none" THEN {} ELSE request[r].at .. Len(Program[request[r].kind])
Step(r) == IF Left(r) = {} THEN "none" ELSE Program[request[r].kind][request[r].at]

Up      == {s \in DOMAIN server : server[s].state = "up"}
Alive   == {s \in DOMAIN server : server[s].state \in {"up", "dying"}}
UnderWay(kinds) == {r \in Requests : request[r].kind \in kinds /\ Left(r) # {}}

(* The HTTP endpoints. *)
Begin(r) ==
  /\ request[r] = Idle
  /\ \E kind \in DOMAIN Program :
       /\ request' = [request EXCEPT ![r] = [Idle EXCEPT !.kind = kind]]
       /\ excused' = (excused \/ (kind \in Controls /\ UnderWay(Controls) # {}))
  /\ UNCHANGED <<target, script>>

(* An exception ends the request: no shell, the workload not found (any       *)
(* failure to list them counts as that), the policy denies, ssh fails or is   *)
(* late.  A command that was sent has had its effect.                        *)
Raises(r) ==
  /\ Left(r) # {}
  /\ request' = [request EXCEPT ![r] = [Idle EXCEPT !.kind = request[r].kind, !.ok = FALSE,
                                                    !.at = Len(Program[request[r].kind]) + 1]]
  /\ UNCHANGED <<target, script, excused>>

-----------------------------------------------------------------------------
(* Steps that only read the target.  The console is needed when the workload  *)
(* is found, when it is probed, and when its password is read.  verify        *)
(* succeeds whatever runs: at last it prints the log, or nothing.             *)
Reads(r) ==
  /\ Step(r) \in {"find", "look", "verify", "probe", "secret"}
  /\ request[r].kind = "exec" => password # Nobody
  /\ request' = [request EXCEPT ![r].at = @ + 1,
                                ![r].secret = IF Step(r) = "secret" THEN password ELSE @]
  /\ UNCHANGED <<target, script, excused>>

(* A command that changes the target arrives there. *)
Sent(r, exit) == request' = [request EXCEPT ![r].sent = TRUE, ![r].exit = exit]

(* The manifest is written below a directory that is named "~". *)
CreateArrives(r) ==
  /\ Step(r) = "create" /\ ~request[r].sent
  /\ made' = TRUE
  /\ Sent(r, TRUE)
  /\ UNCHANGED <<server, pid, password, script, excused>>

(* build_minecraft_console_setup_command. *)
WriteArrives(r) ==
  /\ Step(r) = "write" /\ ~request[r].sent
  /\ \E exit \in BOOLEAN :
       /\ password' = IF exit THEN r ELSE password
       /\ Sent(r, exit)
  /\ UNCHANGED <<made, server, pid, script, excused>>

Kill(servers) ==
  server' = [s \in DOMAIN server |-> IF s \in servers THEN [server[s] EXCEPT !.state = "dying"] ELSE server[s]]

(* build_workload_stop_command: the process server.pid names, if it lives;    *)
(* else those that name the path, which the command's own shell does: it is   *)
(* killed as well and reports no success.  Nobody waits for them to end.      *)
StopArrives(r) ==
  /\ Step(r) = "stop" /\ ~request[r].sent
  /\ LET recognised == pid \in Alive
     IN  /\ Kill(IF recognised THEN {pid} ELSE IF named THEN Alive ELSE {})
         /\ Sent(r, recognised)
  /\ UNCHANGED <<made, pid, password, script, excused>>

(* build_workload_start_command: a server is started, whatever runs already,  *)
(* and reads its properties; or it cannot be started.                        *)
StartArrives(r) ==
  /\ Step(r) = "start" /\ ~request[r].sent
  /\ \/ /\ Len(server) < MaxServers
        /\ server' = Append(server, [state |-> "up", password |-> password])
        /\ pid' = IF recorded THEN Len(server') ELSE pid
        /\ \E exit \in BOOLEAN : Sent(r, exit)
     \/ UNCHANGED <<server, pid>> /\ Sent(r, FALSE)
  /\ excused' = (excused \/ (request[r].kind = "start" /\ Up # {}))
  /\ UNCHANGED <<made, password, script>>

(* The console lets in who has the password its server has read. *)
ExecArrives(r) ==
  /\ Step(r) = "exec" /\ ~request[r].sent
  /\ Sent(r, \E s \in Up : server[s].password = request[r].secret)
  /\ UNCHANGED <<target, script, excused>>

(* Mutant: a restart goes on after a stop that failed. *)
ReturnedGoesOn(r) ==
  /\ request[r].sent
  /\ request' = [request EXCEPT ![r].sent = FALSE, ![r].exit = FALSE, ![r].at = @ + 1,
                                ![r].ok = @ /\ (request[r].exit \/ Step(r) \notin {"stop", "start"})]
  /\ UNCHANGED <<target, script, excused>>

(* control_workload breaks off after a command that failed, but still         *)
(* verifies; nobody looks at what came of the write, or of the restart in it. *)
Returned(r) ==
  /\ request[r].sent
  /\ LET failed == ~request[r].exit /\ Step(r) \in {"stop", "start"}
     IN  request' = [request EXCEPT
           ![r].sent = FALSE, ![r].exit = FALSE, ![r].ok = @ /\ ~failed,
           ![r].at = IF failed /\ Step(r) = "stop" /\ request[r].kind # "stop" THEN @ + 2 ELSE @ + 1]
  /\ UNCHANGED <<target, script, excused>>

(* A server ends, of itself or as it was told to. *)
Exits(s) ==
  /\ s \in Alive
  /\ server' = [server EXCEPT ![s].state = "gone"]
  /\ UNCHANGED <<made, pid, password, request, script, excused>>

Init ==
  /\ made = FALSE /\ named \in BOOLEAN /\ recorded \in BOOLEAN
  /\ server = <<>> /\ pid = 0 /\ password = Nobody
  /\ request = [r \in Requests |-> Idle] /\ excused = FALSE

Next ==
  \/ \E r \in Requests :
       \/ Begin(r) \/ Raises(r) \/ Reads(r) \/ Returned(r)
       \/ CreateArrives(r) \/ WriteArrives(r) \/ StopArrives(r) \/ StartArrives(r) \/ ExecArrives(r)
  \/ \E s \in DOMAIN server : Exits(s)

Spec == Init /\ [][Next]_vars

-----------------------------------------------------------------------------
TypeOK ==
  /\ pid \in 0 .. Len(server) /\ Len(server) <= MaxServers
  /\ password \in Requests \cup {Nobody}
  /\ \A r \in Requests : request[r].kind \in DOMAIN Program \cup {"none"}

(* As long as requests to control the workload do not overlap, and nobody     *)
(* starts it while it runs, it is not run twice: a restart never starts a     *)
(* second server beside one it could not stop.                               *)
OneServer == ~excused => Cardinality(Up) <= 1

(* And once the restart of a setup has gone well, no server runs with another *)
(* password than the file has, so that console commands reach it.            *)
ConsoleAgrees ==
  \A r \in Requests :
    /\ ~excused /\ password = r /\ request[r].ok
    /\ \A i \in Left(r) : Program[request[r].kind][i] # "start"
    => \A s \in Up : server[s].password = r
=============================================================================
