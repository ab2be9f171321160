---------------------------- MODULE WebTerminal ----------------------------
(***************************************************************************)
(* The web terminal of the board: server/modules/terminal.py and the          *)
(* WebSocket handler of server/main.py.  One event loop runs all handlers;    *)
(* a handler and the task that reads its shell are suspended independently.   *)
(* What is typed and shown is left out.                                      *)
(***************************************************************************)
EXTENDS Integers, FiniteSets

CONSTANTS
  Conns,       \* WebSocket connections, each made once
  MaxSessions, \* max_sessions
  MaxLeaks     \* bound: sessions that could not be created

VARIABLES
  running,  \* the server
  handler,  \* of each connection: where its handler is
  reader,   \* of each connection: its task that reads the shell
  sessions, \* WebTerminal.sessions
  shell,    \* of each connection: its process
  pty,      \* the connections whose PTY is open in the server
  leaked    \* PTYs nobody will close

vars == <<running, handler, reader, sessions, shell, pty, leaked>>

(* The WebSocket is accepted; the handler waits for the size. *)
Connect(c) ==
  /\ running /\ handler[c] = "none"
  /\ handler' = [handler EXCEPT ![c] = "accepted"]
  /\ UNCHANGED <<running, reader, sessions, shell, pty, leaked>>

(* create_session, and the task that reads the shell. *)
Create(c) ==
  /\ running /\ handler[c] = "accepted" /\ Cardinality(sessions) < MaxSessions
  /\ sessions' = sessions \cup {c} /\ pty' = pty \cup {c}
  /\ shell' = [shell EXCEPT ![c] = "alive"]
  /\ handler' = [handler EXCEPT ![c] = "open"] /\ reader' = [reader EXCEPT ![c] = "reading"]
  /\ UNCHANGED <<running, leaked>>

(* Too many sessions, or no shell: then both ends of the PTY stay open.       *)
CreateFails(c) ==
  /\ handler[c] = "accepted"
  /\ \/ Cardinality(sessions) >= MaxSessions /\ UNCHANGED leaked
     \/ Cardinality(sessions) < MaxSessions /\ leaked < MaxLeaks /\ leaked' = leaked + 1
  /\ handler' = [handler EXCEPT ![c] = "closed"]
  /\ UNCHANGED <<running, reader, sessions, shell, pty>>

(* The reader ends when the shell has, or when the browser cannot be reached; *)
(* the handler goes on, and keeps its session, until the browser leaves.      *)
ReaderEnds(c) ==
  /\ reader[c] = "reading"
  /\ reader' = [reader EXCEPT ![c] = "ended"]
  /\ UNCHANGED <<running, handler, sessions, shell, pty, leaked>>

ShellExits(c) ==
  /\ shell[c] = "alive"
  /\ shell' = [shell EXCEPT ![c] = "gone"]
  /\ UNCHANGED <<running, handler, reader, sessions, pty, leaked>>

(* Mutant: the process is asked to end, and not killed when it does not. *)
CloseSessionAsks(c) ==
  /\ sessions' = sessions \ {c} /\ pty' = pty \ {c}
  /\ shell' \in {shell, [shell EXCEPT ![c] = IF c \in sessions THEN "gone" ELSE @]}

(* close_session: the PTY is closed, and the process terminated or, after     *)
(* three seconds in which nothing else runs, killed.                         *)
CloseSession(c) ==
  /\ sessions' = sessions \ {c} /\ pty' = pty \ {c}
  /\ shell' = [shell EXCEPT ![c] = IF c \in sessions THEN "gone" ELSE @]

(* The browser leaves or sends what cannot be read: the reader is cancelled   *)
(* and the session closed without another await.                             *)
Disconnect(c) ==
  /\ handler[c] \in {"accepted", "open"}
  /\ CloseSession(c)
  /\ handler' = [handler EXCEPT ![c] = "closed"]
  /\ reader' = [reader EXCEPT ![c] = IF @ = "reading" THEN "ended" ELSE @]
  /\ UNCHANGED <<running, leaked>>

(* cleanup, at the end of the server: the sessions that are still there. *)
Shutdown ==
  /\ running
  /\ running' = FALSE
  /\ sessions' = {} /\ pty' = {}
  /\ shell' = [c \in Conns |-> IF c \in sessions THEN "gone" ELSE shell[c]]
  /\ UNCHANGED <<handler, reader, leaked>>

Init ==
  /\ running = TRUE
  /\ handler = [c \in Conns |-> "none"] /\ reader = [c \in Conns |-> "none"]
  /\ sessions = {} /\ shell = [c \in Conns |-> "none"] /\ pty = {} /\ leaked = 0

Next ==
  \/ \E c \in Conns :
       Connect(c) \/ Create(c) \/ CreateFails(c) \/ ReaderEnds(c) \/ ShellExits(c) \/ Disconnect(c)
  \/ Shutdown

Spec == Init /\ [][Next]_vars

-----------------------------------------------------------------------------
TypeOK ==
  /\ running \in BOOLEAN /\ sessions \subseteq Conns /\ pty \subseteq Conns /\ leaked \in 0..MaxLeaks
  /\ \A c \in Conns :
       /\ handler[c] \in {"none", "accepted", "open", "closed"}
       /\ reader[c] \in {"none", "reading", "ended"} /\ shell[c] \in {"none", "alive", "gone"}

(* No shell outlives the connection it was opened for, or the server; a PTY   *)
(* is open as long as its session is there, and nobody reads one after that,  *)
(* when its number may be another session's; and the sessions keep their      *)
(* limit.                                                                    *)
NoOrphanShell ==
  /\ Cardinality(sessions) <= MaxSessions /\ pty = sessions
  /\ \A c \in Conns :
       /\ shell[c] = "alive" => running /\ handler[c] = "open" /\ c \in sessions
       /\ running /\ reader[c] = "reading" => c \in pty
=============================================================================
