---------------------------- MODULE ShellChannel ----------------------------
(***************************************************************************)
(* How a command reaches the target: SSHChannelManager (channels/ssh.py) with *)
(* its two backends, ActionDriver (action/driver.py), which types a command   *)
(* on the HID keyboard when ssh cannot run it, and ToolExecutor               *)
(* (tools/executor.py), which chooses between them.  Calls are coroutines of  *)
(* one event loop: they interleave where they await.                          *)
(***************************************************************************)
EXTENDS Integers, FiniteSets

CONSTANTS
  Calls,       \* the calls made of the channel, each once
  MaxConnects  \* bound: connections opened by asyncssh

VARIABLES
  backend,   \* "system" (a new ssh process per command) or "asyncssh"
  active,    \* _active_backend: known from the first connect on
  connected, \* _connected
  client,    \* asyncssh: the connection in use, 0 if none
  up,        \* asyncssh: the connections that are alive
  opened,    \* asyncssh: connections opened so far
  lock,      \* holder of _connect_lock
  call       \* of each call: what it is, where it is suspended, what it did

vars == <<backend, active, connected, client, up, opened, lock, call>>

Nobody == "none"
Idle == [kind |-> "none", pc |-> "idle", conn |-> 0, sent |-> FALSE, lost |-> FALSE,
         copies |-> 0, via |-> "none", success |-> FALSE]

Kinds == {"tool",     \* shell.exec, systemd.*, docker.ps
          "action",   \* action.shell, a step of a skill
          "direct",   \* run_with_status, called by an endpoint
          "stream",   \* run_stream, called by the console of the dashboard
          "check",    \* run_check, called by the passive monitor
          "connect", "close"}

link   == <<connected, client, up>>
config == <<backend, active, opened>>

HasShell == IF active = "system" THEN connected ELSE client \in up

Goes(t, pc) == call' = [call EXCEPT ![t].pc = pc]
Ends(t, success, via) ==
  call' = [call EXCEPT ![t].pc = "done", ![t].success = success, ![t].via = via]

-----------------------------------------------------------------------------
(* _run_shell and _handle_shell: ssh if there is a shell, else the keyboard.  *)
(* The tool executor asks first and the driver asks again; nothing runs in    *)
(* between.                                                                  *)
RouteShell(t, kind) ==
  call' = [call EXCEPT ![t] =
    [Idle EXCEPT !.kind = kind, !.conn = client, !.pc = IF HasShell THEN "running" ELSE "typing"]]

(* run_with_status, run_check: without a shell a check connects first, a      *)
(* command only on the system backend.                                       *)
RunDirectly(t, kind) ==
  call' = [call EXCEPT ![t] =
    [Idle EXCEPT !.kind = kind, !.conn = client,
       !.pc = IF HasShell THEN "running"
              ELSE IF kind = "check" \/ active = "system" THEN "waiting" ELSE "done"]]

(* ssh_stream, the console of the dashboard: run_stream if there is a shell   *)
(* and neither a plan nor the policy is in the way; else an error.            *)
Console(t) ==
  \E pc \in {"done"} \cup (IF HasShell THEN {"running"} ELSE {}) :
    call' = [call EXCEPT ![t] = [Idle EXCEPT !.kind = "stream", !.conn = client, !.pc = pc]]

Request(t) ==
  /\ call[t] = Idle
  /\ \/ \E kind \in {"tool", "action"} : RouteShell(t, kind)
     \/ \E kind \in {"direct", "check"} : RunDirectly(t, kind)
     \/ Console(t)
     \/ call' = [call EXCEPT ![t] = [Idle EXCEPT !.kind = "connect", !.pc = "waiting"]]
  /\ UNCHANGED <<lock, link, config>>

(* close: takes no lock, and forgets the client when that has closed,         *)
(* whichever it is then.                                                     *)
Close(t) ==
  /\ call[t] = Idle
  /\ connected' = FALSE
  /\ up' = up \ {client}
  /\ call' = [call EXCEPT ![t] =
       [Idle EXCEPT !.kind = "close", !.pc = IF client = 0 THEN "done" ELSE "closing"]]
  /\ UNCHANGED <<client, lock, config>>

Closed(t) ==
  /\ call[t].pc = "closing"
  /\ client' = 0
  /\ Ends(t, TRUE, "none")
  /\ UNCHANGED <<connected, up, lock, config>>

-----------------------------------------------------------------------------
(* connect. *)
TakeLock(t) ==
  /\ call[t].pc = "waiting" /\ lock = Nobody
  /\ lock' = t /\ active' = backend
  /\ Goes(t, "connecting")
  /\ UNCHANGED <<backend, opened, link>>

(* It is connected: what asked for it goes on.  The client that was there is  *)
(* replaced, not closed.                                                     *)
Connected(t) ==
  /\ call[t].pc = "connecting"
  /\ lock' = Nobody /\ connected' = TRUE
  /\ IF active = "system"
     THEN UNCHANGED <<client, up, opened>>
     ELSE /\ opened < MaxConnects
          /\ opened' = opened + 1 /\ client' = opened' /\ up' = up \cup {opened'}
  /\ call' = IF call[t].kind = "connect"
             THEN [call EXCEPT ![t].pc = "done", ![t].success = TRUE]
             ELSE [call EXCEPT ![t].pc = "running", ![t].conn = client']
  /\ UNCHANGED <<backend, active>>

NotConnected(t) ==
  /\ call[t].pc = "connecting"
  /\ lock' = Nobody /\ connected' = FALSE
  /\ client' = IF active = "system" THEN client ELSE 0
  /\ Ends(t, FALSE, "none")
  /\ UNCHANGED <<up, config>>

-----------------------------------------------------------------------------
(* A command in flight reaches the target, and its answer comes back. *)
Delivered(t) ==
  /\ call[t].pc = "running" /\ ~call[t].sent
  /\ active = "asyncssh" => call[t].conn \in up
  /\ call' = [call EXCEPT ![t].sent = TRUE, ![t].copies = @ + 1]
  /\ UNCHANGED <<lock, link, config>>

(* It returned, with the exit status of the command; or the system's ssh did,  *)
(* with its own: 255 also when the target could not be reached, which is a      *)
(* result like any other.  The driver does not look at the status.              *)
SshReturns(t) ==
  /\ call[t].pc = "running" /\ call[t].kind # "stream"
  /\ call[t].sent \/ active = "system"
  /\ \E exit0 \in {FALSE, call[t].sent} : Ends(t, exit0 \/ call[t].kind = "action", "ssh")
  /\ UNCHANGED <<lock, link, config>>

(* The chunks of a stream end with the exit status, or without one.           *)
StreamEnds(t) ==
  /\ call[t].pc = "running" /\ call[t].kind = "stream"
  /\ \E exit0 \in {FALSE} \cup {call[t].sent} : Ends(t, exit0, IF call[t].sent THEN "ssh" ELSE "none")
  /\ UNCHANGED <<lock, link, config>>

(* The driver types a command whose ssh attempt raised; a tool call passes    *)
(* the exception on.                                                         *)
Raised(t) ==
  call' = [call EXCEPT ![t].pc = IF call[t].kind = "action" THEN "typing" ELSE "done",
                       ![t].lost = call[t].sent]

(* Mutant: the tool executor falls back to the keyboard as the driver does. *)
TimesOutTyped(t) ==
  /\ call[t].pc = "running"
  /\ call' = [call EXCEPT ![t].pc = IF call[t].kind \in {"tool", "action"} THEN "typing" ELSE "done",
                          ![t].lost = call[t].sent]
  /\ UNCHANGED <<lock, link, config>>

(* No answer in time, whether or not the command arrived; the system backend  *)
(* kills its ssh process.  The target may still be at it.                     *)
TimesOut(t) ==
  /\ call[t].pc = "running"
  /\ Raised(t)
  /\ UNCHANGED <<lock, link, config>>

(* On asyncssh another failure forgets the client, the one in use by now; a   *)
(* check or a stream leaves it.                                              *)
Breaks(t) ==
  /\ call[t].pc = "running" /\ active = "asyncssh" /\ call[t].kind \notin {"check", "stream"}
  /\ client' = 0
  /\ Raised(t)
  /\ UNCHANGED <<connected, up, lock, config>>

(* The command is typed, and taken to have worked; or the adapter raises.     *)
Typed(t) ==
  /\ call[t].pc = "typing"
  /\ \/ call' = [call EXCEPT ![t].pc = "done", ![t].copies = @ + 1,
                             ![t].via = "hid", ![t].success = TRUE]
     \/ Ends(t, FALSE, "hid")
  /\ UNCHANGED <<lock, link, config>>

(* The link to the target drops; asyncssh sees it, the system backend does    *)
(* not look.                                                                 *)
Drop ==
  /\ client \in up
  /\ up' = up \ {client}
  /\ UNCHANGED <<connected, client, lock, call, config>>

Init ==
  /\ backend \in {"system", "asyncssh"} /\ active = "none"
  /\ connected = FALSE /\ client = 0 /\ up = {} /\ opened = 0
  /\ lock = Nobody
  /\ call = [t \in Calls |-> Idle]

Next ==
  \/ \E t \in Calls :
       \/ Request(t) \/ Close(t) \/ Closed(t) \/ TakeLock(t) \/ Connected(t) \/ NotConnected(t)
       \/ Delivered(t) \/ SshReturns(t) \/ StreamEnds(t) \/ TimesOut(t) \/ Breaks(t) \/ Typed(t)
  \/ Drop

Spec == Init /\ [][Next]_vars

-----------------------------------------------------------------------------
TypeOK ==
  /\ connected \in BOOLEAN /\ client \in 0..MaxConnects /\ up \subseteq 1..MaxConnects
  /\ lock \in Calls \cup {Nobody}
  /\ \A t \in Calls : call[t].pc \in
       {"idle", "waiting", "connecting", "running", "typing", "closing", "done"}

(* Done, says the driver, whatever the system's ssh came back with. *)
Blind(c) == backend = "system" /\ c.kind = "action" /\ c.via = "ssh"

(* A command arrives once at most, and only by the channel the report names;   *)
(* only a step of a skill is run a second time, on the keyboard, and only       *)
(* after the answer to the first was lost.  What is reported as done has        *)
(* arrived, except such a step over the system's ssh, which is reported as done *)
(* also when the target could not be reached.                                 *)
NoSecondCopy ==
  \A t \in Calls : LET c == call[t] IN
    /\ c.copies <= IF c.kind = "action" /\ c.lost THEN 2 ELSE 1
    /\ c.kind \notin {"connect", "close"} /\ c.success => c.copies >= 1 \/ Blind(c)
    /\ c.via = "ssh" => c.copies = IF c.sent THEN 1 ELSE 0
    /\ c.via = "hid" => c.kind \in {"tool", "action"} /\ (c.sent => c.lost)
=============================================================================
