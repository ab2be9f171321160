------------------------------ MODULE EventHub ------------------------------
(***************************************************************************)
(* The event hub (runtime/events.py) and its two kinds of clients in          *)
(* api/routes.py: the event stream of one session, run or task, and the       *)
(* WebSocket of the dashboard.  Events are told apart by their number and by  *)
(* whether the client's matcher takes them.                                  *)
(***************************************************************************)
EXTENDS Integers, Sequences, SequencesExt

CONSTANTS
  Clients,   \* connections of either kind
  History,   \* history_limit
  Replay,    \* how many recent events a client is sent first (20)
  MaxEvents, \* bound: events published
  Burst      \* bound: events published while a WebSocket waits for its first turn

VARIABLES
  published, \* of each event so far: do the matchers take it?
  history,   \* _history, as event numbers
  client     \* of each connection: where it is, what waits in its queue and is
             \* to be replayed, what it was sent, and when it subscribed

vars == <<published, history, client>>

(* Queues and replays are filled in the order of the events and emptied from  *)
(* their front: they are the sets of their events, of which the least is next. *)
Off == [at |-> "off", queue |-> {}, plan |-> {}, got |-> <<>>, since |-> 0]
Subscribed(c) == client[c].at \notin {"off", "gone"}
First(e, events) == e \in events /\ \A f \in events : e <= f

Matches(e) == published[e]
Latest(seq, n) == SubSeq(seq, 1 + (IF Len(seq) > n THEN Len(seq) - n ELSE 0), Len(seq))

(* recent(): the last events of the history, of which the matching ones. *)
Recent == {e \in ToSet(Latest(history, Replay)) : Matches(e)}

(* Mutant: the history keeps everything. *)
PublishUncut(taken) ==
  /\ Len(published) < MaxEvents
  /\ published' = Append(published, taken)
  /\ history' = Append(history, Len(published'))
  /\ client' = [c \in Clients |->
       IF Subscribed(c) /\ taken
       THEN [client[c] EXCEPT !.queue = @ \cup {Len(published')}] ELSE client[c]]

(* publish: into the history, which keeps its last entries, and into the      *)
(* queue of every subscriber whose matcher takes it.  The queues have no      *)
(* limit, so that no put waits.                                              *)
Publish(taken) ==
  /\ Len(published) < MaxEvents
  /\ \A c \in Clients : client[c].at = "accepted" => Len(published) - client[c].since < Burst
  /\ published' = Append(published, taken)
  /\ history' = Latest(Append(history, Len(published')), History)
  /\ client' = [c \in Clients |->
       IF Subscribed(c) /\ taken
       THEN [client[c] EXCEPT !.queue = @ \cup {Len(published')}] ELSE client[c]]

(* runtime_events_stream: subscribes and looks up what to replay at once. *)
Stream(c) ==
  /\ client[c] = Off
  /\ client' = [client EXCEPT ![c] = [Off EXCEPT !.at = "sending", !.plan = Recent,
                                                !.since = Len(published)]]
  /\ UNCHANGED <<published, history>>

(* agent_websocket: subscribes; the task that forwards events starts later. *)
Accept(c) ==
  /\ client[c] = Off
  /\ client' = [client EXCEPT ![c] = [Off EXCEPT !.at = "accepted", !.since = Len(published)]]
  /\ UNCHANGED <<published, history>>

(* Only then does it look up what to send first. *)
Forward(c) ==
  /\ client[c].at = "accepted"
  /\ client' = [client EXCEPT ![c].at = "sending", ![c].plan = Recent]
  /\ UNCHANGED <<published, history>>

(* The replayed events come first. *)
Replays(c, e) ==
  /\ client[c].at = "sending" /\ First(e, client[c].plan)
  /\ client' = [client EXCEPT ![c].plan = @ \ {e}, ![c].got = Append(@, e)]
  /\ UNCHANGED <<published, history>>

(* Mutant: an event that was replayed is forwarded again. *)
ForwardsTwice(c, e) ==
  /\ client[c].at = "sending" /\ client[c].plan = {} /\ First(e, client[c].queue)
  /\ client' = [client EXCEPT ![c].queue = @ \ {e}, ![c].got = Append(@, e)]
  /\ UNCHANGED <<published, history>>

(* Then the live ones; what was seen is not sent again. *)
Forwards(c, e) ==
  /\ client[c].at = "sending" /\ client[c].plan = {} /\ First(e, client[c].queue)
  /\ client' = [client EXCEPT
       ![c].queue = @ \ {e},
       ![c].got = IF e \in ToSet(client[c].got) THEN @ ELSE Append(@, e)]
  /\ UNCHANGED <<published, history>>

(* The finally clauses unsubscribe. *)
Disconnect(c) ==
  /\ Subscribed(c)
  /\ client' = [client EXCEPT ![c] = [Off EXCEPT !.at = "gone"]]
  /\ UNCHANGED <<published, history>>

Init == published = <<>> /\ history = <<>> /\ client = [c \in Clients |-> Off]

Next ==
  \/ \E taken \in BOOLEAN : Publish(taken)
  \/ \E c \in Clients : Stream(c) \/ Accept(c) \/ Forward(c) \/ Disconnect(c)
  \/ \E c \in Clients : \E e \in DOMAIN published : Replays(c, e) \/ Forwards(c, e)

Spec == Init /\ [][Next]_vars

-----------------------------------------------------------------------------
TypeOK ==
  /\ published \in Seq(BOOLEAN) /\ Len(history) <= History
  /\ \A c \in Clients : client[c].at \in {"off", "accepted", "sending", "gone"}

(* What a client was sent, and with it what waits for it, is every matching   *)
(* event from the first one it got on, and those since it subscribed, once    *)
(* and in order: nothing is lost between the replay and the live events, and  *)
(* nothing comes twice.                                                      *)
StreamIsGapless ==
  \A c \in Clients :
    LET k    == client[c]
        sent == ToSet(k.got)
        all  == sent \cup k.plan \cup k.queue
    IN  k.at = "sending" =>
          /\ \A i, j \in DOMAIN k.got : i < j => k.got[i] < k.got[j]
          /\ \A e \in sent : \A f \in k.plan \cup (k.queue \ sent) : e < f
          /\ \A e \in all : e \in DOMAIN published /\ Matches(e)
          /\ \A e \in DOMAIN published :
               Matches(e) /\ (e > k.since \/ \E f \in all : f < e) => e \in all
=============================================================================
