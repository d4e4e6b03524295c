----------------------------- MODULE RpcServer -----------------------------
(***************************************************************************)
(* The RPC connection: RustDaemonClient spawns the daemon as a child       *)
(* process, writes requests to its stdin and reads responses and events    *)
(* from its stdout; RpcServer answers line by line from one thread,        *)
(* remembers the last responses by request id, and pushes every journal    *)
(* event once.  Requests time out, the child may die at any moment, and    *)
(* clients repeat requests under the same id.                              *)
(*                                                                         *)
(* The backend is abstracted to what a request does to the event journal;  *)
(* an event or an execution is a number of its own (born), so that two of  *)
(* them are never confused.                                                *)
(***************************************************************************)
EXTENDS Integers, SequencesExt, FiniteSetsExt

CONSTANTS
  Ids,           \* request ids
  Payloads,      \* what a request says besides its id
  EffectOf,      \* what the backend does with a payload
  Limit,         \* REPLAY_CACHE_LIMIT
  MaxInputs,     \* bound on the requests sent and the events heard
  MaxLives       \* bound on the processes spawned

Effects == {"read", "fails", "durable", "ephemeral"}

ASSUME RpcAssumption ==
  /\ EffectOf \in [Payloads -> Effects]
  /\ Limit \in Nat \ {0}
  /\ {MaxInputs, MaxLives} \subseteq Nat

VARIABLES
  child,     \* is there a child the client writes to and reads from?
  process,   \* the newest process: "none", "up" or "exited"
  closing,   \* processes that exited and whose "close" has not been seen
  stdin,     \* requests on their way to the process
  ended,     \* has the client ended stdin?
  stdout,    \* messages on their way to the client
  pending,   \* ids the client waits for
  cache,     \* replay_cache in replay_order, oldest first
  journal,   \* the events in memory; the cursor of an event is its position
  disk,      \* the events in the state file
  cursor,    \* emitted_event_cursor
  executed,  \* requests this process executed, in order (history)
  written,   \* messages written to stdout by all processes (history)
  born,      \* executions and events so far (history)
  spent      \* how much of each bound is used up

server == <<cache, journal, disk, cursor, executed, written, born>>
clientSide == <<child, closing, ended, pending>>
vars == <<clientSide, process, stdin, stdout, server, spent>>

Requests == [id: Ids, payload: Payloads]

Response(r, run) == [kind |-> "response", id |-> r.id, run |-> run]

Event(at, event) ==
  [kind |-> "event", cursor |-> at, event |-> event, life |-> spent.lives]

Messages ==
  [kind: {"response"}, id: Ids, run: Nat]
    \cup [kind: {"event"}, cursor: Nat,
          event: [born: Nat, run: Nat], life: Nat]

Conflict == 0    \* the run of a request_id_conflict response

TakeInput ==
  /\ spent.inputs < MaxInputs
  /\ spent' = [spent EXCEPT !.inputs = @ + 1]

-----------------------------------------------------------------------------

Init ==
  /\ child = FALSE
  /\ process = "none"
  /\ closing = 0
  /\ stdin = <<>>
  /\ ended = FALSE
  /\ stdout = <<>>
  /\ pending = {}
  /\ cache = <<>>
  /\ journal = <<>>
  /\ disk = <<>>
  /\ cursor = 0
  /\ executed = <<>>
  /\ written = <<>>
  /\ born = 0
  /\ spent = [inputs |-> 0, lives |-> 0]

-----------------------------------------------------------------------------
(* The server. *)

NewEvent(run) == [born |-> born + 1, run |-> run]

(***************************************************************************)
(* What dispatch() leaves in memory and in the file.  A failing request    *)
(* and one that reads record nothing; trigger_track records its event in   *)
(* memory only.                                                            *)
(***************************************************************************)
Dispatch(payload, run) ==
  LET effect == EffectOf[payload]
      grown  == IF effect \in {"durable", "ephemeral"}
                THEN Append(journal, NewEvent(run)) ELSE journal
  IN  /\ journal' = grown
      /\ disk' = IF effect = "durable" THEN grown ELSE disk

Cached(c, entry) == Append(IF Len(c) >= Limit THEN Tail(c) ELSE c, entry)

(***************************************************************************)
(* Bug: the cursor is not advanced.                                        *)
(***************************************************************************)
DrainedAgain(events) ==
  [messages |-> [i \in 1 .. Len(events) - cursor |-> Event(cursor + i, events[cursor + i])],
   cursor   |-> cursor]

Drained(events) ==
  [messages |-> [i \in 1 .. Len(events) - cursor |-> Event(cursor + i, events[cursor + i])],
   cursor   |-> Len(events)]

(***************************************************************************)
(* Bug: the events go out ahead of the response.                           *)
(***************************************************************************)
EventsFirst(response, events) == events \o response

Outgoing(response, events) == response \o events

(***************************************************************************)
(* The process writes messages one by one and may die before any of them.  *)
(***************************************************************************)
WriteOrDie(messages) ==
  \E n \in 0 .. Len(messages) :
    /\ stdout' = stdout \o SubSeq(messages, 1, n)
    /\ written' = written \o SubSeq(messages, 1, n)
    /\ IF n = Len(messages)
       THEN UNCHANGED <<process, closing>>
       ELSE process' = "exited" /\ closing' = closing + 1

(***************************************************************************)
(* Bug: a request is looked up by the whole envelope.                      *)
(***************************************************************************)
RememberedByEnvelope(r) == {i \in DOMAIN cache : cache[i].request = r}

Remembered(r) == {i \in DOMAIN cache : cache[i].request.id = r.id}

(***************************************************************************)
(* handle_messages: a remembered id is answered from the cache, or refused *)
(* when the request differs; any other request is executed and remembered. *)
(***************************************************************************)
Execute(r) ==
  /\ Remembered(r) = {}
  /\ Dispatch(r.payload, born + 1)
  /\ born' = born + 1
  /\ executed' = Append(executed, r)
  /\ cache' = Cached(cache, [request |-> r, run |-> born + 1])
  /\ cursor' = Drained(journal').cursor
  /\ WriteOrDie(Outgoing(<<Response(r, born + 1)>>, Drained(journal').messages))

Replay(r) ==
  \E i \in Remembered(r) :
    /\ WriteOrDie(<<Response(r, IF cache[i].request = r THEN cache[i].run
                                ELSE Conflict)>>)
    /\ UNCHANGED <<cache, journal, disk, cursor, executed, born>>

HandleLine ==
  /\ process = "up"
  /\ stdin # <<>>
  /\ stdin' = Tail(stdin)
  /\ Execute(Head(stdin)) \/ Replay(Head(stdin))
  /\ UNCHANGED <<child, ended, pending, spent>>

(***************************************************************************)
(* Between two lines the hardware is polled: something heard or due.       *)
(***************************************************************************)
Poll ==
  /\ process = "up"
  /\ TakeInput
  /\ journal' = Append(journal, NewEvent(Conflict))
  /\ disk' = journal'
  /\ born' = born + 1
  /\ cursor' = Drained(journal').cursor
  /\ WriteOrDie(Drained(journal').messages)
  /\ UNCHANGED <<child, ended, pending, stdin, cache, executed>>

Exit ==
  /\ process' = "exited"
  /\ closing' = closing + 1

(***************************************************************************)
(* End of stdin: the lines read before it are answered, then shutdown()    *)
(* records a last event that is not pushed any more.                       *)
(***************************************************************************)
Shutdown ==
  /\ process = "up"
  /\ ended
  /\ stdin = <<>>
  /\ Exit
  /\ journal' = Append(journal, NewEvent(Conflict))
  /\ disk' = journal'
  /\ born' = born + 1
  /\ UNCHANGED <<child, ended, pending, stdin, stdout, cache, cursor,
                 executed, written, spent>>

Crash ==
  /\ process = "up"
  /\ Exit
  /\ UNCHANGED <<child, ended, pending, stdin, stdout, server, spent>>

-----------------------------------------------------------------------------
(* The client. *)

(***************************************************************************)
(* start(): the daemon loads the journal, records that it is connected,    *)
(* and takes everything in the journal for delivered.                      *)
(***************************************************************************)
Spawn ==
  /\ ~child
  /\ process # "up"
  /\ spent.lives < MaxLives
  /\ spent' = [spent EXCEPT !.lives = @ + 1]
  /\ child' = TRUE
  /\ process' = "up"
  /\ ended' = FALSE
  /\ stdin' = <<>>
  /\ stdout' = <<>>
  /\ cache' = <<>>
  /\ journal' = Append(disk, NewEvent(Conflict))
  /\ disk' = journal'
  /\ cursor' = Len(journal')
  /\ executed' = <<>>
  /\ born' = born + 1
  /\ UNCHANGED <<closing, pending, written>>

(***************************************************************************)
(* The exit code of a child is known before its "close"; a request made in *)
(* between starts the next child.  (A child let go while it runs, which    *)
(* the late "close" then leads to, is where the model ends.)               *)
(***************************************************************************)
NoticeExit ==
  /\ child
  /\ process = "exited"
  /\ stdout = <<>>
  /\ child' = FALSE
  /\ UNCHANGED <<closing, ended, pending, process, stdin, stdout, server, spent>>

Request(id, payload) ==
  /\ child
  /\ ~ended
  /\ id \notin pending
  /\ TakeInput
  /\ pending' = pending \cup {id}
  /\ stdin' = Append(stdin, [id |-> id, payload |-> payload])
  /\ UNCHANGED <<child, closing, ended, process, stdout, server>>

Timeout(id) ==
  /\ pending' = pending \ {id}
  /\ pending' # pending
  /\ UNCHANGED <<child, closing, ended, process, stdin, stdout, server, spent>>

(***************************************************************************)
(* Events go to the listeners; a response settles the request that waits   *)
(* under its id, and nothing when that one timed out.                      *)
(***************************************************************************)
Receive ==
  /\ child
  /\ stdout # <<>>
  /\ stdout' = Tail(stdout)
  /\ pending' = IF Head(stdout).kind = "response"
                THEN pending \ {Head(stdout).id} ELSE pending
  /\ UNCHANGED <<child, closing, ended, process, stdin, server, spent>>

EndStdin ==
  /\ child
  /\ ~ended
  /\ ended' = TRUE
  /\ UNCHANGED <<child, closing, pending, process, stdin, stdout, server, spent>>

(***************************************************************************)
(* Bug: the requests on their way are forgotten, not rejected.             *)
(***************************************************************************)
RejectNone(waiting) == waiting

RejectAll(waiting) == {}

(***************************************************************************)
(* "close" of a process whose output was read to its end.  The handler     *)
(* lets go of the current child, whichever process it is of.               *)
(***************************************************************************)
Close ==
  /\ closing > 0
  /\ process = "exited" => stdout = <<>>
  /\ closing' = closing - 1
  /\ child' = FALSE
  /\ pending' = RejectAll(pending)
  /\ UNCHANGED <<ended, process, stdin, stdout, server, spent>>

-----------------------------------------------------------------------------

Client ==
  \/ Spawn \/ NoticeExit \/ Receive \/ EndStdin \/ Close
  \/ \E id \in Ids : Timeout(id) \/ \E p \in Payloads : Request(id, p)

Server == HandleLine \/ Poll \/ Shutdown \/ Crash

Next == Client \/ Server

(***************************************************************************)
(* The server's loop goes on, and the runtime delivers what was written    *)
(* and reports the end of a child.  No timeout, request or start is owed.  *)
(***************************************************************************)
Spec ==
  Init /\ [][Next]_vars
       /\ WF_vars(HandleLine) /\ WF_vars(Receive) /\ WF_vars(Close)

-----------------------------------------------------------------------------

TypeOK ==
  /\ {child, ended} \subseteq BOOLEAN
  /\ process \in {"none", "up", "exited"}
  /\ closing \in Nat
  /\ stdin \in Seq(Requests)
  /\ {stdout[i] : i \in DOMAIN stdout} \subseteq Messages
  /\ pending \subseteq Ids
  /\ Len(cache) <= Limit
  /\ cursor <= Len(journal)

(***************************************************************************)
(* Within one process a request id is executed a second time only after    *)
(* responses to Limit other requests were cached (ARCHITECTURE.md: "the    *)
(* last 1,024 completed requests").                                        *)
(***************************************************************************)
RememberedNotRepeated ==
  \A i, j \in DOMAIN executed :
    i < j /\ executed[i].id = executed[j].id => j - i > Limit

Pushed == {i \in DOMAIN written : written[i].kind = "event"}

(***************************************************************************)
(* No event is pushed twice, not even by different processes, and within   *)
(* one process the pushed cursors follow one another without a gap: the    *)
(* drain after every request and every poll.                               *)
(***************************************************************************)
PushedOnceInOrder ==
  \A i, j \in Pushed : i < j =>
    /\ written[i].event # written[j].event
    /\ written[i].life = written[j].life =>
         /\ written[i].cursor < written[j].cursor
         /\ \A c \in written[i].cursor + 1 .. written[j].cursor - 1 :
              \E k \in Pushed : i < k /\ k < j /\ written[k].cursor = c

(***************************************************************************)
(* An event that a request caused is pushed after the response to that     *)
(* request ("asynchronous acknowledgements after the response").           *)
(***************************************************************************)
AnswerBeforeEvents ==
  \A j \in DOMAIN written :
    written[j].kind = "event" /\ written[j].event.run # Conflict =>
      \E i \in 1 .. j - 1 :
        written[i].kind = "response" /\ written[i].run = written[j].event.run

(***************************************************************************)
(* A cursor that was pushed names one event for good: "`cursor` is the     *)
(* durable journal cursor for the event" (DAEMON_RPC.md).                  *)
(***************************************************************************)
CursorNamesOneEvent ==
  \A i, j \in Pushed :
    written[i].cursor = written[j].cursor => written[i].event = written[j].event

(***************************************************************************)
(* Every request is answered or rejected, without the help of its timeout. *)
(***************************************************************************)
EveryRequestSettles == \A id \in Ids : id \in pending ~> id \notin pending
=============================================================================
