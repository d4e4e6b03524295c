-------------------------- MODULE RpcServer_proofs --------------------------
(***************************************************************************)
(* At most once while remembered, and what the daemon writes to stdout,    *)
(* for every set of request ids and payloads, every size of the replay     *)
(* cache, and any number of requests, timeouts and processes.              *)
(***************************************************************************)
EXTENDS RpcServer, SequenceTheorems, TLAPS

Entries == [request: Requests, run: Nat]

TypeInv ==
  /\ born \in Nat
  /\ stdin \in Seq(Requests)
  /\ executed \in Seq(Requests)
  /\ cache \in Seq(Entries)

(***************************************************************************)
(* The cache is what was executed last, and all of it while there is room. *)
(***************************************************************************)
TailInv ==
  /\ Len(cache) <= Limit
  /\ Len(cache) <= Len(executed)
  /\ Len(cache) < Limit => Len(cache) = Len(executed)
  /\ \A i \in 1 .. Len(cache) :
       cache[i].request = executed[Len(executed) - Len(cache) + i]

IInv == TypeInv /\ TailInv /\ RememberedNotRepeated

-----------------------------------------------------------------------------
(***************************************************************************)
(* No request has been sent and no process started.                        *)
(***************************************************************************)
LEMMA InitInv == Init => IInv
  BY RpcAssumption DEF Init, IInv, TypeInv, TailInv, RememberedNotRepeated

(***************************************************************************)
(* remember() appends the entry, dropping the oldest from a full cache.    *)
(***************************************************************************)
LEMMA CachedIs ==
  ASSUME NEW c \in Seq(Entries), Len(c) <= Limit, NEW e \in Entries
  PROVE  LET drop == IF Len(c) = Limit THEN 1 ELSE 0
         IN  /\ Cached(c, e) \in Seq(Entries)
             /\ Len(Cached(c, e)) = Len(c) - drop + 1
             /\ \A i \in 1 .. Len(c) - drop : Cached(c, e)[i] = c[i + drop]
             /\ Cached(c, e)[Len(c) - drop + 1] = e
<1>1. CASE Len(c) = Limit
  <2>1. c # <<>> /\ Cached(c, e) = Append(Tail(c), e)
    BY <1>1, RpcAssumption DEF Cached
  <2>2. /\ Tail(c) \in Seq(Entries)
        /\ Len(Tail(c)) = Len(c) - 1
        /\ \A i \in 1 .. Len(Tail(c)) : Tail(c)[i] = c[i + 1]
    BY <2>1
  <2>3. QED  BY <1>1, <2>1, <2>2
<1>2. CASE Len(c) # Limit
  <2>1. Len(c) \in Nat /\ Limit \in Nat /\ Cached(c, e) = Append(c, e)
    BY <1>2, RpcAssumption DEF Cached
  <2>2. /\ Append(c, e) \in Seq(Entries)
        /\ Len(Append(c, e)) = Len(c) + 1
        /\ \A i \in 1 .. Len(c) : Append(c, e)[i] = c[i]
        /\ Append(c, e)[Len(c) + 1] = e
    OBVIOUS
  <2>3. QED  BY <1>2, <2>1, <2>2
<1>3. QED  BY <1>1, <1>2

(***************************************************************************)
(* A request that is executed has an id the cache does not know, so that   *)
(* an earlier request of this id was followed by Limit others.             *)
(***************************************************************************)
LEMMA ExecuteKeeps ==
  ASSUME IInv, NEW r \in Requests, Execute(r)
  PROVE  TailInv' /\ RememberedNotRepeated' /\ cache' \in Seq(Entries)
                  /\ executed' \in Seq(Requests) /\ born' \in Nat
<1> DEFINE e == [request |-> r, run |-> born + 1]
           drop == IF Len(cache) = Limit THEN 1 ELSE 0
<1>1. /\ e \in Entries
      /\ born' \in Nat
      /\ executed' = Append(executed, r)
      /\ cache' = Cached(cache, e)
      /\ Remembered(r) = {}
  BY DEF Execute, IInv, TypeInv, Entries
<1>2. /\ executed' \in Seq(Requests)
      /\ Len(executed') = Len(executed) + 1
      /\ executed'[Len(executed) + 1] = r
      /\ \A i \in 1 .. Len(executed) : executed'[i] = executed[i]
  BY <1>1 DEF IInv, TypeInv
<1>3. /\ cache' \in Seq(Entries)
      /\ Len(cache') = Len(cache) - drop + 1
      /\ \A i \in 1 .. Len(cache) - drop : cache'[i] = cache[i + drop]
      /\ cache'[Len(cache) - drop + 1] = e
  BY <1>1, CachedIs DEF IInv, TypeInv, TailInv
<1>4. Len(cache) \in Nat /\ Len(executed) \in Nat /\ Limit \in Nat \ {0}
  BY RpcAssumption DEF IInv, TypeInv
<1>5. TailInv'
  <2>1. /\ Len(cache') <= Limit
        /\ Len(cache') <= Len(executed')
        /\ Len(cache') < Limit => Len(cache') = Len(executed')
    BY <1>2, <1>3, <1>4 DEF IInv, TailInv
  <2>2. ASSUME NEW i \in 1 .. Len(cache')
        PROVE  cache'[i].request = executed'[Len(executed') - Len(cache') + i]
    <3>1. CASE i = Len(cache) - drop + 1
      BY <1>2, <1>3, <1>4, <3>1
    <3>2. CASE i \in 1 .. Len(cache) - drop
      <4> DEFINE at == Len(executed) - Len(cache) + (i + drop)
      <4>1. i + drop \in 1 .. Len(cache)
        BY <1>4, <3>2
      <4>2. cache'[i].request = executed[at]
        BY <1>3, <3>2, <4>1 DEF IInv, TailInv
      <4>3. at \in 1 .. Len(executed)
        BY <1>4, <4>1 DEF IInv, TailInv
      <4>4. drop \in {0, 1}
        OBVIOUS
      <4>5. at = Len(executed') - Len(cache') + i
        <5> HIDE DEF drop
        <5>1. QED  BY <1>2, <1>3, <1>4, <4>4, <3>2
      <4>6. QED  BY <1>2, <4>2, <4>3, <4>5
    <3>3. QED  BY <1>3, <1>4, <3>1, <3>2
  <2>3. QED  BY <2>1, <2>2 DEF TailInv
<1>6. \A i \in 1 .. Len(executed) :
        executed[i].id = r.id => Len(executed) + 1 - i > Limit
  <2> SUFFICES ASSUME NEW i \in 1 .. Len(executed), executed[i].id = r.id
               PROVE  Len(executed) + 1 - i > Limit
    OBVIOUS
  <2>1. i <= Len(executed) - Len(cache)
    <3> SUFFICES ASSUME i > Len(executed) - Len(cache)
                 PROVE  FALSE
      BY <1>4
    <3> DEFINE k == i - (Len(executed) - Len(cache))
    <3>1. k \in 1 .. Len(cache) /\ Len(executed) - Len(cache) + k = i
      BY <1>4 DEF IInv, TailInv
    <3>2. cache[k].request.id = r.id
      BY <3>1 DEF IInv, TailInv
    <3>3. QED  BY <1>1, <3>1, <3>2 DEF Remembered, IInv, TypeInv
  <2>2. Len(cache) = Limit
    BY <1>4, <2>1 DEF IInv, TailInv
  <2>3. QED  BY <1>4, <2>1, <2>2
<1>7. RememberedNotRepeated'
  <2> SUFFICES ASSUME NEW i \in 1 .. Len(executed) + 1,
                      NEW j \in 1 .. Len(executed) + 1,
                      i < j, executed'[i].id = executed'[j].id
               PROVE  j - i > Limit
    BY <1>2 DEF RememberedNotRepeated
  <2>1. CASE j = Len(executed) + 1
    BY <1>2, <1>4, <1>6, <2>1
  <2>2. CASE j \in 1 .. Len(executed)
    <3>1. i \in 1 .. Len(executed)
      BY <1>4, <2>2
    <3>2. executed[i].id = executed[j].id
      BY <1>2, <2>2, <3>1
    <3>3. QED
      BY <2>2, <3>1, <3>2 DEF IInv, TypeInv, RememberedNotRepeated
  <2>3. QED  BY <1>4, <2>1, <2>2
<1>8. QED  BY <1>1, <1>2, <1>3, <1>5, <1>7

(***************************************************************************)
(* A new process starts with nothing executed and nothing remembered.      *)
(***************************************************************************)
LEMMA StepInv == IInv /\ [Next]_vars => IInv'
<1> SUFFICES ASSUME IInv, [Next]_vars
             PROVE  IInv'
  OBVIOUS
<1>1. CASE UNCHANGED <<cache, executed, born, stdin>>
  BY <1>1 DEF IInv, TypeInv, TailInv, RememberedNotRepeated
<1>2. CASE Spawn
  <2>1. cache' = <<>> /\ executed' = <<>> /\ stdin' = <<>> /\ born' = born + 1
    BY <1>2 DEF Spawn
  <2>2. QED
    BY <2>1, RpcAssumption
       DEF IInv, TypeInv, TailInv, RememberedNotRepeated
<1>3. CASE HandleLine
  <2>1. stdin' \in Seq(Requests) /\ Head(stdin) \in Requests
    BY <1>3 DEF HandleLine, IInv, TypeInv
  <2>2. CASE Execute(Head(stdin))
    BY <2>1, <2>2, ExecuteKeeps DEF IInv, TypeInv
  <2>3. CASE Replay(Head(stdin))
    <3>1. UNCHANGED <<cache, executed, born>>
      BY <2>3 DEF Replay
    <3>2. QED
      BY <2>1, <3>1 DEF IInv, TypeInv, TailInv, RememberedNotRepeated
  <2>4. QED  BY <1>3, <2>2, <2>3 DEF HandleLine
<1>4. CASE \E id \in Ids, p \in Payloads : Request(id, p)
  <2>1. stdin' \in Seq(Requests)
    BY <1>4 DEF Request, IInv, TypeInv, Requests
  <2>2. UNCHANGED <<cache, executed, born>>
    BY <1>4 DEF Request, server
  <2>3. QED
    BY <2>1, <2>2 DEF IInv, TypeInv, TailInv, RememberedNotRepeated
<1>5. CASE Poll \/ Shutdown
  <2>1. UNCHANGED <<cache, executed, stdin>> /\ born' = born + 1
    BY <1>5 DEF Poll, Shutdown
  <2>2. QED
    BY <2>1 DEF IInv, TypeInv, TailInv, RememberedNotRepeated
<1>6. QED
  BY <1>1, <1>2, <1>3, <1>4, <1>5
     DEF Next, Client, Server, NoticeExit, Receive, EndStdin, Close, Timeout,
         Crash, server, vars

(***************************************************************************)
(* Within one process no request id is executed again before Limit other   *)
(* requests were, whatever the client repeats after its timeouts.          *)
(***************************************************************************)
THEOREM AtMostOnceWhileRemembered == Spec => []RememberedNotRepeated
<1>1. IInv => RememberedNotRepeated
  BY DEF IInv
<1>2. QED  BY <1>1, InitInv, StepInv, PTL DEF Spec
-----------------------------------------------------------------------------
(* The messages written to stdout. *)

Events == [born: Nat, run: Nat]

Pushes(w) == {i \in 1 .. Len(w) : w[i].kind = "event"}

(***************************************************************************)
(* An event that was pushed happened, and a process that started pushed it.*)
(***************************************************************************)
Happened(w, last, life) ==
  \A i \in Pushes(w) : w[i].event.born <= last /\ w[i].life <= life

OnceInOrder(w) ==
  \A i, j \in Pushes(w) : i < j =>
    /\ w[i].event # w[j].event
    /\ w[i].life = w[j].life =>
         /\ w[i].cursor < w[j].cursor
         /\ \A c \in w[i].cursor + 1 .. w[j].cursor - 1 :
              \E k \in Pushes(w) : i < k /\ k < j /\ w[k].cursor = c

AnsweredFirst(w) ==
  \A j \in Pushes(w) : w[j].event.run # Conflict =>
    \E i \in 1 .. j - 1 : w[i].kind = "response" /\ w[i].run = w[j].event.run

(***************************************************************************)
(* Behind any event that a process pushed, it pushed every event up to its *)
(* cursor.                                                                 *)
(***************************************************************************)
UpTo(w, life, at) ==
  \A i \in Pushes(w) : w[i].life = life =>
    /\ w[i].cursor <= at
    /\ \A c \in w[i].cursor + 1 .. at :
         \E k \in Pushes(w) : i < k /\ w[k].cursor = c

Good(w, last, life) ==
  /\ w \in Seq(Messages)
  /\ Happened(w, last, life) /\ OnceInOrder(w) /\ AnsweredFirst(w)

OutputInv ==
  /\ journal \in Seq(Events) /\ disk \in Seq(Events)
  /\ spent \in [inputs: Nat, lives: Nat]
  /\ Good(written, born, spent.lives)
  /\ process = "up" => cursor = Len(journal) /\ UpTo(written, spent.lives, cursor)

LEMMA EventMessages ==
  ASSUME NEW w \in Seq(Messages), NEW i \in Pushes(w)
  PROVE  /\ i \in 1 .. Len(w)
         /\ w[i].cursor \in Nat /\ w[i].life \in Nat
         /\ w[i].event.born \in Nat /\ w[i].event.run \in Nat
<1>1. i \in 1 .. Len(w) /\ w[i].kind = "event" /\ w[i] \in Messages
  BY DEF Pushes
<1>2. w[i] \in [kind: {"event"}, cursor: Nat, event: Events, life: Nat]
  BY <1>1 DEF Messages, Events
<1>3. QED  BY <1>1, <1>2 DEF Events

(***************************************************************************)
(* One message more.                                                       *)
(***************************************************************************)
LEMMA Longer ==
  ASSUME NEW w \in Seq(Messages), NEW m \in Messages
  PROVE  /\ Append(w, m) \in Seq(Messages)
         /\ Len(w) \in Nat /\ Len(Append(w, m)) = Len(w) + 1
         /\ Append(w, m)[Len(w) + 1] = m
         /\ \A i \in 1 .. Len(w) : Append(w, m)[i] = w[i]
         /\ Pushes(Append(w, m)) =
              IF m.kind = "event" THEN Pushes(w) \cup {Len(w) + 1} ELSE Pushes(w)
<1>1. /\ Append(w, m) \in Seq(Messages)
      /\ Len(w) \in Nat /\ Len(Append(w, m)) = Len(w) + 1
      /\ Append(w, m)[Len(w) + 1] = m
      /\ \A i \in 1 .. Len(w) : Append(w, m)[i] = w[i]
  OBVIOUS
<1>2. ASSUME NEW v, v = Append(w, m)
      PROVE  Pushes(v) = IF m.kind = "event" THEN Pushes(w) \cup {Len(w) + 1} ELSE Pushes(w)
  BY <1>1, <1>2 DEF Pushes
<1>3. QED  BY <1>1, <1>2

LEMMA ResponseWritten ==
  ASSUME NEW w, NEW last \in Nat, NEW life \in Nat, Good(w, last, life),
         NEW m \in Messages, m.kind = "response"
  PROVE  /\ Good(Append(w, m), last, life)
         /\ \A at \in Nat : UpTo(w, life, at) => UpTo(Append(w, m), life, at)
<1> DEFINE v == Append(w, m)
<1>1. w \in Seq(Messages)
  BY DEF Good
<1>2. /\ v \in Seq(Messages) /\ Len(w) \in Nat /\ Len(v) = Len(w) + 1
      /\ \A i \in 1 .. Len(w) : v[i] = w[i]
      /\ Pushes(v) = Pushes(w) /\ Pushes(w) \subseteq 1 .. Len(w)
  BY <1>1, Longer DEF Pushes
<1> HIDE DEF v
<1>3. \A i \in Pushes(w) : v[i] = w[i]
  BY <1>2
<1>4. Happened(v, last, life)
  BY <1>2, <1>3 DEF Good, Happened
<1>5. OnceInOrder(v)
  <2>1. OnceInOrder(w)
    BY DEF Good
  <2> SUFFICES ASSUME NEW i \in Pushes(w), NEW j \in Pushes(w), i < j
               PROVE  /\ v[i].event # v[j].event
                      /\ v[i].life = v[j].life =>
                           /\ v[i].cursor < v[j].cursor
                           /\ \A c \in v[i].cursor + 1 .. v[j].cursor - 1 :
                                \E k \in Pushes(w) : i < k /\ k < j /\ v[k].cursor = c
    BY <1>2 DEF OnceInOrder
  <2>2. QED  BY <1>3, <2>1 DEF OnceInOrder
<1>6. AnsweredFirst(v)
  <2> SUFFICES ASSUME NEW j \in Pushes(w), w[j].event.run # Conflict
               PROVE  \E i \in 1 .. j - 1 :
                        v[i].kind = "response" /\ v[i].run = w[j].event.run
    BY <1>2, <1>3 DEF AnsweredFirst
  <2>1. PICK i \in 1 .. j - 1 : w[i].kind = "response" /\ w[i].run = w[j].event.run
    BY DEF Good, AnsweredFirst
  <2>2. v[i] = w[i]
    BY <1>2
  <2>3. QED  BY <2>1, <2>2
<1>7. \A at \in Nat : UpTo(w, life, at) => UpTo(v, life, at)
  BY <1>2, <1>3 DEF UpTo
<1>8. QED  BY <1>2, <1>4, <1>5, <1>6, <1>7 DEF Good, v

(***************************************************************************)
(* The event that happened last is pushed, behind its response.            *)
(***************************************************************************)
LEMMA EventWritten ==
  ASSUME NEW w, NEW last \in Nat, NEW life \in Nat, Good(w, last, life),
         NEW at \in Nat, UpTo(w, life, at),
         NEW run \in Nat,
         run # Conflict =>
           \E i \in 1 .. Len(w) : w[i].kind = "response" /\ w[i].run = run,
         NEW m, m = [kind |-> "event", cursor |-> at + 1,
                     event |-> [born |-> last + 1, run |-> run], life |-> life]
  PROVE  Good(Append(w, m), last + 1, life) /\ UpTo(Append(w, m), life, at + 1)
<1> DEFINE v == Append(w, m)
           n == Len(w) + 1
<1>1. w \in Seq(Messages) /\ m \in Messages /\ m.kind = "event"
  BY DEF Good, Messages
<1>2. /\ v \in Seq(Messages) /\ Len(w) \in Nat /\ Len(v) = n
      /\ v[n] = m /\ \A i \in 1 .. Len(w) : v[i] = w[i]
      /\ Pushes(v) = Pushes(w) \cup {n} /\ Pushes(w) \subseteq 1 .. Len(w)
  BY <1>1, Longer DEF Pushes
<1> HIDE DEF v
<1>3. \A i \in Pushes(w) : v[i] = w[i] /\ i < n /\ i \in Nat
  BY <1>2
<1>4. \A i \in Pushes(w) : w[i].cursor \in Nat /\ w[i].event.born \in Nat
  BY <1>1, EventMessages
<1>5. /\ v[n].kind = "event" /\ v[n].cursor = at + 1 /\ v[n].life = life
      /\ v[n].event.born = last + 1 /\ v[n].event.run = run
  BY <1>2
<1>6. \A i \in Pushes(w) : w[i].event.born <= last /\ w[i].life <= life
  BY DEF Good, Happened
<1>7. Happened(v, last + 1, life)
  <2>1. ASSUME NEW i \in Pushes(w)
        PROVE  v[i].event.born <= last + 1 /\ v[i].life <= life
    BY <1>3, <1>4, <1>6
  <2>2. QED  BY <1>2, <1>5, <2>1 DEF Happened
<1>8. OnceInOrder(v)
  <2> SUFFICES ASSUME NEW i \in Pushes(v), NEW j \in Pushes(v), i < j
               PROVE  /\ v[i].event # v[j].event
                      /\ v[i].life = v[j].life =>
                           /\ v[i].cursor < v[j].cursor
                           /\ \A c \in v[i].cursor + 1 .. v[j].cursor - 1 :
                                \E k \in Pushes(v) : i < k /\ k < j /\ v[k].cursor = c
    BY DEF OnceInOrder
  <2>1. i \in Pushes(w) /\ v[i] = w[i]
    BY <1>2, <1>3
  <2>2. CASE j = n
    <3>1. v[i].event # v[j].event
      <4>1. w[i].event.born <= last /\ w[i].event.born \in Nat
        BY <1>4, <1>6, <2>1
      <4>2. v[j].event.born = last + 1 /\ v[i].event.born = w[i].event.born
        BY <1>5, <2>1, <2>2
      <4>3. v[i].event.born # v[j].event.born
        BY <4>1, <4>2
      <4>4. QED  BY <4>3
    <3>2. ASSUME v[i].life = v[j].life
          PROVE  /\ v[i].cursor < v[j].cursor
                 /\ \A c \in v[i].cursor + 1 .. v[j].cursor - 1 :
                      \E k \in Pushes(v) : i < k /\ k < j /\ v[k].cursor = c
      <4>1. w[i].life = life /\ v[j].cursor = at + 1 /\ v[j].cursor - 1 = at
        BY <1>5, <2>1, <2>2, <3>2
      <4>2. w[i].cursor <= at
            /\ \A c \in w[i].cursor + 1 .. at :
                 \E k \in Pushes(w) : i < k /\ w[k].cursor = c
        BY <2>1, <4>1 DEF UpTo
      <4>3. \A c \in w[i].cursor + 1 .. at :
              \E k \in Pushes(v) : i < k /\ k < j /\ v[k].cursor = c
        BY <1>2, <1>3, <2>2, <4>2
      <4>4. QED  BY <1>4, <2>1, <4>1, <4>2, <4>3
    <3>3. QED  BY <3>1, <3>2
  <2>3. CASE j \in Pushes(w)
    <3>1. v[j] = w[j]
      BY <1>3, <2>3
    <3>2. /\ w[i].event # w[j].event
          /\ w[i].life = w[j].life =>
               /\ w[i].cursor < w[j].cursor
               /\ \A c \in w[i].cursor + 1 .. w[j].cursor - 1 :
                    \E k \in Pushes(w) : i < k /\ k < j /\ w[k].cursor = c
      BY <2>1, <2>3 DEF Good, OnceInOrder
    <3>3. QED  BY <1>2, <1>3, <2>1, <3>1, <3>2
  <2>4. QED  BY <1>2, <2>2, <2>3
<1>9. AnsweredFirst(v)
  <2> SUFFICES ASSUME NEW j \in Pushes(v), v[j].event.run # Conflict
               PROVE  \E i \in 1 .. j - 1 :
                        v[i].kind = "response" /\ v[i].run = v[j].event.run
    BY DEF AnsweredFirst
  <2>1. CASE j = n
    <3>1. PICK i \in 1 .. Len(w) : w[i].kind = "response" /\ w[i].run = run
      BY <1>5, <2>1
    <3>2. i \in 1 .. j - 1 /\ v[i] = w[i]
      BY <1>2, <2>1
    <3>3. QED  BY <1>5, <2>1, <3>1, <3>2
  <2>2. CASE j \in Pushes(w)
    <3>1. v[j] = w[j]
      BY <1>3, <2>2
    <3>2. PICK i \in 1 .. j - 1 : w[i].kind = "response" /\ w[i].run = w[j].event.run
      BY <2>2, <3>1 DEF Good, AnsweredFirst
    <3>3. v[i] = w[i]
      BY <1>2, <2>2
    <3>4. QED  BY <3>1, <3>2, <3>3
  <2>3. QED  BY <1>2, <2>1, <2>2
<1>10. UpTo(v, life, at + 1)
  <2> SUFFICES ASSUME NEW i \in Pushes(v), v[i].life = life
               PROVE  /\ v[i].cursor <= at + 1
                      /\ \A c \in v[i].cursor + 1 .. at + 1 :
                           \E k \in Pushes(v) : i < k /\ v[k].cursor = c
    BY DEF UpTo
  <2>1. CASE i = n
    BY <1>5, <2>1
  <2>2. CASE i \in Pushes(w)
    <3>1. v[i] = w[i] /\ i < n /\ w[i].cursor \in Nat
      BY <1>3, <1>4, <2>2
    <3>2. w[i].cursor <= at
          /\ \A c \in w[i].cursor + 1 .. at :
               \E k \in Pushes(w) : i < k /\ w[k].cursor = c
      BY <2>2, <3>1 DEF UpTo
    <3>3. ASSUME NEW c \in w[i].cursor + 1 .. at + 1
          PROVE  \E k \in Pushes(v) : i < k /\ v[k].cursor = c
      <4>1. CASE c = at + 1
        BY <1>2, <1>5, <3>1, <4>1
      <4>2. CASE c \in w[i].cursor + 1 .. at
        BY <1>2, <1>3, <3>2, <4>2
      <4>3. QED  BY <3>1, <4>1, <4>2
    <3>4. QED  BY <3>1, <3>2, <3>3
  <2>3. QED  BY <1>2, <2>1, <2>2
<1>11. QED  BY <1>2, <1>7, <1>8, <1>9, <1>10 DEF Good, v
(***************************************************************************)
(* Of one message or two, the process writes all, or it dies before.       *)
(***************************************************************************)
LEMMA OneOrDie ==
  ASSUME written \in Seq(Messages), NEW m \in Messages, WriteOrDie(<<m>>)
  PROVE  \/ written' = written /\ process' = "exited"
         \/ written' = Append(written, m) /\ process' = process
<1>1. PICK n \in 0 .. Len(<<m>>) :
        /\ written' = written \o SubSeq(<<m>>, 1, n)
        /\ IF n = Len(<<m>>) THEN process' = process ELSE process' = "exited"
  BY DEF WriteOrDie
<1>2. Len(<<m>>) = 1 /\ <<m>> \in Seq(Messages)
  OBVIOUS
<1>3. CASE n = 0
  <2>1. SubSeq(<<m>>, 1, 0) = <<>>
    BY SubSeqEmpty
  <2>2. written \o <<>> = written
    BY ConcatEmptySeq
  <2>3. QED  BY <1>1, <1>2, <1>3, <2>1, <2>2
<1>4. CASE n = 1
  <2>1. SubSeq(<<m>>, 1, n) = <<m>>
    BY <1>2, <1>4, SubSeqFull
  <2>2. written' = Append(written, m)
    BY <1>1, <2>1, AppendIsConcat
  <2>3. QED  BY <1>1, <1>2, <1>4, <2>2
<1>5. QED  BY <1>1, <1>2, <1>3, <1>4

LEMMA TwoOrDie ==
  ASSUME written \in Seq(Messages), NEW m \in Messages, NEW e \in Messages,
         WriteOrDie(<<m>> \o <<e>>)
  PROVE  \/ /\ process' = "exited"
            /\ written' \in {written, Append(written, m)}
         \/ /\ written' = Append(Append(written, m), e)
            /\ process' = process
<1> DEFINE both == <<m>> \o <<e>>
<1>1. /\ both \in Seq(Messages) /\ Len(both) = 2
      /\ both[1] = m /\ both[2] = e
  OBVIOUS
<1>2. PICK n \in 0 .. 2 :
        /\ written' = written \o SubSeq(both, 1, n)
        /\ IF n = 2 THEN process' = process ELSE process' = "exited"
  BY <1>1 DEF WriteOrDie
<1>3. CASE n = 0
  <2>1. SubSeq(both, 1, 0) = <<>>
    BY SubSeqEmpty
  <2>2. written \o <<>> = written
    BY ConcatEmptySeq
  <2>3. QED  BY <1>2, <1>3, <2>1, <2>2
<1>4. CASE n = 1
  <2>1. SubSeq(both, 1, 1) = <<both[1]>> \o SubSeq(both, 2, 1)
    BY <1>1, SubSeqRecursiveFirst
  <2>2. SubSeq(both, 2, 1) = <<>> /\ <<m>> \o <<>> = <<m>>
    BY SubSeqEmpty
  <2>3. SubSeq(both, 1, 1) = <<m>>
    BY <1>1, <2>1, <2>2
  <2>4. written' = Append(written, m)
    BY <1>2, <1>4, <2>3, AppendIsConcat
  <2>5. QED  BY <1>2, <1>4, <2>4
<1>5. CASE n = 2
  <2>1. SubSeq(both, 1, 2) = both
    BY <1>1, SubSeqFull
  <2>2. written' = written \o (<<m>> \o <<e>>)
    BY <1>2, <1>5, <2>1
  <2>3. <<m>> \in Seq(Messages) /\ <<e>> \in Seq(Messages)
    OBVIOUS
  <2>4. written' = (written \o <<m>>) \o <<e>>
    BY <2>2, <2>3, ConcatAssociative
  <2>5. written \o <<m>> = Append(written, m) /\ Append(written, m) \in Seq(Messages)
    BY AppendIsConcat
  <2>6. written' = Append(Append(written, m), e)
    BY <2>4, <2>5, AppendIsConcat
  <2>7. QED  BY <1>2, <1>5, <2>6
<1>6. n = 0 \/ n = 1 \/ n = 2
  OBVIOUS
<1>7. QED  BY <1>3, <1>4, <1>5, <1>6

(***************************************************************************)
(* While the process is up everything but the newest event is pushed.      *)
(***************************************************************************)
LEMMA DrainedIs ==
  ASSUME journal \in Seq(Events), cursor = Len(journal)
  PROVE  /\ Drained(journal) = [messages |-> <<>>, cursor |-> cursor]
         /\ \A e \in Events :
              Drained(Append(journal, e)) =
                [messages |-> <<Event(cursor + 1, e)>>, cursor |-> cursor + 1]
<1>1. cursor \in Nat
  OBVIOUS
<1>2. [i \in 1 .. Len(journal) - cursor |-> Event(cursor + i, journal[cursor + i])] = <<>>
  BY <1>1
<1>3. ASSUME NEW e \in Events
      PROVE  Drained(Append(journal, e)) =
               [messages |-> <<Event(cursor + 1, e)>>, cursor |-> cursor + 1]
  <2> DEFINE grown == Append(journal, e)
             f == [i \in 1 .. Len(grown) - cursor |-> Event(cursor + i, grown[cursor + i])]
  <2>1. Len(grown) = cursor + 1 /\ grown[cursor + 1] = e
    OBVIOUS
  <2>2. Len(grown) - cursor = 1
    BY <1>1, <2>1
  <2>3. f = [i \in {1} |-> Event(cursor + 1, e)]
    <3> HIDE DEF grown
    <3>1. \A i \in {1} : Event(cursor + i, grown[cursor + i]) = Event(cursor + 1, e)
      BY <2>1
    <3>2. 1 .. Len(grown) - cursor = {1}
      BY <2>2
    <3>3. QED  BY <3>1, <3>2
  <2>4. f = <<Event(cursor + 1, e)>>
    BY <2>3
  <2>5. QED  BY <2>1, <2>4 DEF Drained
<1>4. QED  BY <1>1, <1>2, <1>3 DEF Drained
-----------------------------------------------------------------------------
(* The steps. *)

LEMMA GoodLater ==
  ASSUME NEW w, NEW last \in Nat, NEW life \in Nat, Good(w, last, life),
         NEW last2 \in Nat, NEW life2 \in Nat, last <= last2, life <= life2
  PROVE  Good(w, last2, life2)
<1>1. \A i \in Pushes(w) : w[i].event.born \in Nat /\ w[i].life \in Nat
  BY EventMessages DEF Good
<1>2. Happened(w, last2, life2)
  BY <1>1 DEF Good, Happened
<1>3. QED  BY <1>2 DEF Good

LEMMA OutputInit == Init => OutputInv
<1> SUFFICES ASSUME Init  PROVE  OutputInv
  OBVIOUS
<1>1. written \in Seq(Messages) /\ Len(written) = 0 /\ Pushes(written) = {}
  BY DEF Init, Pushes
<1>2. Good(written, born, spent.lives)
  BY <1>1 DEF Good, Happened, OnceInOrder, AnsweredFirst
<1>3. journal \in Seq(Events) /\ disk \in Seq(Events) /\ process = "none"
  BY DEF Init
<1>4. spent \in [inputs: Nat, lives: Nat]
  BY DEF Init
<1>5. QED  BY <1>2, <1>3, <1>4 DEF OutputInv

(***************************************************************************)
(* A new process has pushed nothing; what it finds in the file counts as   *)
(* pushed.                                                                 *)
(***************************************************************************)
LEMMA SpawnOutput ==
  ASSUME IInv, OutputInv, Spawn
  PROVE  OutputInv'
<1> DEFINE e == NewEvent(Conflict)
<1>1. /\ spent \in [inputs: Nat, lives: Nat] /\ born \in Nat
      /\ disk \in Seq(Events) /\ Good(written, born, spent.lives)
  BY DEF IInv, TypeInv, OutputInv
<1>2. /\ spent' \in [inputs: Nat, lives: Nat] /\ spent'.lives = spent.lives + 1
      /\ journal' = Append(disk, e) /\ disk' = journal' /\ cursor' = Len(journal')
      /\ born' = born + 1 /\ written' = written
  BY <1>1 DEF Spawn
<1>3. e \in Events
  BY <1>1 DEF NewEvent, Events, Conflict
<1> HIDE DEF e
<1>4. journal' \in Seq(Events) /\ disk' \in Seq(Events)
  BY <1>1, <1>2, <1>3
<1>5. Good(written', born', spent'.lives)
  BY <1>1, <1>2, GoodLater
<1>6. UpTo(written', spent'.lives, cursor')
  <2>1. \A i \in Pushes(written) : written[i].life \in Nat /\ written[i].life <= spent.lives
    BY <1>1, EventMessages DEF Good, Happened
  <2>2. \A i \in Pushes(written) : written[i].life # spent.lives + 1
    BY <1>1, <2>1
  <2>3. QED  BY <1>2, <2>2 DEF UpTo
<1>7. QED  BY <1>2, <1>4, <1>5, <1>6 DEF OutputInv

LEMMA ReplayOutput ==
  ASSUME IInv, OutputInv, UNCHANGED spent, NEW r \in Requests, Replay(r)
  PROVE  OutputInv'
<1>1. PICK i \in Remembered(r) :
        WriteOrDie(<<Response(r, IF cache[i].request = r THEN cache[i].run ELSE Conflict)>>)
  BY DEF Replay
<1> DEFINE m == Response(r, IF cache[i].request = r THEN cache[i].run ELSE Conflict)
<1>2. m \in Messages /\ m.kind = "response"
  <2>1. cache \in Seq(Entries) /\ i \in DOMAIN cache
    BY DEF IInv, TypeInv, Remembered
  <2>2. cache[i] \in Entries
    BY <2>1
  <2>3. cache[i].run \in Nat
    BY <2>2 DEF Entries
  <2>4. (IF cache[i].request = r THEN cache[i].run ELSE Conflict) \in Nat
    BY <2>3 DEF Conflict
  <2>5. QED  BY <2>4 DEF Response, Messages, Requests
<1>3. WriteOrDie(<<m>>)
  BY <1>1
<1> HIDE DEF m
<1>4. /\ spent \in [inputs: Nat, lives: Nat] /\ born \in Nat /\ spent.lives \in Nat
      /\ written \in Seq(Messages) /\ Good(written, born, spent.lives)
  BY DEF IInv, TypeInv, OutputInv, Good
<1>5. \/ written' = written /\ process' = "exited"
      \/ written' = Append(written, m) /\ process' = process
  BY <1>2, <1>3, <1>4, OneOrDie
<1>6. UNCHANGED <<journal, disk, cursor, born, spent>>
  BY DEF Replay
<1>7. Good(written', born', spent'.lives)
  BY <1>2, <1>4, <1>5, <1>6, ResponseWritten
<1>8. process' = "up" => cursor' = Len(journal') /\ UpTo(written', spent'.lives, cursor')
  <2> SUFFICES ASSUME process' = "up"
               PROVE  cursor' = Len(journal') /\ UpTo(written', spent'.lives, cursor')
    OBVIOUS
  <2>1. written' = Append(written, m) /\ process = "up"
    BY <1>5
  <2>2. cursor = Len(journal) /\ cursor \in Nat /\ UpTo(written, spent.lives, cursor)
    BY <2>1 DEF OutputInv
  <2>3. UpTo(Append(written, m), spent.lives, cursor)
    BY <1>2, <1>4, <2>2, ResponseWritten
  <2>4. QED  BY <1>6, <2>1, <2>2, <2>3
<1>9. QED  BY <1>6, <1>7, <1>8 DEF OutputInv

LEMMA ExecuteOutput ==
  ASSUME IInv, OutputInv, UNCHANGED spent, process = "up",
         NEW r \in Requests, Execute(r)
  PROVE  OutputInv'
<1> DEFINE m == Response(r, born + 1)
           e == NewEvent(born + 1)
<1>1. /\ spent \in [inputs: Nat, lives: Nat] /\ born \in Nat /\ spent.lives \in Nat
      /\ written \in Seq(Messages) /\ Good(written, born, spent.lives)
      /\ journal \in Seq(Events) /\ disk \in Seq(Events)
      /\ cursor = Len(journal) /\ cursor \in Nat
      /\ UpTo(written, spent.lives, cursor)
  BY DEF IInv, TypeInv, OutputInv, Good
<1>2. m \in Messages /\ m.kind = "response" /\ m.run = born + 1
  BY <1>1 DEF Response, Messages, Requests
<1>3. e \in Events /\ e = [born |-> born + 1, run |-> born + 1]
  BY <1>1 DEF NewEvent, Events
<1>4. /\ journal' \in {journal, Append(journal, e)}
      /\ disk' \in {disk, journal'}
      /\ born' = born + 1
      /\ cursor' = Drained(journal').cursor
      /\ WriteOrDie(<<m>> \o Drained(journal').messages)
  BY DEF Execute, Dispatch, Outgoing
<1>5. /\ Good(Append(written, m), born, spent.lives)
      /\ UpTo(Append(written, m), spent.lives, cursor)
  BY <1>1, <1>2, ResponseWritten
<1>6. Append(written, m) \in Seq(Messages)
  BY <1>5 DEF Good
<1> HIDE DEF m, e
<1>7. journal' \in Seq(Events) /\ disk' \in Seq(Events)
  <2>1. Append(journal, e) \in Seq(Events)
    BY <1>1, <1>3
  <2>2. QED  BY <1>1, <1>4, <2>1
<1>8. CASE journal' = journal
  <2>1. Drained(journal').messages = <<>> /\ cursor' = cursor
    BY <1>1, <1>4, <1>8, DrainedIs
  <2>2. WriteOrDie(<<m>>)
    <3>1. <<m>> \o <<>> = <<m>>
      OBVIOUS
    <3>2. QED  BY <1>4, <2>1, <3>1
  <2>3. \/ written' = written /\ process' = "exited"
        \/ written' = Append(written, m) /\ process' = process
    BY <1>1, <1>2, <2>2, OneOrDie
  <2>4. Good(written', born', spent'.lives)
    <3>1. Good(written, born + 1, spent.lives)
      BY <1>1, GoodLater
    <3>2. Good(Append(written, m), born + 1, spent.lives)
      BY <1>1, <1>5, GoodLater
    <3>3. QED  BY <1>4, <2>3, <3>1, <3>2
  <2>5. process' = "up" => UpTo(written', spent'.lives, cursor')
    BY <1>5, <2>1, <2>3
  <2>6. QED  BY <1>1, <1>7, <1>8, <2>1, <2>4, <2>5 DEF OutputInv
<1>9. CASE journal' = Append(journal, e)
  <2> DEFINE p == Event(cursor + 1, e)
             w == Append(written, m)
  <2>1. /\ Drained(journal').messages = <<p>> /\ cursor' = cursor + 1
        /\ Len(journal') = cursor + 1
    BY <1>1, <1>3, <1>4, <1>9, DrainedIs
  <2>2. p = [kind |-> "event", cursor |-> cursor + 1,
             event |-> [born |-> born + 1, run |-> born + 1], life |-> spent.lives]
    BY <1>3 DEF Event
  <2>3. p \in Messages
    BY <1>1, <2>2 DEF Messages
  <2>4. WriteOrDie(<<m>> \o <<p>>)
    BY <1>4, <2>1
  <2> HIDE DEF p
  <2>5. \/ process' = "exited" /\ written' \in {written, w}
        \/ written' = Append(w, p) /\ process' = process
    BY <1>1, <1>2, <2>3, <2>4, TwoOrDie
  <2>6. Len(w) \in 1 .. Len(w) /\ w[Len(w)] = m
    BY <1>1, <1>2, Longer
  <2> HIDE DEF w
  <2>7. \E i \in 1 .. Len(w) : w[i].kind = "response" /\ w[i].run = born + 1
    BY <1>2, <2>6
  <2>8. Good(Append(w, p), born + 1, spent.lives) /\ UpTo(Append(w, p), spent.lives, cursor + 1)
    <3>1. Good(w, born, spent.lives) /\ UpTo(w, spent.lives, cursor)
      BY <1>5 DEF w
    <3>2. born + 1 \in Nat
      BY <1>1
    <3>3. QED  BY <1>1, <2>2, <2>7, <3>1, <3>2, EventWritten
  <2>9. Good(written', born', spent'.lives)
    <3>1. Good(written, born + 1, spent.lives) /\ Good(w, born + 1, spent.lives)
      BY <1>1, <1>5, GoodLater DEF w
    <3>2. QED  BY <1>4, <2>5, <2>8, <3>1
  <2>10. process' = "up" => UpTo(written', spent'.lives, cursor')
    BY <2>1, <2>5, <2>8
  <2>11. QED  BY <1>1, <1>7, <2>1, <2>9, <2>10 DEF OutputInv
<1>10. QED  BY <1>4, <1>8, <1>9

LEMMA PollOutput ==
  ASSUME IInv, OutputInv, Poll
  PROVE  OutputInv'
<1> DEFINE e == NewEvent(Conflict)
           p == Event(cursor + 1, e)
<1>1. /\ spent \in [inputs: Nat, lives: Nat] /\ born \in Nat /\ spent.lives \in Nat
      /\ written \in Seq(Messages) /\ Good(written, born, spent.lives)
      /\ journal \in Seq(Events)
      /\ cursor = Len(journal) /\ cursor \in Nat
      /\ UpTo(written, spent.lives, cursor)
  BY DEF Poll, IInv, TypeInv, OutputInv, Good
<1>2. e \in Events /\ e = [born |-> born + 1, run |-> 0]
  BY <1>1 DEF NewEvent, Events, Conflict
<1>3. /\ spent' \in [inputs: Nat, lives: Nat] /\ spent'.lives = spent.lives
      /\ journal' = Append(journal, e) /\ disk' = journal' /\ born' = born + 1
      /\ cursor' = Drained(journal').cursor
      /\ WriteOrDie(Drained(journal').messages)
  <2>1. spent' = [spent EXCEPT !.inputs = @ + 1]
    BY DEF Poll, TakeInput
  <2>2. spent' \in [inputs: Nat, lives: Nat] /\ spent'.lives = spent.lives
    BY <1>1, <2>1
  <2>3. QED  BY <2>2 DEF Poll
<1>4. p = [kind |-> "event", cursor |-> cursor + 1,
           event |-> [born |-> born + 1, run |-> 0], life |-> spent.lives]
  BY <1>2 DEF Event
<1>5. p \in Messages
  BY <1>1, <1>4 DEF Messages
<1> HIDE DEF e
<1>6. /\ Drained(journal').messages = <<p>> /\ cursor' = cursor + 1
      /\ Len(journal') = cursor + 1 /\ journal' \in Seq(Events)
  BY <1>1, <1>2, <1>3, DrainedIs
<1> HIDE DEF p
<1>7. \/ written' = written /\ process' = "exited"
      \/ written' = Append(written, p) /\ process' = process
  BY <1>1, <1>3, <1>5, <1>6, OneOrDie
<1>8. /\ Good(Append(written, p), born + 1, spent.lives)
      /\ UpTo(Append(written, p), spent.lives, cursor + 1)
  BY <1>1, <1>4, EventWritten DEF Conflict
<1>9. Good(written, born + 1, spent.lives)
  BY <1>1, GoodLater
<1>10. Good(written', born', spent'.lives)
  BY <1>3, <1>7, <1>8, <1>9
<1>11. process' = "up" => UpTo(written', spent'.lives, cursor')
  BY <1>3, <1>6, <1>7, <1>8
<1>12. QED  BY <1>3, <1>6, <1>10, <1>11 DEF OutputInv

(***************************************************************************)
(* The event of a shutdown is not pushed.                                  *)
(***************************************************************************)
LEMMA ShutdownOutput ==
  ASSUME IInv, OutputInv, Shutdown
  PROVE  OutputInv'
<1>1. /\ spent.lives \in Nat /\ born \in Nat /\ journal \in Seq(Events)
      /\ spent \in [inputs: Nat, lives: Nat]
      /\ Good(written, born, spent.lives)
  BY DEF IInv, TypeInv, OutputInv
<1>2. NewEvent(Conflict) \in Events
  BY <1>1 DEF NewEvent, Events, Conflict
<1>3. /\ journal' = Append(journal, NewEvent(Conflict)) /\ disk' = journal'
      /\ born' = born + 1 /\ written' = written /\ spent' = spent
      /\ process' = "exited"
  BY DEF Shutdown, Exit
<1>4. journal' \in Seq(Events)
  BY <1>1, <1>2, <1>3
<1>5. Good(written', born', spent'.lives)
  BY <1>1, <1>3, GoodLater
<1>6. QED  BY <1>1, <1>3, <1>4, <1>5 DEF OutputInv

LEMMA OutputStep == IInv /\ OutputInv /\ [Next]_vars => OutputInv'
<1> SUFFICES ASSUME IInv, OutputInv, [Next]_vars
             PROVE  OutputInv'
  OBVIOUS
<1>1. CASE /\ UNCHANGED <<journal, disk, cursor, born, written>>
           /\ spent' \in [inputs: Nat, lives: Nat] /\ spent'.lives = spent.lives
           /\ process' = "up" => process = "up"
  BY <1>1 DEF OutputInv
<1>2. CASE Spawn
  BY <1>2, SpawnOutput
<1>3. CASE HandleLine
  <2>1. Head(stdin) \in Requests /\ process = "up" /\ UNCHANGED spent
    BY <1>3 DEF HandleLine, IInv, TypeInv
  <2>2. QED  BY <1>3, <2>1, ExecuteOutput, ReplayOutput DEF HandleLine
<1>4. CASE Poll \/ Shutdown
  BY <1>4, PollOutput, ShutdownOutput
<1>5. CASE \E id \in Ids, q \in Payloads : Request(id, q)
  <2>1. UNCHANGED server /\ process' = process
        /\ spent' = [spent EXCEPT !.inputs = @ + 1]
    BY <1>5 DEF Request, TakeInput
  <2>2. spent \in [inputs: Nat, lives: Nat]
    BY DEF OutputInv
  <2>3. spent' \in [inputs: Nat, lives: Nat] /\ spent'.lives = spent.lives
    BY <2>1, <2>2
  <2>4. QED  BY <1>1, <2>1, <2>3 DEF server
<1>6. CASE NoticeExit \/ Receive \/ EndStdin \/ Close \/ UNCHANGED vars
           \/ \E id \in Ids : Timeout(id)
  BY <1>1, <1>6 DEF NoticeExit, Receive, EndStdin, Close, Timeout, server, vars, OutputInv
<1>7. CASE Crash
  BY <1>1, <1>7 DEF Crash, Exit, server, OutputInv
<1>8. QED
  BY <1>2, <1>3, <1>4, <1>5, <1>6, <1>7 DEF Next, Client, Server

LEMMA OutputAlways == Spec => []OutputInv
  BY InitInv, StepInv, OutputInit, OutputStep, PTL DEF Spec

(***************************************************************************)
(* Whatever the client sends again and wherever processes die, no event is *)
(* pushed twice, and the cursors a process pushes follow one another       *)
(* without a gap.                                                          *)
(***************************************************************************)
THEOREM EventsOnceInOrder == Spec => []PushedOnceInOrder
<1>1. OutputInv => PushedOnceInOrder
  <2> SUFFICES ASSUME OutputInv  PROVE  PushedOnceInOrder
    OBVIOUS
  <2>1. Pushed = Pushes(written)
    BY DEF OutputInv, Good, Pushed, Pushes
  <2>2. QED  BY <2>1 DEF OutputInv, Good, OnceInOrder, PushedOnceInOrder
<1>2. QED  BY <1>1, OutputAlways, PTL

(***************************************************************************)
(* The client has the response to a request before any event that the      *)
(* request caused, even if the process dies between the two.               *)
(***************************************************************************)
THEOREM AnswersComeFirst == Spec => []AnswerBeforeEvents
<1>1. OutputInv => AnswerBeforeEvents
  <2> SUFFICES ASSUME OutputInv, NEW j \in DOMAIN written,
                      written[j].kind = "event", written[j].event.run # Conflict
               PROVE  \E i \in 1 .. j - 1 :
                        written[i].kind = "response" /\ written[i].run = written[j].event.run
    BY DEF AnswerBeforeEvents
  <2>1. j \in Pushes(written)
    BY DEF OutputInv, Good, Pushes
  <2>2. QED  BY <2>1 DEF OutputInv, Good, AnsweredFirst
<1>2. QED  BY <1>1, OutputAlways, PTL
=============================================================================
