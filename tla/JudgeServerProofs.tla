------------------------- MODULE JudgeServerProofs -------------------------
(***************************************************************************)
(* Proofs about the broker and its sockets (module JudgeServer), for any   *)
(* clients, workers, kinds of requests, faults and pipe capacity: the type *)
(* invariant, that no request is lost or doubled on its way, and that the  *)
(* whole implements module Service.                                        *)
(***************************************************************************)
EXTENDS JudgeServer, SequenceTheorems, FiniteSetTheorems, TLAPS

(* Position i of the sequence s holds r.                                    *)
Holds(s, i, r) == i \in 1..Len(s) /\ s[i] = r

LEMMA EmptyHolds ==
  ASSUME NEW i, NEW r
  PROVE  ~Holds(<<>>, i, r)
BY DEF Holds

LEMMA OneHolds ==
  ASSUME NEW e, NEW i, NEW r
  PROVE  Holds(<<e>>, i, r) <=> i = 1 /\ e = r
BY DEF Holds

(* Tail drops the first position and moves the others up by one.            *)
LEMMA TailHolds ==
  ASSUME NEW T, NEW s \in Seq(T), s # <<>>
  PROVE  /\ Tail(s) \in Seq(T) /\ Head(s) \in T
         /\ \A r : Holds(s, 1, r) <=> Head(s) = r
         /\ \A i, r : Holds(Tail(s), i, r) <=>
                        i \in Nat \ {0} /\ Holds(s, i + 1, r)
<1>1. Tail(s) \in Seq(T) /\ Head(s) \in T /\ Len(s) \in Nat \ {0}
  OBVIOUS
<1>2. Head(s) = s[1] OBVIOUS
<1>3. Len(Tail(s)) = Len(s) - 1 OBVIOUS
<1>4. \A i \in 1..Len(s) - 1 : Tail(s)[i] = s[i + 1]
  OBVIOUS
<1> QED BY <1>1, <1>2, <1>3, <1>4 DEF Holds

LEMMA AppendHolds ==
  ASSUME NEW T, NEW s \in Seq(T), NEW e \in T
  PROVE  /\ Append(s, e) \in Seq(T) /\ Len(s) + 1 \in Nat \ {0}
         /\ \A i, r : Holds(Append(s, e), i, r) <=>
                        Holds(s, i, r) \/ (i = Len(s) + 1 /\ e = r)
<1>1. Append(s, e) \in Seq(T) /\ Len(s) \in Nat OBVIOUS
<1>2. Len(Append(s, e)) = Len(s) + 1 OBVIOUS
<1>3. \A i \in 1..Len(s) : Append(s, e)[i] = s[i] OBVIOUS
<1>4. Append(s, e)[Len(s) + 1] = e OBVIOUS
<1> QED BY <1>1, <1>2, <1>3, <1>4 DEF Holds

-----------------------------------------------------------------------------
(* The place (tag, x, i) holds request r; Held names the same places.       *)
At(tag, x, i, r) ==
  \/ tag = "front" /\ x \in Clients /\ Holds(front[x], i, r)
  \/ tag = "msgs" /\ x = "broker" /\ Holds(msgs, i, r)
  \/ tag = "queue" /\ x \in Workers /\ Holds(queue[x], i, r)
  \/ tag = "task" /\ x \in Workers /\ i = 1 /\ wstate[x] = "busy" /\ task[x] = r
  \/ tag = "back" /\ x \in Workers /\ Holds(back[x], i, r)
  \/ tag = "inbox" /\ x \in Clients /\ Holds(inbox[x], i, r)
  \/ tag = "dropped" /\ x = "broker" /\ i = 1 /\ r \in dropped

(* No request is in two places.                                             *)
Unique ==
  \A t, u, x, y, i, j, r :
    At(t, x, i, r) /\ At(u, y, j, r) => t = u /\ x = y /\ i = j

(* Whatever is on its way is the last request of a client that still waits, *)
(* or has left.                                                             *)
OnlyCurrent ==
  \A t, x, i, r : At(t, x, i, r) =>
    r \in Request /\ r = current[r.client] /\ cstate[r.client] # "idle"

(* The pipes of the front socket hold nothing of another client.            *)
OwnPipes ==
  \A x, i, r : At("front", x, i, r) \/ At("inbox", x, i, r) => r.client = x

(* The request of a client that waits is somewhere.                         *)
Somewhere ==
  \A c \in Clients : cstate[c] = "waiting" =>
    /\ current[c] \in Request /\ current[c].client = c
    /\ \E t, x, i : At(t, x, i, current[c])

(* A client's last request names it as its sender.                          *)
OwnCurrent == \A c \in Clients : current[c] \in Request => current[c].client = c

IInv ==
  TypeOK /\ OwnCurrent /\ Unique /\ OnlyCurrent /\ OwnPipes /\ Somewhere

(* A step takes the request in front of place (t0, x0) and puts it at       *)
(* position j1 of (t1, x1).                                                 *)
Moves(t0, x0, t1, x1, j1) ==
  \A t, x, i, r : At(t, x, i, r)' <=>
    \/ t = t1 /\ x = x1 /\ i = j1 /\ At(t0, x0, 1, r)
    \/ t = t0 /\ x = x0 /\ i \in Nat \ {0} /\ At(t0, x0, i + 1, r)
    \/ ~(t = t0 /\ x = x0) /\ At(t, x, i, r)

(* A step takes the request in front of (t0, x0) and puts it nowhere.       *)
Removes(t0, x0) ==
  \A t, x, i, r : At(t, x, i, r)' <=>
    \/ t = t0 /\ x = x0 /\ i \in Nat \ {0} /\ At(t0, x0, i + 1, r)
    \/ ~(t = t0 /\ x = x0) /\ At(t, x, i, r)

(* A step moves nothing.                                                    *)
Stays == \A t, x, i, r : At(t, x, i, r)' <=> At(t, x, i, r)

-----------------------------------------------------------------------------
LEMMA InitTyped == Init => TypeOK
<1> SUFFICES ASSUME Init PROVE TypeOK
  OBVIOUS
<1>1. asked \in [Clients -> 0..MaxRequests]
  BY ServerAssumption DEF Init
<1>2. /\ front \in [Clients -> Seq(Request)] /\ inbox \in [Clients -> Seq(Request)]
      /\ queue \in [Workers -> Seq(Request)] /\ back \in [Workers -> Seq(Request)]
      /\ msgs \in Seq(Request) /\ Len(msgs) = 0
  BY DEF Init
<1>3. NoRequest \in AnyRequest BY DEF AnyRequest
<1>4. revents \in [front : BOOLEAN, back : BOOLEAN] BY DEF Init
<1>5. /\ current \in [Clients -> AnyRequest] /\ task \in [Workers -> AnyRequest]
      /\ cstate \in [Clients -> {"idle", "waiting", "gone"}]
      /\ wstate \in [Workers -> {"recv", "busy", "dead"}]
      /\ \A w \in Workers : wstate[w] # "busy"
  BY <1>3 DEF Init
<1>6. /\ spc \in {"poll", "front", "send", "back"} /\ dropped \subseteq Request
      /\ (msgs # <<>> <=> spc = "send") /\ Len(msgs) <= 1
  BY DEF Init
<1>7. down \in BOOLEAN BY DEF Init
<1> QED BY <1>1, <1>2, <1>4, <1>5, <1>6, <1>7 DEF TypeOK

(* The REP socket's reply keeps the types of what it may write.             *)
LEMMA ReplyType ==
  ASSUME TypeOK, NEW w \in Workers, wstate[w] = "busy", Reply(w)
  PROVE  back' \in [Workers -> Seq(Request)] /\ dropped' \subseteq Request
<1>1. task[w] \in Request /\ back[w] \in Seq(Request)
  BY DEF TypeOK
<1>2. Append(back[w], task[w]) \in Seq(Request)
  BY <1>1
<1> QED BY <1>1, <1>2 DEF Reply, TypeOK

LEMMA TypeStep ==
  ASSUME TypeOK, Next
  PROVE  TypeOK'
<1>1. ASSUME NEW c \in Clients, Client(c) PROVE TypeOK'
  <2> USE DEF serverVars, workerVars
  <2>1. ASSUME NEW kind \in Kinds, Send(c, kind) PROVE TypeOK'
    <3> DEFINE r == [client |-> c, n |-> asked[c] + 1, kind |-> kind]
    <3>1. asked[c] + 1 \in 0..MaxRequests /\ asked[c] + 1 \in 1..MaxRequests
      BY <2>1, ServerAssumption DEF Send, TypeOK
    <3>2. r \in Request BY <3>1 DEF Request
    <3>3. Append(front[c], r) \in Seq(Request) BY <3>2 DEF TypeOK
    <3>4. /\ current' = [current EXCEPT ![c] = r]
          /\ front' = [front EXCEPT ![c] = Append(front[c], r)]
          /\ asked' = [asked EXCEPT ![c] = asked[c] + 1]
          /\ cstate' = [cstate EXCEPT ![c] = "waiting"]
      BY <2>1 DEF Send
    <3> HIDE DEF r
    <3> QED BY <2>1, <3>1, <3>2, <3>3, <3>4 DEF Send, TypeOK, AnyRequest
  <2>2. CASE Recv(c)
    <3>1. Tail(inbox[c]) \in Seq(Request) BY <2>2 DEF Recv, TypeOK
    <3> QED BY <2>2, <3>1 DEF Recv, TypeOK
  <2>3. CASE Leave(c) BY <2>3 DEF Leave, TypeOK
  <2> QED BY <1>1, <2>1, <2>2, <2>3 DEF Client
<1>2. CASE Broker
  <2> USE DEF clientVars, workerVars
  <2>1. CASE Poll BY <2>1 DEF Poll, FrontReady, BackReady, TypeOK
  <2>2. CASE SkipFront BY <2>2 DEF SkipFront, TypeOK
  <2>3. CASE SkipBack BY <2>3 DEF SkipBack, TypeOK
  <2>4. ASSUME NEW c \in Clients, RecvFront(c) PROVE TypeOK'
    <3>1. Tail(front[c]) \in Seq(Request) /\ Head(front[c]) \in Request
      BY <2>4 DEF RecvFront, TypeOK
    <3>2. /\ msgs' \in Seq(Request) /\ Len(msgs') = 1 /\ msgs' # <<>>
      BY <2>4, <3>1 DEF RecvFront
    <3>3. front' \in [Clients -> Seq(Request)]
      BY <2>4, <3>1 DEF RecvFront, TypeOK
    <3> QED BY <2>4, <3>2, <3>3 DEF RecvFront, TypeOK
  <2>5. ASSUME NEW w \in Workers, SendBack(w) PROVE TypeOK'
    <3>1. msgs[1] \in Request BY <2>5 DEF SendBack, TypeOK
    <3>2. Append(queue[w], msgs[1]) \in Seq(Request) BY <3>1 DEF TypeOK
    <3> QED BY <2>5, <3>2 DEF SendBack, TypeOK
  <2>6. ASSUME NEW w \in Workers, RecvBack(w) PROVE TypeOK'
    <3>1. Tail(back[w]) \in Seq(Request) /\ Head(back[w]) \in Request
      BY <2>6 DEF RecvBack, TypeOK
    <3>2. Append(inbox[Head(back[w]).client], Head(back[w])) \in Seq(Request)
      BY <3>1 DEF TypeOK, Request
    <3>3. inbox' \in [Clients -> Seq(Request)]
      BY <2>6, <3>2 DEF RecvBack, TypeOK
    <3>4. back' \in [Workers -> Seq(Request)]
      BY <2>6, <3>1 DEF RecvBack, TypeOK
    <3> QED BY <2>6, <3>3, <3>4 DEF RecvBack, TypeOK
  <2> QED BY <1>2, <2>1, <2>2, <2>3, <2>4, <2>5, <2>6 DEF Broker
<1>3. ASSUME NEW w \in Workers, Worker(w) PROVE TypeOK'
  <2> USE DEF clientVars, serverVars, workerVars
  <2>1. CASE Take(w)
    <3>1. Tail(queue[w]) \in Seq(Request) /\ Head(queue[w]) \in Request
      BY <2>1 DEF Take, TypeOK
    <3> QED BY <2>1, <3>1 DEF Take, TypeOK, AnyRequest
  <2>2. CASE Judged(w) BY <2>2, ReplyType DEF Judged, TypeOK
  <2>3. CASE Failed(w) BY <2>3, ReplyType DEF Failed, TypeOK
  <2>4. CASE ParseThrows(w) BY <2>4 DEF ParseThrows, TypeOK
  <2>5. CASE ProcessExit(w) BY <2>5 DEF ProcessExit, TypeOK
  <2> QED BY <1>3, <2>1, <2>2, <2>3, <2>4, <2>5 DEF Worker
<1> QED BY <1>1, <1>2, <1>3 DEF Next

-----------------------------------------------------------------------------
(* What each step does to the places: the sockets and the threads pass one  *)
(* request on at a time, from the front of a pipe to the end of another.    *)

LEMMA RecvFrontMoves ==
  ASSUME TypeOK, NEW c \in Clients, RecvFront(c)
  PROVE  Moves("front", c, "msgs", "broker", 1)
<1>1. front[c] \in Seq(Request) /\ front[c] # <<>> /\ msgs = <<>>
  BY DEF RecvFront, TypeOK
<1>2. /\ \A r : Holds(front[c], 1, r) <=> Head(front[c]) = r
      /\ \A i, r : Holds(Tail(front[c]), i, r) <=>
                     i \in Nat \ {0} /\ Holds(front[c], i + 1, r)
  BY <1>1, TailHolds
<1>3. \A i, r : /\ ~Holds(msgs, i, r)
                /\ Holds(msgs', i, r) <=> i = 1 /\ Head(front[c]) = r
  BY <1>1, EmptyHolds, OneHolds DEF RecvFront
<1>4. \A x \in Clients : front'[x] = IF x = c THEN Tail(front[c]) ELSE front[x]
  BY DEF RecvFront, TypeOK
<1>5. UNCHANGED <<queue, wstate, task, back, inbox, dropped>>
  BY DEF RecvFront, clientVars, workerVars
<1> QED BY <1>2, <1>3, <1>4, <1>5 DEF Moves, At

LEMMA SendBackMoves ==
  ASSUME TypeOK, NEW w \in Workers, SendBack(w)
  PROVE  Moves("msgs", "broker", "queue", w, Len(queue[w]) + 1)
<1>1. /\ msgs \in Seq(Request) /\ Len(msgs) = 1 /\ queue[w] \in Seq(Request)
      /\ msgs[1] \in Request
  <2>1. msgs \in Seq(Request) /\ msgs # <<>> /\ Len(msgs) <= 1
    BY DEF SendBack, TypeOK
  <2>2. Len(msgs) \in Nat \ {0} BY <2>1, EmptySeq
  <2>3. Len(msgs) = 1 BY <2>1, <2>2
  <2>4. msgs[1] \in Request BY <2>1, <2>3
  <2> QED BY <2>1, <2>3, <2>4 DEF TypeOK
<1>2. \A i, r : /\ Holds(msgs, i, r) <=> i = 1 /\ msgs[1] = r
                /\ ~Holds(msgs', i, r)
  BY <1>1, EmptyHolds DEF SendBack, Holds
<1>3. \A i, r : Holds(Append(queue[w], msgs[1]), i, r) <=>
                  Holds(queue[w], i, r)
                  \/ (i = Len(queue[w]) + 1 /\ msgs[1] = r)
  BY <1>1, AppendHolds
<1>4. \A x \in Workers :
        queue'[x] = IF x = w THEN Append(queue[w], msgs[1]) ELSE queue[x]
  BY DEF SendBack, TypeOK
<1>5. UNCHANGED <<front, wstate, task, back, inbox, dropped>>
  BY DEF SendBack, clientVars
<1>6. \A i \in Nat \ {0} : i + 1 # 1 OBVIOUS
<1> QED BY <1>2, <1>3, <1>4, <1>5, <1>6 DEF Moves, At

LEMMA TakeMoves ==
  ASSUME TypeOK, NEW w \in Workers, Take(w)
  PROVE  Moves("queue", w, "task", w, 1)
<1>1. queue[w] \in Seq(Request) /\ queue[w] # <<>>
  BY DEF Take, TypeOK
<1>2. /\ \A r : Holds(queue[w], 1, r) <=> Head(queue[w]) = r
      /\ \A i, r : Holds(Tail(queue[w]), i, r) <=>
                     i \in Nat \ {0} /\ Holds(queue[w], i + 1, r)
  BY <1>1, TailHolds
<1>3. \A x \in Workers :
        /\ queue'[x] = IF x = w THEN Tail(queue[w]) ELSE queue[x]
        /\ task'[x] = IF x = w THEN Head(queue[w]) ELSE task[x]
        /\ wstate'[x] = IF x = w THEN "busy" ELSE wstate[x]
  BY DEF Take, TypeOK
<1>4. wstate[w] = "recv" BY DEF Take
<1>5. UNCHANGED <<front, msgs, back, inbox, dropped>>
  BY DEF Take, clientVars, serverVars
<1> QED BY <1>2, <1>3, <1>4, <1>5 DEF Moves, At

(* Judged and Failed: the reply goes into the pipe, or is dropped.          *)
LEMMA ReplyMoves ==
  ASSUME TypeOK, NEW w \in Workers, Judged(w) \/ Failed(w)
  PROVE  \/ Moves("task", w, "back", w, Len(back[w]) + 1)
         \/ Moves("task", w, "dropped", "broker", 1)
<1>1. /\ wstate[w] = "busy" /\ task[w] \in Request /\ back[w] \in Seq(Request)
      /\ Reply(w)
  BY DEF Judged, Failed, TypeOK
<1>2. \A x \in Workers : wstate'[x] = "busy" <=> x # w /\ wstate[x] = "busy"
  BY DEF Judged, Failed, TypeOK
<1>3. UNCHANGED <<front, msgs, queue, task, inbox>>
  BY DEF Judged, Failed, clientVars, serverVars
<1>4. \A i \in Nat \ {0} : i + 1 # 1 OBVIOUS
<1>5. CASE Len(back[w]) < HWM
  <2>1. \A i, r : Holds(Append(back[w], task[w]), i, r) <=>
                    Holds(back[w], i, r)
                    \/ (i = Len(back[w]) + 1 /\ task[w] = r)
    BY <1>1, AppendHolds
  <2>2. /\ \A x \in Workers :
             back'[x] = IF x = w THEN Append(back[w], task[w]) ELSE back[x]
        /\ UNCHANGED dropped
    BY <1>1, <1>5 DEF Reply, TypeOK
  <2>3. Moves("task", w, "back", w, Len(back[w]) + 1)
    BY <1>1, <1>2, <1>3, <1>4, <2>1, <2>2 DEF Moves, At
  <2> QED BY <2>3
<1>6. CASE ~(Len(back[w]) < HWM)
  <2>1. dropped' = dropped \cup {task[w]} /\ UNCHANGED back
    BY <1>1, <1>6 DEF Reply
  <2>2. Moves("task", w, "dropped", "broker", 1)
    BY <1>1, <1>2, <1>3, <1>4, <2>1 DEF Moves, At
  <2> QED BY <2>2
<1> QED BY <1>5, <1>6

LEMMA RecvBackMoves ==
  ASSUME TypeOK, NEW w \in Workers, RecvBack(w)
  PROVE  LET r == Head(back[w])
         IN  /\ r \in Request /\ r.client \in Clients /\ At("back", w, 1, r)
             /\ IF cstate[r.client] = "gone" THEN Removes("back", w)
                ELSE Moves("back", w, "inbox", r.client,
                           Len(inbox[r.client]) + 1)
<1> DEFINE r == Head(back[w])
           c == r.client
<1>1. back[w] \in Seq(Request) /\ back[w] # <<>>
  BY DEF RecvBack, TypeOK
<1>2. /\ r \in Request
      /\ \A q : Holds(back[w], 1, q) <=> r = q
      /\ \A i, q : Holds(Tail(back[w]), i, q) <=>
                     i \in Nat \ {0} /\ Holds(back[w], i + 1, q)
  BY <1>1, TailHolds
<1>3. c \in Clients BY <1>2 DEF Request
<1>4. inbox[c] \in Seq(Request) BY <1>3 DEF TypeOK
<1>5. \A i, q : Holds(Append(inbox[c], r), i, q) <=>
                  Holds(inbox[c], i, q) \/ (i = Len(inbox[c]) + 1 /\ r = q)
  BY <1>2, <1>4, AppendHolds
<1>6. \A x \in Workers : back'[x] = IF x = w THEN Tail(back[w]) ELSE back[x]
  BY DEF RecvBack, TypeOK
<1>7. inbox' = IF cstate[c] = "gone" THEN inbox
               ELSE [inbox EXCEPT ![c] = Append(inbox[c], r)]
  BY DEF RecvBack
<1>8. UNCHANGED <<front, msgs, queue, wstate, task, dropped>>
  BY DEF RecvBack
<1>9. At("back", w, 1, r) BY <1>2 DEF At
<1> HIDE DEF r, c
<1>10. CASE cstate[c] = "gone"
  <2>1. Removes("back", w)
    BY <1>2, <1>6, <1>7, <1>8, <1>10 DEF Removes, At
  <2> QED BY <1>2, <1>3, <1>9, <1>10, <2>1 DEF r, c
<1>11. CASE cstate[c] # "gone"
  <2>1. \A x \in Clients :
          inbox'[x] = IF x = c THEN Append(inbox[c], r) ELSE inbox[x]
    BY <1>7, <1>11 DEF TypeOK
  <2>2. Moves("back", w, "inbox", c, Len(inbox[c]) + 1)
    BY <1>2, <1>3, <1>5, <1>6, <1>8, <2>1 DEF Moves, At
  <2> QED BY <1>2, <1>3, <1>9, <1>11, <2>2 DEF r, c
<1> QED BY <1>10, <1>11

LEMMA RecvRemoves ==
  ASSUME TypeOK, NEW c \in Clients, Recv(c)
  PROVE  Removes("inbox", c) /\ At("inbox", c, 1, Head(inbox[c]))
<1>1. inbox[c] \in Seq(Request) /\ inbox[c] # <<>>
  BY DEF Recv, TypeOK
<1>2. /\ \A r : Holds(inbox[c], 1, r) <=> Head(inbox[c]) = r
      /\ \A i, r : Holds(Tail(inbox[c]), i, r) <=>
                     i \in Nat \ {0} /\ Holds(inbox[c], i + 1, r)
  BY <1>1, TailHolds
<1>3. \A x \in Clients : inbox'[x] = IF x = c THEN Tail(inbox[c]) ELSE inbox[x]
  BY DEF Recv, TypeOK
<1>4. UNCHANGED <<front, msgs, queue, wstate, task, back, dropped>>
  BY DEF Recv, serverVars, workerVars
<1> QED BY <1>2, <1>3, <1>4 DEF Removes, At

(* A client's request is added at the end of its own pipe.                  *)
LEMMA SendAdds ==
  ASSUME TypeOK, NEW c \in Clients, NEW kind \in Kinds, Send(c, kind)
  PROVE  /\ current'[c] \in Request /\ current'[c].client = c
         /\ \A t, x, i, r : At(t, x, i, r)' <=>
              \/ At(t, x, i, r)
              \/ /\ t = "front" /\ x = c /\ i = Len(front[c]) + 1
                 /\ r = current'[c]
<1> DEFINE q == [client |-> c, n |-> asked[c] + 1, kind |-> kind]
<1>1. asked[c] + 1 \in 1..MaxRequests
  BY ServerAssumption DEF Send, TypeOK
<1>2. q \in Request /\ q.client = c BY <1>1 DEF Request
<1>3. current'[c] = q BY DEF Send, TypeOK
<1>4. front[c] \in Seq(Request) BY DEF TypeOK
<1>5. \A x \in Clients :
        front'[x] = IF x = c THEN Append(front[c], q) ELSE front[x]
  BY DEF Send, TypeOK
<1>6. UNCHANGED <<msgs, queue, wstate, task, back, inbox, dropped>>
  BY DEF Send, serverVars, workerVars
<1> HIDE DEF q
<1>7. \A i, r : Holds(Append(front[c], q), i, r) <=>
                  Holds(front[c], i, r) \/ (i = Len(front[c]) + 1 /\ q = r)
  BY <1>2, <1>4, AppendHolds
<1> QED BY <1>2, <1>3, <1>5, <1>6, <1>7 DEF At

(* The steps that move nothing.                                             *)
LEMMA OthersStay ==
  ASSUME \/ \E c \in Clients : Leave(c)
         \/ Poll \/ SkipFront \/ SkipBack
         \/ \E w \in Workers : ParseThrows(w) \/ ProcessExit(w)
         \/ UNCHANGED vars
  PROVE  Stays
<1>1. UNCHANGED <<front, msgs, queue, wstate, task, back, inbox, dropped>>
  BY DEF Leave, Poll, SkipFront, SkipBack, ParseThrows, ProcessExit, vars,
         clientVars, serverVars, workerVars
<1> QED BY <1>1 DEF Stays, At

-----------------------------------------------------------------------------
(* What moving one request does to the invariant, wherever it moves to.     *)

LEMMA Positive ==
  ASSUME TypeOK, NEW t, NEW x, NEW i, NEW r, At(t, x, i, r)
  PROVE  i \in Nat \ {0}
<1>1. ASSUME NEW s \in Seq(Request), Holds(s, i, r) PROVE i \in Nat \ {0}
  BY <1>1 DEF Holds
<1> QED BY <1>1 DEF At, TypeOK

LEMMA OnePerPlace ==
  ASSUME NEW t, NEW x, NEW i, NEW q, NEW r, At(t, x, i, q), At(t, x, i, r),
         t # "dropped"
  PROVE  q = r
BY DEF At, Holds

LEMMA MovesKeep ==
  ASSUME TypeOK, Unique, OnlyCurrent, Somewhere,
         NEW t0, NEW x0, NEW t1, NEW x1, NEW j1, Moves(t0, x0, t1, x1, j1),
         UNCHANGED <<cstate, current>>
  PROVE  Unique' /\ OnlyCurrent' /\ Somewhere'
<1>1. ASSUME NEW t, NEW x, NEW i, NEW u, NEW y, NEW j, NEW r,
             At(t, x, i, r)', At(u, y, j, r)'
      PROVE  t = u /\ x = y /\ i = j
  BY <1>1 DEF Unique, Moves
<1>2. \A t, x, i, r : At(t, x, i, r)' => \E u, y, j : At(u, y, j, r)
  BY DEF Moves
<1>3. ASSUME NEW t, NEW x, NEW i, NEW r, At(t, x, i, r)
      PROVE  \E u, y, j : At(u, y, j, r)'
  <2>1. i \in Nat \ {0} BY <1>3, Positive
  <2>2. CASE ~(t = t0 /\ x = x0)
    <3>1. At(t, x, i, r)' BY <1>3, <2>2 DEF Moves
    <3> QED BY <3>1
  <2>3. CASE t = t0 /\ x = x0 /\ i = 1
    <3>1. At(t1, x1, j1, r)' BY <1>3, <2>3 DEF Moves
    <3> QED BY <3>1
  <2>4. CASE t = t0 /\ x = x0 /\ i # 1
    <3>1. i - 1 \in Nat \ {0} /\ (i - 1) + 1 = i BY <2>1, <2>4
    <3>2. At(t0, x0, i - 1, r)' BY <1>3, <2>4, <3>1 DEF Moves
    <3> QED BY <3>2
  <2> QED BY <2>2, <2>3, <2>4
<1>4. Unique' BY <1>1 DEF Unique
<1>5. OnlyCurrent' BY <1>2 DEF OnlyCurrent
<1>6. Somewhere' BY <1>3 DEF Somewhere
<1> QED BY <1>4, <1>5, <1>6

(* Nothing gets into a pipe of the front socket that was not there.         *)
LEMMA MovesKeepOwn ==
  ASSUME OwnPipes,
         NEW t0, NEW x0, NEW t1, NEW x1, NEW j1, Moves(t0, x0, t1, x1, j1),
         t1 \notin {"front", "inbox"}
  PROVE  OwnPipes'
BY DEF OwnPipes, Moves

(* Taking away the request of a client that does not wait, or from now on   *)
(* waits no more, loses nothing anybody waits for.                          *)
LEMMA RemovesKeep ==
  ASSUME TypeOK, Unique, OnlyCurrent, OwnPipes, Somewhere,
         NEW t0, NEW x0, NEW c, NEW q, q.client = c, At(t0, x0, 1, q),
         t0 # "dropped", Removes(t0, x0), UNCHANGED current,
         \A d \in Clients : d # c => cstate'[d] = cstate[d],
         cstate'[c] # "waiting"
  PROVE  Unique' /\ OnlyCurrent' /\ OwnPipes' /\ Somewhere'
<1>1. ASSUME NEW t, NEW x, NEW i, NEW u, NEW y, NEW j, NEW r,
             At(t, x, i, r)', At(u, y, j, r)'
      PROVE  t = u /\ x = y /\ i = j
  BY <1>1 DEF Unique, Removes
<1>2. ASSUME NEW t, NEW x, NEW i, NEW r, At(t, x, i, r)'
      PROVE  /\ r # q
             /\ \E u, y, j : At(u, y, j, r)
  <2>1. 1 + 1 # 1 /\ \A k \in Nat \ {0} : k + 1 # 1 OBVIOUS
  <2> QED BY <1>2, <2>1 DEF Removes, Unique
<1>3. ASSUME NEW t, NEW x, NEW i, NEW r, At(t, x, i, r), r # q
      PROVE  \E u, y, j : At(u, y, j, r)'
  <2>1. i \in Nat \ {0} BY <1>3, Positive
  <2>2. CASE ~(t = t0 /\ x = x0)
    <3>1. At(t, x, i, r)' BY <1>3, <2>2 DEF Removes
    <3> QED BY <3>1
  <2>3. CASE t = t0 /\ x = x0 /\ i # 1
    <3>1. i - 1 \in Nat \ {0} /\ (i - 1) + 1 = i BY <2>1, <2>3
    <3>2. At(t0, x0, i - 1, r)' BY <1>3, <2>3, <3>1 DEF Removes
    <3> QED BY <3>2
  <2>4. CASE t = t0 /\ x = x0 /\ i = 1
    <3>1. q = r BY <1>3, <2>4, OnePerPlace
    <3> QED BY <1>3, <3>1
  <2> QED BY <2>2, <2>3, <2>4
<1>4. Unique' BY <1>1 DEF Unique
<1>5. OnlyCurrent'
  <2> SUFFICES ASSUME NEW t, NEW x, NEW i, NEW r, At(t, x, i, r)'
               PROVE  /\ r \in Request /\ r = current[r.client]
                      /\ cstate'[r.client] # "idle"
    BY DEF OnlyCurrent
  <2>1. /\ r \in Request /\ r = current[r.client] /\ r # q
        /\ cstate[r.client] # "idle"
    BY <1>2 DEF OnlyCurrent
  <2>2. q = current[c] BY DEF OnlyCurrent
  <2>3. r.client \in Clients /\ r.client # c
    BY <2>1, <2>2 DEF Request
  <2> QED BY <2>1, <2>3
<1>6. OwnPipes'
  BY DEF OwnPipes, Removes
<1>7. Somewhere'
  <2> SUFFICES ASSUME NEW d \in Clients, cstate'[d] = "waiting"
               PROVE  /\ current[d] \in Request /\ current[d].client = d
                      /\ \E t, x, i : At(t, x, i, current[d])'
    BY DEF Somewhere
  <2>1. d # c /\ cstate[d] = "waiting" OBVIOUS
  <2>2. /\ current[d] \in Request /\ current[d].client = d
        /\ \E t, x, i : At(t, x, i, current[d])
    BY <2>1 DEF Somewhere
  <2>3. current[d] # q BY <2>1, <2>2
  <2> QED BY <1>3, <2>2, <2>3
<1> QED BY <1>4, <1>5, <1>6, <1>7

-----------------------------------------------------------------------------
LEMMA InitEmpty ==
  ASSUME Init
  PROVE  \A t, x, i, r : ~At(t, x, i, r)
<1>1. \A i, r : ~Holds(<<>>, i, r) BY EmptyHolds
<1> QED BY <1>1 DEF Init, At

LEMMA SendKeeps ==
  ASSUME IInv, NEW c \in Clients, NEW kind \in Kinds, Send(c, kind)
  PROVE  Unique' /\ OnlyCurrent' /\ OwnPipes' /\ Somewhere'
<1> USE DEF IInv
<1> DEFINE q == current'[c]
<1>1. /\ q \in Request /\ q.client = c
      /\ \A t, x, i, r : At(t, x, i, r)' <=>
           \/ At(t, x, i, r)
           \/ t = "front" /\ x = c /\ i = Len(front[c]) + 1 /\ r = q
  BY SendAdds
<1>2. /\ cstate[c] = "idle" /\ cstate'[c] = "waiting"
      /\ \A d \in Clients : d # c => /\ cstate'[d] = cstate[d]
                                     /\ current'[d] = current[d]
  BY DEF Send, TypeOK
<1>3. ASSUME NEW t, NEW x, NEW i, NEW r, At(t, x, i, r)
      PROVE  /\ r \in Request /\ r = current[r.client] /\ r.client \in Clients
             /\ r.client # c /\ cstate[r.client] # "idle"
  BY <1>2, <1>3 DEF OnlyCurrent, Request
<1> HIDE DEF q
<1>4. Unique' BY <1>1, <1>3 DEF Unique
<1>5. OnlyCurrent' BY <1>1, <1>2, <1>3 DEF OnlyCurrent, q
<1>6. OwnPipes' BY <1>1 DEF OwnPipes
<1>7. Somewhere' BY <1>1, <1>2 DEF Somewhere, q
<1> QED BY <1>4, <1>5, <1>6, <1>7

LEMMA StaysKeeps ==
  ASSUME IInv, Stays, UNCHANGED current,
         \A c \in Clients : cstate'[c] = cstate[c] \/ cstate'[c] = "gone"
  PROVE  Unique' /\ OnlyCurrent' /\ OwnPipes' /\ Somewhere'
<1> USE DEF IInv, Stays
<1>1. Unique' BY DEF Unique
<1>2. OnlyCurrent' BY DEF OnlyCurrent, Request
<1>3. OwnPipes' BY DEF OwnPipes
<1>4. Somewhere' BY DEF Somewhere
<1> QED BY <1>1, <1>2, <1>3, <1>4

LEMMA InvStep ==
  ASSUME IInv, Next
  PROVE  Unique' /\ OnlyCurrent' /\ OwnPipes' /\ Somewhere'
<1>1. ASSUME NEW c \in Clients, Client(c)
      PROVE  Unique' /\ OnlyCurrent' /\ OwnPipes' /\ Somewhere'
  <2>1. ASSUME NEW kind \in Kinds, Send(c, kind)
        PROVE  Unique' /\ OnlyCurrent' /\ OwnPipes' /\ Somewhere'
    BY <2>1, SendKeeps
  <2>2. CASE Recv(c)
    <3>1. Removes("inbox", c) /\ At("inbox", c, 1, Head(inbox[c]))
      BY <2>2, RecvRemoves DEF IInv
    <3>2. Head(inbox[c]).client = c BY <3>1 DEF IInv, OwnPipes
    <3>3. /\ UNCHANGED current /\ cstate'[c] # "waiting"
          /\ \A d \in Clients : d # c => cstate'[d] = cstate[d]
      BY <2>2 DEF Recv, IInv, TypeOK
    <3> QED BY <3>1, <3>2, <3>3, RemovesKeep DEF IInv
  <2>3. CASE Leave(c)
    <3>1. /\ UNCHANGED current
          /\ \A d \in Clients : cstate'[d] = cstate[d] \/ cstate'[d] = "gone"
      BY <2>3 DEF Leave, IInv, TypeOK
    <3> QED BY <2>3, <3>1, OthersStay, StaysKeeps
  <2> QED BY <1>1, <2>1, <2>2, <2>3 DEF Client
<1>2. CASE Broker
  <2>1. CASE Poll \/ SkipFront \/ SkipBack
    <3>1. UNCHANGED <<cstate, current>>
      BY <2>1 DEF Poll, SkipFront, SkipBack, clientVars
    <3> QED BY <2>1, <3>1, OthersStay, StaysKeeps
  <2>2. ASSUME NEW c \in Clients, RecvFront(c)
        PROVE  Unique' /\ OnlyCurrent' /\ OwnPipes' /\ Somewhere'
    <3>1. Moves("front", c, "msgs", "broker", 1)
      BY <2>2, RecvFrontMoves DEF IInv
    <3>2. UNCHANGED <<cstate, current>> BY <2>2 DEF RecvFront, clientVars
    <3> QED BY <3>1, <3>2, MovesKeep, MovesKeepOwn DEF IInv
  <2>3. ASSUME NEW w \in Workers, SendBack(w)
        PROVE  Unique' /\ OnlyCurrent' /\ OwnPipes' /\ Somewhere'
    <3>1. Moves("msgs", "broker", "queue", w, Len(queue[w]) + 1)
      BY <2>3, SendBackMoves DEF IInv
    <3>2. UNCHANGED <<cstate, current>> BY <2>3 DEF SendBack, clientVars
    <3> QED BY <3>1, <3>2, MovesKeep, MovesKeepOwn DEF IInv
  <2>4. ASSUME NEW w \in Workers, RecvBack(w)
        PROVE  Unique' /\ OnlyCurrent' /\ OwnPipes' /\ Somewhere'
    <3> DEFINE r == Head(back[w])
               c == r.client
    <3>1. /\ r \in Request /\ c \in Clients /\ At("back", w, 1, r)
          /\ cstate[c] = "gone" => Removes("back", w)
          /\ cstate[c] # "gone" =>
               Moves("back", w, "inbox", c, Len(inbox[c]) + 1)
      BY <2>4, RecvBackMoves DEF IInv
    <3>2. UNCHANGED <<cstate, current>> BY <2>4 DEF RecvBack
    <3> HIDE DEF r
    <3>3. CASE cstate[c] = "gone"
      BY <3>1, <3>2, <3>3, RemovesKeep DEF IInv
    <3>4. CASE cstate[c] # "gone"
      <4>1. Moves("back", w, "inbox", c, Len(inbox[c]) + 1) BY <3>1, <3>4
      <4>2. \A q : At("back", w, 1, q) => q.client = c
        BY <3>1, OnePerPlace
      <4>3. OwnPipes' BY <4>1, <4>2 DEF IInv, OwnPipes, Moves
      <4> QED BY <3>2, <4>1, <4>3, MovesKeep DEF IInv
    <3> QED BY <3>3, <3>4
  <2> QED BY <1>2, <2>1, <2>2, <2>3, <2>4 DEF Broker
<1>3. ASSUME NEW w \in Workers, Worker(w)
      PROVE  Unique' /\ OnlyCurrent' /\ OwnPipes' /\ Somewhere'
  <2>1. UNCHANGED <<cstate, current>>
    BY <1>3 DEF Worker, Take, Judged, Failed, ParseThrows, ProcessExit,
                clientVars
  <2>2. CASE Take(w)
    <3>1. Moves("queue", w, "task", w, 1) BY <2>2, TakeMoves DEF IInv
    <3> QED BY <2>1, <3>1, MovesKeep, MovesKeepOwn DEF IInv
  <2>3. CASE Judged(w) \/ Failed(w)
    <3>1. \/ Moves("task", w, "back", w, Len(back[w]) + 1)
          \/ Moves("task", w, "dropped", "broker", 1)
      BY <2>3, ReplyMoves DEF IInv
    <3> QED BY <2>1, <3>1, MovesKeep, MovesKeepOwn DEF IInv
  <2>4. CASE ParseThrows(w) \/ ProcessExit(w)
    BY <2>1, <2>4, OthersStay, StaysKeeps
  <2> QED BY <1>3, <2>2, <2>3, <2>4 DEF Worker
<1> QED BY <1>1, <1>2, <1>3 DEF Next

LEMMA OwnCurrentStep ==
  ASSUME IInv, Next
  PROVE  OwnCurrent'
<1>1. CASE UNCHANGED current
  BY <1>1 DEF IInv, OwnCurrent
<1>2. ASSUME NEW c \in Clients, NEW kind \in Kinds, Send(c, kind)
      PROVE  OwnCurrent'
  <2>1. current'[c].client = c BY <1>2, SendAdds DEF IInv
  <2>2. \A d \in Clients : d # c => current'[d] = current[d]
    BY <1>2 DEF Send, IInv, TypeOK
  <2> QED BY <2>1, <2>2 DEF IInv, OwnCurrent
<1>3. UNCHANGED current \/ \E c \in Clients, kind \in Kinds : Send(c, kind)
  BY DEF Next, Client, Recv, Leave, Broker, Poll, SkipFront, SkipBack,
         RecvFront, SendBack, RecvBack, Worker, Take, Judged, Failed,
         ParseThrows, ProcessExit, clientVars
<1> QED BY <1>1, <1>2, <1>3

LEMMA InitIInv == Init => IInv
<1> SUFFICES ASSUME Init PROVE IInv
  OBVIOUS
<1>1. \A t, x, i, r : ~At(t, x, i, r) BY InitEmpty
<1>2. \A c \in Clients : cstate[c] = "idle" BY DEF Init
<1>3. \A c \in Clients : current[c] \notin Request
  BY DEF Init, Request, NoRequest
<1> QED BY <1>1, <1>2, <1>3, InitTyped
        DEF IInv, OwnCurrent, Unique, OnlyCurrent, OwnPipes, Somewhere

LEMMA IInvStep ==
  ASSUME IInv, [Next]_vars
  PROVE  IInv'
<1>1. CASE Next BY <1>1, TypeStep, OwnCurrentStep, InvStep DEF IInv
<1>2. CASE UNCHANGED vars
  <2>1. TypeOK' BY <1>2 DEF vars, IInv, TypeOK
  <2>2. UNCHANGED <<cstate, current>> BY <1>2 DEF vars
  <2> QED BY <1>2, <2>1, <2>2, OthersStay, StaysKeeps DEF IInv, OwnCurrent
<1> QED BY <1>1, <1>2

(* A reply comes from a worker and goes nowhere but to the front.           *)
LEMMA RepliesMove ==
  ASSUME TypeOK, [Next]_vars,
         NEW p \in {"back", "inbox"}, NEW x, NEW i, NEW r, At(p, x, i, r)'
  PROVE  \/ \E q \in {"back", "inbox"} : \E y, j : At(q, y, j, r)
         \/ \E w \in Workers : (Judged(w) \/ Failed(w)) /\ task[w] = r
<1> DEFINE Before == \E q \in {"back", "inbox"} : \E y, j : At(q, y, j, r)
<1>1. ASSUME NEW p0, NEW x0, Removes(p0, x0) PROVE Before
  <2>1. At(p, x, i + 1, r) \/ At(p, x, i, r) BY <1>1 DEF Removes
  <2> QED BY <2>1
<1>2. ASSUME NEW p0, NEW x0, NEW p1, NEW x1, NEW j1,
             Moves(p0, x0, p1, x1, j1),
             p1 \notin {"back", "inbox"} \/ p0 \in {"back", "inbox"}
      PROVE  Before
  <2>1. \/ p1 \in {"back", "inbox"} /\ At(p0, x0, 1, r)
        \/ At(p, x, i + 1, r) \/ At(p, x, i, r)
    BY <1>2 DEF Moves
  <2> QED BY <1>2, <2>1
<1>3. CASE Stays BY <1>3 DEF Stays
<1>4. ASSUME NEW c \in Clients, NEW kind \in Kinds, Send(c, kind) PROVE Before
  <2>1. At(p, x, i, r) BY <1>4, SendAdds
  <2> QED BY <2>1
<1>5. ASSUME NEW c \in Clients, Recv(c) PROVE Before
  BY <1>1, <1>5, RecvRemoves
<1>6. CASE \E c \in Clients : RecvFront(c) BY <1>2, <1>6, RecvFrontMoves
<1>7. ASSUME NEW w \in Workers, SendBack(w) PROVE Before
  BY <1>2, <1>7, SendBackMoves
<1>8. ASSUME NEW w \in Workers, RecvBack(w) PROVE Before
  BY <1>1, <1>2, <1>8, RecvBackMoves
<1>9. ASSUME NEW w \in Workers, Take(w) PROVE Before
  BY <1>2, <1>9, TakeMoves
<1>10. ASSUME NEW w \in Workers, Judged(w) \/ Failed(w)
       PROVE  Before \/ task[w] = r
  <2>1. PICK p1, x1, j1 : Moves("task", w, p1, x1, j1)
    BY <1>10, ReplyMoves
  <2>2. At("task", w, 1, r) \/ At(p, x, i + 1, r) \/ At(p, x, i, r)
    BY <2>1 DEF Moves
  <2>3. At("task", w, 1, r) => task[w] = r BY DEF At
  <2> QED BY <2>2, <2>3
<1> QED BY <1>3, <1>4, <1>5, <1>6, <1>7, <1>8, <1>9, <1>10, OthersStay
        DEF Next, Client, Broker, Worker

LEMMA Inductive == Spec => []IInv
<1>1. IInv /\ [Next]_vars => IInv' BY IInvStep
<1> QED BY <1>1, InitIInv, PTL DEF Spec

(* The type invariant of clients, broker and workers.                       *)
THEOREM TypeCorrect == Spec => []TypeOK
BY Inductive, PTL DEF IInv

-----------------------------------------------------------------------------
(* The places as Held names them.                                           *)
Name(t, x, i, r) ==
  IF t = "msgs" THEN <<"msgs", i>>
  ELSE IF t = "task" THEN <<"task", x>>
  ELSE IF t = "dropped" THEN <<"dropped", r>> ELSE <<t, x, i>>

LEMMA HeldIsAt ==
  ASSUME TypeOK, NEW r, NEW p
  PROVE  p \in Held(r) <=> \E t, x, i : At(t, x, i, r) /\ p = Name(t, x, i, r)
<1>1. ASSUME NEW s \in Seq(Request), NEW i
      PROVE  i \in Positions(s, r) <=> Holds(s, i, r)
  BY LenProperties DEF Positions, Holds
<1>2. ASSUME NEW tag, NEW X, NEW f \in [X -> Seq(Request)]
      PROVE  p \in InSeqs(tag, X, f, r) <=>
               \E x \in X : \E i : Holds(f[x], i, r) /\ p = <<tag, x, i>>
  <2>1. p \in InSeqs(tag, X, f, r) <=>
          \E x \in X : \E i \in Positions(f[x], r) : p = <<tag, x, i>>
    BY DEF InSeqs
  <2> QED BY <1>1, <2>1
<1>3. p \in Held(r) <=>
        \/ \E x \in Clients : \E i : Holds(front[x], i, r) /\ p = <<"front", x, i>>
        \/ \E i : Holds(msgs, i, r) /\ p = <<"msgs", i>>
        \/ \E x \in Workers : \E i : Holds(queue[x], i, r) /\ p = <<"queue", x, i>>
        \/ \E x \in Workers : /\ wstate[x] = "busy" /\ task[x] = r
                              /\ p = <<"task", x>>
        \/ \E x \in Workers : \E i : Holds(back[x], i, r) /\ p = <<"back", x, i>>
        \/ \E x \in Clients : \E i : Holds(inbox[x], i, r) /\ p = <<"inbox", x, i>>
        \/ r \in dropped /\ p = <<"dropped", r>>
  <2>1. p \in InSeqs("front", Clients, front, r) <=>
          \E x \in Clients : \E i : Holds(front[x], i, r) /\ p = <<"front", x, i>>
    <3>1. front \in [Clients -> Seq(Request)] BY DEF TypeOK
    <3> QED BY <3>1, <1>2
  <2>2. p \in InSeqs("queue", Workers, queue, r) <=>
          \E x \in Workers : \E i : Holds(queue[x], i, r) /\ p = <<"queue", x, i>>
    <3>1. queue \in [Workers -> Seq(Request)] BY DEF TypeOK
    <3> QED BY <3>1, <1>2
  <2>3. p \in InSeqs("back", Workers, back, r) <=>
          \E x \in Workers : \E i : Holds(back[x], i, r) /\ p = <<"back", x, i>>
    <3>1. back \in [Workers -> Seq(Request)] BY DEF TypeOK
    <3> QED BY <3>1, <1>2
  <2>4. p \in InSeqs("inbox", Clients, inbox, r) <=>
          \E x \in Clients : \E i : Holds(inbox[x], i, r) /\ p = <<"inbox", x, i>>
    <3>1. inbox \in [Clients -> Seq(Request)] BY DEF TypeOK
    <3> QED BY <3>1, <1>2
  <2>5. p \in {<<"msgs", i>> : i \in Positions(msgs, r)} <=>
          \E i : Holds(msgs, i, r) /\ p = <<"msgs", i>>
    BY <1>1 DEF TypeOK
  <2> QED BY <2>1, <2>2, <2>3, <2>4, <2>5 DEF Held
<1>4. ASSUME p \in Held(r)
      PROVE  \E u, y, j : At(u, y, j, r) /\ p = Name(u, y, j, r)
  <2>1. ASSUME NEW x \in Clients, NEW i, Holds(front[x], i, r),
               p = <<"front", x, i>>
        PROVE  \E u, y, j : At(u, y, j, r) /\ p = Name(u, y, j, r)
    <3>1. At("front", x, i, r) /\ p = Name("front", x, i, r)
      BY <2>1 DEF At, Name
    <3> QED BY <3>1
  <2>2. ASSUME NEW x \in Workers, NEW i, Holds(queue[x], i, r),
               p = <<"queue", x, i>>
        PROVE  \E u, y, j : At(u, y, j, r) /\ p = Name(u, y, j, r)
    <3>1. At("queue", x, i, r) /\ p = Name("queue", x, i, r)
      BY <2>2 DEF At, Name
    <3> QED BY <3>1
  <2>3. ASSUME NEW x \in Workers, NEW i, Holds(back[x], i, r),
               p = <<"back", x, i>>
        PROVE  \E u, y, j : At(u, y, j, r) /\ p = Name(u, y, j, r)
    <3>1. At("back", x, i, r) /\ p = Name("back", x, i, r)
      BY <2>3 DEF At, Name
    <3> QED BY <3>1
  <2>4. ASSUME NEW x \in Clients, NEW i, Holds(inbox[x], i, r),
               p = <<"inbox", x, i>>
        PROVE  \E u, y, j : At(u, y, j, r) /\ p = Name(u, y, j, r)
    <3>1. At("inbox", x, i, r) /\ p = Name("inbox", x, i, r)
      BY <2>4 DEF At, Name
    <3> QED BY <3>1
  <2>5. ASSUME NEW i, Holds(msgs, i, r), p = <<"msgs", i>>
        PROVE  \E u, y, j : At(u, y, j, r) /\ p = Name(u, y, j, r)
    <3>1. At("msgs", "broker", i, r) /\ p = Name("msgs", "broker", i, r)
      BY <2>5 DEF At, Name
    <3> QED BY <3>1
  <2>6. ASSUME NEW x \in Workers, wstate[x] = "busy", task[x] = r,
               p = <<"task", x>>
        PROVE  \E u, y, j : At(u, y, j, r) /\ p = Name(u, y, j, r)
    <3>1. At("task", x, 1, r) /\ p = Name("task", x, 1, r)
      BY <2>6 DEF At, Name
    <3> QED BY <3>1
  <2>7. ASSUME r \in dropped, p = <<"dropped", r>>
        PROVE  \E u, y, j : At(u, y, j, r) /\ p = Name(u, y, j, r)
    <3>1. At("dropped", "broker", 1, r) /\ p = Name("dropped", "broker", 1, r)
      BY <2>7 DEF At, Name
    <3> QED BY <3>1
  <2> QED BY <1>3, <1>4, <2>1, <2>2, <2>3, <2>4, <2>5, <2>6, <2>7
<1>5. ASSUME NEW t, NEW x, NEW i, At(t, x, i, r), p = Name(t, x, i, r)
      PROVE  p \in Held(r)
  BY <1>3, <1>5 DEF At, Name
<1> QED BY <1>4, <1>5

LEMMA PlacesInv ==
  ASSUME IInv
  PROVE  InOnePlace
<1> USE DEF IInv
<1>1. ASSUME NEW c \in Clients, cstate[c] = "waiting"
      PROVE  Cardinality(Held(current[c])) = 1
  <2>1. PICK t, x, i : At(t, x, i, current[c])
    BY <1>1 DEF Somewhere
  <2> DEFINE place == Name(t, x, i, current[c])
  <2>2. \A p : p \in Held(current[c]) <=> p = place
    BY <2>1, HeldIsAt DEF Unique
  <2>3. Held(current[c]) = {place} BY <2>2
  <2> QED BY <2>3, FS_Singleton
<1>2. ASSUME NEW c \in Clients, cstate[c] = "idle"
      PROVE  Held(current[c]) = {}
  <2>1. \A t, x, i : ~At(t, x, i, current[c])
    BY <1>2 DEF OnlyCurrent, OwnCurrent
  <2> QED BY <2>1, HeldIsAt
<1> QED BY <1>1, <1>2 DEF InOnePlace

(* All a client can find in its pipe is one reply to its last request.      *)
LEMMA InboxIs ==
  ASSUME IInv, NEW c \in Clients, inbox[c] # <<>>
  PROVE  inbox[c] = <<current[c]>> /\ cstate[c] # "idle"
<1> USE DEF IInv
<1>1. inbox[c] \in Seq(Request) /\ Len(inbox[c]) \in Nat \ {0}
  BY EmptySeq DEF TypeOK
<1>2. \A i \in 1..Len(inbox[c]) : At("inbox", c, i, inbox[c][i])
  BY DEF At, Holds
<1>3. \A i \in 1..Len(inbox[c]) :
        inbox[c][i] = current[c] /\ cstate[c] # "idle"
  BY <1>2 DEF OnlyCurrent, OwnPipes
<1>4. Len(inbox[c]) = 1
  <2>1. 1 \in 1..Len(inbox[c]) /\ Len(inbox[c]) \in 1..Len(inbox[c])
    BY <1>1
  <2>2. /\ At("inbox", c, 1, current[c])
        /\ At("inbox", c, Len(inbox[c]), current[c])
    BY <1>2, <1>3, <2>1
  <2> QED BY <2>2 DEF Unique
<1>5. inbox[c] = <<inbox[c][1]>> BY <1>1, <1>4
<1> QED BY <1>1, <1>3, <1>4, <1>5

(* No request of a client is lost or doubled between front, broker, worker  *)
(* and back, and nothing of it is left when the client has its reply.       *)
THEOREM RequestsInOnePlace == Spec => []InOnePlace
BY Inductive, PlacesInv, PTL

(* Only the reply to the request it waits for reaches a client.             *)
THEOREM RepliesOwn == Spec => []OwnReplyOnly
<1>1. IInv => OwnReplyOnly BY InboxIs DEF OwnReplyOnly
<1> QED BY <1>1, Inductive, PTL

-----------------------------------------------------------------------------
(* A reply reaches a client that waits, and that has none.                  *)
LEMMA RecvBackAnswers ==
  ASSUME IInv, NEW w \in Workers, RecvBack(w)
  PROVE  UNCHANGED S!serviceVars \/ \E c \in Clients : S!Answer(c)
<1> USE DEF IInv
<1> DEFINE r == Head(back[w])
           c == r.client
<1>1. r \in Request /\ c \in Clients /\ At("back", w, 1, r)
  BY RecvBackMoves
<1>2. /\ UNCHANGED <<cstate, asked, current>>
      /\ inbox' = IF cstate[c] = "gone" THEN inbox
                  ELSE [inbox EXCEPT ![c] = Append(inbox[c], r)]
  BY DEF RecvBack
<1> HIDE DEF r
<1>3. CASE cstate[c] = "gone"
  BY <1>2, <1>3 DEF S!serviceVars
<1>4. CASE cstate[c] # "gone"
  <2>1. r = current[c] /\ cstate[c] = "waiting"
    BY <1>1, <1>4 DEF OnlyCurrent, TypeOK
  <2>2. inbox[c] = <<>>
    <3> SUFFICES ASSUME inbox[c] # <<>> PROVE FALSE
      OBVIOUS
    <3>1. inbox[c] = <<r>> BY <1>1, <2>1, InboxIs
    <3>2. At("inbox", c, 1, r) BY <1>1, <3>1, OneHolds DEF At
    <3> QED BY <1>1, <3>2 DEF Unique
  <2>3. Append(inbox[c], r) = <<r>> BY <2>2
  <2>4. inbox' = [inbox EXCEPT ![c] = <<current[c]>>]
    BY <1>2, <1>4, <2>1, <2>3
  <2>5. S!Answer(c) BY <1>2, <2>1, <2>2, <2>4 DEF S!Answer
  <2> QED BY <1>1, <2>5
<1> QED BY <1>3, <1>4

LEMMA StepImplements ==
  ASSUME IInv, Next
  PROVE  S!ServiceNext \/ UNCHANGED S!serviceVars
<1>1. ASSUME NEW c \in Clients, Client(c) PROVE S!ServiceNext
  <2>1. ASSUME NEW kind \in Kinds, Send(c, kind) PROVE S!Ask(c)
    BY <2>1 DEF Send, S!Ask
  <2>2. CASE Recv(c)
    <3>1. inbox[c] = <<current[c]>> BY <2>2, InboxIs DEF Recv
    <3>2. Tail(inbox[c]) = <<>> BY <3>1
    <3> QED BY <2>2, <3>2 DEF Recv, S!ServiceNext, S!Read
  <2>3. CASE Leave(c) BY <2>3 DEF Leave, S!ServiceNext, S!GiveUp
  <2> QED BY <1>1, <2>1, <2>2, <2>3 DEF Client, S!ServiceNext
<1>2. CASE Broker
  <2>1. ASSUME NEW w \in Workers, RecvBack(w)
        PROVE  S!ServiceNext \/ UNCHANGED S!serviceVars
    BY <2>1, RecvBackAnswers DEF S!ServiceNext
  <2>2. CASE ~\E w \in Workers : RecvBack(w)
    BY <1>2, <2>2 DEF Broker, Poll, SkipFront, SkipBack, RecvFront, SendBack,
                      clientVars, S!serviceVars
  <2> QED BY <2>1, <2>2
<1>3. ASSUME NEW w \in Workers, Worker(w) PROVE UNCHANGED S!serviceVars
  BY <1>3 DEF Worker, Take, Judged, Failed, ParseThrows, ProcessExit,
              clientVars, S!serviceVars
<1> QED BY <1>1, <1>2, <1>3 DEF Next

(* Sockets, broker and workers implement Service: every step is an Ask,     *)
(* Answer, Read or GiveUp of one client, or none of the client's concern.   *)
THEOREM ImplementsService == Spec => ServiceSpec
<1>1. Init => S!ServiceInit
  BY DEF Init, NoRequest, S!ServiceInit
<1>2. IInv /\ [Next]_vars => [S!ServiceNext]_(S!serviceVars)
  <2> SUFFICES ASSUME IInv, [Next]_vars
               PROVE  S!ServiceNext \/ UNCHANGED S!serviceVars
    OBVIOUS
  <2>1. CASE Next BY <2>1, StepImplements
  <2>2. CASE UNCHANGED vars BY <2>2 DEF vars, S!serviceVars
  <2> QED BY <2>1, <2>2
<1> QED BY <1>1, <1>2, Inductive, PTL DEF Spec, ServiceSpec, S!ServiceSpec
=============================================================================
