-------------------------- MODULE ShmServiceProofs --------------------------
(***************************************************************************)
(* A request runs at most once, its response is returned at most once, and *)
(* on the fast path to the call that asked - for every number of calls,    *)
(* servers and clients and every size of the rings and of the queue; and   *)
(* an automatic service runs one path at a time.                           *)
(***************************************************************************)
EXTENDS Services, SequenceTheorems, TLAPS

Control == [state : {"Empty", "Clearing", "Ready", "Stopping"}, gen : 0..NServers,
            peers : Nat, slots : SUBSET Nat]
RingRec == [req : Seq(Calls), resp : Seq(Calls), reader : BOOLEAN,
            sender : Nat, receiver : Nat]
Server  == [pc : {"off", "clearing", "open", "ready", "register", "up", "stop", "clear"},
            fpKey : 0..2, msgId : 1..2, done : BOOLEAN]
Work    == [via : {"queue", "ring"}, n : Calls, run : BOOLEAN] \cup {NoWork}
Client  == [pc : {"off", "look", "swap", "add", "slot", "drop", "gone"}, inc : Nat,
            gen : 0..NServers, attached : 0..NServers, peer : BOOLEAN,
            completed : BOOLEAN, chan : 0..NServers, seen : Nat, streak : Nat,
            n : 0..NCalls]
Call    == [pc : {"push", "reply", "lock", "send", "recv"}, to : 0..NServers]
             \cup {NoCall}

\* Types, the sizes of rings and queue, and when generations and rings are there.
Types ==
    /\ ctl \in Control
    /\ ring \in [Gens -> RingRec]
    /\ \A g \in Gens : Len(ring[g].req) <= RingSlots /\ Len(ring[g].resp) <= RingSlots
    /\ name \in 0..NServers
    /\ srv \in Server
    /\ work \in Work
    /\ queue \in Seq(Calls) /\ Len(queue) <= QueueSlots
    /\ cli \in Client
    /\ call \in Call
    /\ reply \in [Calls -> 0..NCalls]
    /\ ran \in [Calls -> Nat]
    /\ answer \in [Calls -> 0..NCalls]
    /\ resets \in Nat
    /\ local \in BOOLEAN
    /\ srv.pc \notin {"off", "clearing"} => ctl.gen \in Gens
    /\ srv.pc = "clearing" => ctl.gen < NServers
    /\ work # NoWork => srv.pc \in {"up", "stop"}
    /\ call # NoCall => Alive /\ cli.n \in Calls
    /\ call.pc \in {"send", "recv"} => cli.chan \in Gens

\* The elements of a sequence, and that none comes twice.
In(q) == {q[i] : i \in 1..Len(q)}
NoDup(q) == \A i, j \in 1..Len(q) : q[i] = q[j] => i = j

\* The request of call n may have left the client.
Asked(n) == n < cli.n \/ (n = cli.n /\ call.pc \notin {"push", "lock", "send"})

\* The response thread has request n, before and after the callback.
Taken(n) == work # NoWork /\ ~work.run /\ work.n = n
Done(n)  == work # NoWork /\ work.run /\ work.n = n

\* Response n has been returned to no call.
Unreturned(n) == \A m \in Calls : answer[m] # n

\* A request is in one place only, and has not run.
RequestOK ==
    /\ NoDup(queue)
    /\ \A n \in In(queue) : Asked(n) /\ ran[n] = 0 /\ ~Taken(n)
    /\ \A n \in Calls : Taken(n) => Asked(n) /\ ran[n] = 0
    /\ \A g \in Gens :
        /\ NoDup(ring[g].req)
        /\ \A n \in In(ring[g].req) :
              /\ Asked(n) /\ ran[n] = 0 /\ ~Taken(n) /\ n \notin In(queue)
              /\ \A h \in Gens : n \in In(ring[h].req) => h = g

\* What did not leave the client has not run.
RanOK == \A n \in Calls : ran[n] <= 1 /\ (~Asked(n) => ran[n] = 0)

\* A response is in one place only; on a ring, or still with the response thread,
\* it has been returned to nobody.
ResponseOK ==
    /\ \A n \in Calls : Done(n) => ran[n] = 1 /\ reply[n] = 0 /\ Unreturned(n)
    /\ \A g \in Gens :
        /\ NoDup(ring[g].resp)
        /\ \A n \in In(ring[g].resp) :
              /\ ran[n] = 1 /\ reply[n] = 0 /\ Unreturned(n) /\ ~Done(n)
              /\ \A h \in Gens : n \in In(ring[h].resp) => h = g

\* The reply queue of a call holds its own response, which no other call gets.
ReplyOK ==
    \A n \in Calls :
        /\ reply[n] \in {0, n}
        /\ reply[n] = n => ran[n] = 1 /\ \A m \in Calls : answer[m] = n => m = n

\* What has been returned had run, was asked before, and is returned once.
AnswerOK ==
    \A m \in Calls :
        /\ answer[m] # 0 => ran[answer[m]] = 1 /\ answer[m] <= m /\ m <= cli.n
        /\ \A n \in Calls : answer[m] # 0 /\ answer[m] = answer[n] => m = n
        /\ call # NoCall /\ m = cli.n => answer[m] = 0

Sound == RequestOK /\ RanOK /\ ResponseOK /\ ReplyOK /\ AnswerOK
Inv == Types /\ Sound

-----------------------------------------------------------------------------
(* Sequences *)

LEMMA EmptyElements == In(<<>>) = {} /\ NoDup(<<>>)
BY DEF In, NoDup

\* What a sequence has after one more element.
LEMMA AppendElements ==
    ASSUME NEW S, NEW q \in Seq(S), NEW x \in S
    PROVE  /\ Append(q, x) \in Seq(S)
           /\ Len(Append(q, x)) = Len(q) + 1
           /\ \A n : n \in In(Append(q, x)) <=> n \in In(q) \/ n = x
           /\ NoDup(q) /\ x \notin In(q) => NoDup(Append(q, x))
<1> DEFINE a == Append(q, x)
<1>1. /\ a \in Seq(S) /\ Len(q) \in Nat /\ Len(a) = Len(q) + 1
      /\ \A i \in 1..Len(q) : a[i] = q[i]
      /\ a[Len(q) + 1] = x
  BY AppendProperties, LenProperties
<1> HIDE DEF a
<1>2. ASSUME NEW n PROVE n \in In(a) <=> n \in In(q) \/ n = x
  <2>1. ASSUME n \in In(a) PROVE n \in In(q) \/ n = x
    <3>1. PICK i \in 1..Len(a) : a[i] = n
      BY <2>1 DEF In
    <3>2. i \in 1..Len(q) \/ i = Len(q) + 1
      BY <1>1, <3>1
    <3> QED
      BY <1>1, <3>1, <3>2 DEF In
  <2>2. ASSUME n \in In(q) PROVE n \in In(a)
    <3>1. PICK i \in 1..Len(q) : q[i] = n
      BY <2>2 DEF In
    <3>2. i \in 1..Len(a) /\ a[i] = n
      BY <1>1, <3>1
    <3> QED
      BY <3>2 DEF In
  <2>3. x \in In(a)
    <3>1. Len(q) + 1 \in 1..Len(a) /\ a[Len(q) + 1] = x
      BY <1>1
    <3> QED
      BY <3>1 DEF In
  <2> QED
    BY <2>1, <2>2, <2>3
<1>3. ASSUME NoDup(q), x \notin In(q), NEW i \in 1..Len(a), NEW j \in 1..Len(a),
             a[i] = a[j]
      PROVE  i = j
  <2>1. \A k \in 1..Len(q) : q[k] # x
    BY <1>3 DEF In
  <2>2. /\ i \in 1..Len(q) \/ i = Len(q) + 1
        /\ j \in 1..Len(q) \/ j = Len(q) + 1
    BY <1>1
  <2>3. CASE i \in 1..Len(q) /\ j \in 1..Len(q)
    BY <1>1, <1>3, <2>3 DEF NoDup
  <2>4. CASE i = Len(q) + 1 \/ j = Len(q) + 1
    BY <1>1, <1>3, <2>1, <2>2, <2>4
  <2> QED
    BY <2>2, <2>3, <2>4
<1>4. NoDup(q) /\ x \notin In(q) => NoDup(a)
  BY <1>3 DEF NoDup
<1> QED
  BY <1>1, <1>2, <1>4 DEF a

\* What a sequence has after its head is taken.
LEMMA TailElements ==
    ASSUME NEW S, NEW q \in Seq(S), q # <<>>, NoDup(q)
    PROVE  /\ Tail(q) \in Seq(S) /\ Len(Tail(q)) < Len(q)
           /\ Head(q) \in S /\ Head(q) \in In(q)
           /\ \A n \in In(Tail(q)) : n \in In(q) /\ n # Head(q)
           /\ NoDup(Tail(q))
<1> DEFINE t == Tail(q)
<1>1. Len(q) \in Nat \ {0}
  BY EmptySeq
<1>2. t \in Seq(S) /\ Len(t) = Len(q) - 1 /\ Head(q) \in S
  BY HeadTailProperties
<1>3. Head(q) = q[1]
  OBVIOUS
<1>4. \A i \in 1..Len(t) : i + 1 \in 1..Len(q) /\ t[i] = q[i + 1]
  BY <1>1, <1>2
<1> HIDE DEF t
<1>5. Head(q) \in In(q)
  BY <1>1, <1>3 DEF In
<1>6. ASSUME NEW n \in In(t) PROVE n \in In(q) /\ n # Head(q)
  <2>1. PICK i \in 1..Len(t) : t[i] = n
    BY DEF In
  <2>2. i + 1 \in 1..Len(q) /\ q[i + 1] = n /\ i + 1 # 1 /\ 1 \in 1..Len(q)
    BY <1>1, <1>4, <2>1
  <2> QED
    BY <1>3, <2>2 DEF In, NoDup
<1>7. ASSUME NEW i \in 1..Len(t), NEW j \in 1..Len(t), t[i] = t[j] PROVE i = j
  <2>1. i + 1 = j + 1
    BY <1>4, <1>7 DEF NoDup
  <2> QED
    BY <1>2, <2>1
<1>8. NoDup(t)
  BY <1>7 DEF NoDup
<1> QED
  BY <1>1, <1>2, <1>5, <1>6, <1>8 DEF t

\* The elements of a sequence are of its type.
LEMMA ElementsOf == ASSUME NEW S, NEW q \in Seq(S) PROVE In(q) \subseteq S
BY ElementOfSeq DEF In

-----------------------------------------------------------------------------
(* Steps on one ring *)

\* A function one value of which changes.
LEMMA ExceptRing ==
    ASSUME NEW f \in [Gens -> RingRec], NEW g \in Gens, NEW r \in RingRec
    PROVE  /\ [f EXCEPT ![g] = r] \in [Gens -> RingRec]
           /\ [f EXCEPT ![g] = r][g] = r
           /\ \A h \in Gens : h # g => [f EXCEPT ![g] = r][h] = f[h]
OBVIOUS

\* The rings of a new generation are empty.
LEMMA OpenEffect ==
    ASSUME Types, SrvOpen, NEW g, g = ctl.gen
    PROVE  /\ g \in Gens /\ ring' \in [Gens -> RingRec]
           /\ ring'[g].req = <<>> /\ ring'[g].resp = <<>>
           /\ \A h \in Gens : h # g => ring'[h] = ring[h]
<1>1. g \in Gens /\ ring \in [Gens -> RingRec]
  BY DEF Types, SrvOpen
<1> DEFINE v == [Fresh EXCEPT !.reader = TRUE]
<1>2. v \in RingRec /\ v.req = <<>> /\ v.resp = <<>>
  <2>1. <<>> \in Seq(Calls)
    BY EmptySeq
  <2>2. Fresh \in RingRec /\ Fresh.req = <<>> /\ Fresh.resp = <<>>
    BY <2>1 DEF Fresh, RingRec
  <2> QED
    BY <2>2 DEF RingRec
<1>3. ring' = [ring EXCEPT ![g] = v]
  BY DEF SrvOpen
<1> HIDE DEF v
<1> QED
  BY <1>1, <1>2, <1>3, ExceptRing

\* The request at the head of the ring is taken off.
LEMMA RecvEffect ==
    ASSUME Types, RecvRequest, NEW g, g = ctl.gen
    PROVE  /\ g \in Gens /\ ring' \in [Gens -> RingRec]
           /\ ring[g].req # <<>>
           /\ ring'[g].req = Tail(ring[g].req) /\ ring'[g].resp = ring[g].resp
           /\ \A h \in Gens : h # g => ring'[h] = ring[h]
<1>1. g \in Gens /\ ring \in [Gens -> RingRec] /\ ring[g].req # <<>>
  BY DEF Types, RecvRequest
<1> DEFINE v == [ring[g] EXCEPT !.req = Tail(ring[g].req)]
<1>2. ring[g] \in RingRec
  BY <1>1
<1>3. Tail(ring[g].req) \in Seq(Calls)
  BY <1>1, <1>2, HeadTailProperties DEF RingRec
<1>4. v \in RingRec /\ v.req = Tail(ring[g].req) /\ v.resp = ring[g].resp
  BY <1>2, <1>3 DEF RingRec
<1>5. ring' = [ring EXCEPT ![g] = v]
  BY DEF RecvRequest
<1> HIDE DEF v
<1> QED
  BY <1>1, <1>4, <1>5, ExceptRing

\* A response goes on the ring, or nowhere.
LEMMA RespondEffect ==
    ASSUME Types, Respond, work.via = "ring", NEW g, g = ctl.gen
    PROVE  /\ g \in Gens /\ ring' \in [Gens -> RingRec] /\ reply' = reply
           /\ work.n \in Calls
           /\ ring'[g].req = ring[g].req
           /\ \/ ring'[g].resp = ring[g].resp
              \/ /\ Len(ring[g].resp) < RingSlots
                 /\ ring'[g].resp = Append(ring[g].resp, work.n)
           /\ \A h \in Gens : h # g => ring'[h] = ring[h]
<1>1. g \in Gens /\ ring \in [Gens -> RingRec] /\ ring[g] \in RingRec
  BY DEF Types, Respond
<1>2. work.n \in Calls
  BY DEF Types, Respond, Work
<1> DEFINE v == [ring[g] EXCEPT !.resp = Append(ring[g].resp, work.n)]
<1>3. Append(ring[g].resp, work.n) \in Seq(Calls)
  BY <1>1, <1>2, AppendProperties DEF RingRec
<1>4. /\ v \in RingRec /\ v.req = ring[g].req
      /\ v.resp = Append(ring[g].resp, work.n)
  BY <1>1, <1>3 DEF RingRec
<1>5. /\ reply' = reply
      /\ ring' = ring \/ (Len(ring[g].resp) < RingSlots /\ ring' = [ring EXCEPT ![g] = v])
  BY DEF Respond, CanRespond
<1> HIDE DEF v
<1>6. CASE ring' = ring
  BY <1>1, <1>2, <1>5, <1>6
<1>7. CASE Len(ring[g].resp) < RingSlots /\ ring' = [ring EXCEPT ![g] = v]
  BY <1>1, <1>2, <1>4, <1>5, <1>7, ExceptRing
<1> QED
  BY <1>5, <1>6, <1>7

\* A request goes on the ring the client is connected to, or it is given up.
LEMMA SendEffect ==
    ASSUME Types, CallSend, NEW g, g = cli.chan
    PROVE  /\ g \in Gens /\ ring' \in [Gens -> RingRec] /\ cli.n \in Calls
           /\ ring'[g].resp = ring[g].resp
           /\ \/ call' = NoCall /\ ring'[g].req = ring[g].req
              \/ /\ call' = [call EXCEPT !.pc = "recv"]
                 /\ Len(ring[g].req) < RingSlots
                 /\ ring'[g].req = Append(ring[g].req, cli.n)
           /\ \A h \in Gens : h # g => ring'[h] = ring[h]
<1>1. g \in Gens /\ ring \in [Gens -> RingRec] /\ ring[g] \in RingRec
  BY DEF Types, CallSend
<1>2. cli.n \in Calls /\ cli.inc \in Nat
  BY DEF Types, CallSend, NoCall, Client
<1> DEFINE v == Sent(ring[g], cli.n, cli.inc)
           w == [ring[g] EXCEPT !.sender = IF ring[g].sender = 0 THEN cli.inc
                                                                  ELSE ring[g].sender]
<1>3. Append(ring[g].req, cli.n) \in Seq(Calls)
  BY <1>1, <1>2, AppendProperties DEF RingRec
<1>4. /\ v \in RingRec /\ v.resp = ring[g].resp
      /\ v.req = Append(ring[g].req, cli.n)
  BY <1>1, <1>2, <1>3 DEF RingRec, Sent
<1>5. w \in RingRec /\ w.resp = ring[g].resp /\ w.req = ring[g].req
  BY <1>1, <1>2 DEF RingRec
<1>6. \/ call' = NoCall /\ ring' = [ring EXCEPT ![g] = w]
      \/ /\ call' = [call EXCEPT !.pc = "recv"]
         /\ Len(ring[g].req) < RingSlots
         /\ ring' = [ring EXCEPT ![g] = v]
  BY DEF CallSend, CanSend
<1> HIDE DEF v, w
<1>7. CASE call' = NoCall /\ ring' = [ring EXCEPT ![g] = w]
  BY <1>1, <1>2, <1>5, <1>7, ExceptRing
<1>8. CASE /\ call' = [call EXCEPT !.pc = "recv"]
           /\ Len(ring[g].req) < RingSlots
           /\ ring' = [ring EXCEPT ![g] = v]
  BY <1>1, <1>2, <1>4, <1>8, ExceptRing
<1> QED
  BY <1>6, <1>7, <1>8

\* The response at the head of the ring becomes the answer.
LEMMA AnswerEffect ==
    ASSUME Types, CallRecv, NEW g, g = cli.chan
    PROVE  /\ g \in Gens /\ ring' \in [Gens -> RingRec] /\ cli.n \in Calls
           /\ ring[g].resp # <<>>
           /\ ring'[g].req = ring[g].req /\ ring'[g].resp = Tail(ring[g].resp)
           /\ \A h \in Gens : h # g => ring'[h] = ring[h]
           /\ answer' = [answer EXCEPT ![cli.n] = Head(ring[g].resp)]
<1>1. g \in Gens /\ ring \in [Gens -> RingRec] /\ ring[g].resp # <<>>
  BY DEF Types, CallRecv
<1>2. cli.n \in Calls
  BY DEF Types, CallRecv, NoCall
<1> DEFINE v == [ring[g] EXCEPT !.resp = Tail(ring[g].resp)]
<1>3. ring[g] \in RingRec
  BY <1>1
<1>4. Tail(ring[g].resp) \in Seq(Calls)
  BY <1>1, <1>3, HeadTailProperties DEF RingRec
<1>5. v \in RingRec /\ v.resp = Tail(ring[g].resp) /\ v.req = ring[g].req
  BY <1>3, <1>4 DEF RingRec
<1>6. ring' = [ring EXCEPT ![g] = v] /\ answer' = [answer EXCEPT ![cli.n] = Head(ring[g].resp)]
  BY DEF CallRecv, Returned
<1> HIDE DEF v
<1> QED
  BY <1>1, <1>2, <1>5, <1>6, ExceptRing

\* Who is connected to the rings changes, what is on them does not.
SameContents ==
    /\ ring' \in [Gens -> RingRec]
    /\ \A g \in Gens : ring'[g].req = ring[g].req /\ ring'[g].resp = ring[g].resp

LEMMA ConnectionEffect ==
    ASSUME Types, Reap \/ SrvClear \/ CliSwap
    PROVE  SameContents
<1>1. ring \in [Gens -> RingRec] /\ cli.inc \in Nat
  BY DEF Types, Client
<1>2. CASE Reap
  <2>1. ctl.gen \in Gens
    BY <1>2 DEF Reap, Running, Types
  <2> DEFINE v == [ring[ctl.gen] EXCEPT !.receiver = 0]
  <2>2. v \in RingRec /\ v.req = ring[ctl.gen].req /\ v.resp = ring[ctl.gen].resp
    BY <1>1, <2>1 DEF RingRec
  <2>3. ring' = [ring EXCEPT ![ctl.gen] = v]
    BY <1>2 DEF Reap
  <2> HIDE DEF v
  <2>4. ring' \in [Gens -> RingRec] /\ ring'[ctl.gen] = v
        /\ \A h \in Gens : h # ctl.gen => ring'[h] = ring[h]
    BY <1>1, <2>1, <2>2, <2>3, ExceptRing
  <2> QED
    BY <2>2, <2>4 DEF SameContents
<1>3. CASE SrvClear
  <2>1. ctl.gen \in Gens
    BY <1>3 DEF SrvClear, Types
  <2> DEFINE v == [ring[ctl.gen] EXCEPT !.reader = FALSE]
  <2>2. v \in RingRec /\ v.req = ring[ctl.gen].req /\ v.resp = ring[ctl.gen].resp
    BY <1>1, <2>1 DEF RingRec
  <2>3. ring' = [ring EXCEPT ![ctl.gen] = v]
    BY <1>3 DEF SrvClear
  <2> HIDE DEF v
  <2>4. ring' \in [Gens -> RingRec] /\ ring'[ctl.gen] = v
        /\ \A h \in Gens : h # ctl.gen => ring'[h] = ring[h]
    BY <1>1, <2>1, <2>2, <2>3, ExceptRing
  <2> QED
    BY <2>2, <2>4 DEF SameContents
<1>4. CASE CliSwap
  <2> DEFINE v(g) == [ring[g] EXCEPT !.receiver = IF ring[g].receiver = 0 THEN cli.inc
                                                                      ELSE ring[g].receiver,
                                    !.sender = IF ring[g].sender = 0 THEN cli.inc
                                                                      ELSE ring[g].sender]
  <2>1. ASSUME NEW g \in Gens
        PROVE v(g) \in RingRec /\ v(g).req = ring[g].req /\ v(g).resp = ring[g].resp
    <3>1. /\ ring[g] \in RingRec
          /\ (IF ring[g].receiver = 0 THEN cli.inc ELSE ring[g].receiver) \in Nat
          /\ (IF ring[g].sender = 0 THEN cli.inc ELSE ring[g].sender) \in Nat
      BY <1>1 DEF RingRec
    <3> QED
      BY <3>1 DEF RingRec
  <2>2. ring' = [g \in Gens |-> IF g # name THEN ring[g] ELSE v(g)]
    BY <1>4 DEF CliSwap
  <2> HIDE DEF v
  <2> QED
    BY <1>1, <2>1, <2>2 DEF SameContents
<1> QED
  BY <1>2, <1>3, <1>4

-----------------------------------------------------------------------------
(* Types *)

LEMMA InitTypes == Init => Types
<1> SUFFICES ASSUME Init PROVE Types
  OBVIOUS
<1>1. <<>> \in Seq(Calls) /\ Len(<<>>) = 0
  BY EmptySeq
<1>2. ring \in [Gens -> RingRec] /\ \A g \in Gens : ring[g].req = <<>> /\ ring[g].resp = <<>>
  <2>1. Fresh \in RingRec /\ Fresh.req = <<>> /\ Fresh.resp = <<>>
    BY <1>1 DEF Fresh, RingRec
  <2> QED
    BY <2>1 DEF Init
<1>3. ctl \in Control /\ srv \in Server /\ srv.pc = "off" /\ name \in 0..NServers
  BY ServiceAssumption DEF Init, Control, Server, Off
<1>4. work = NoWork /\ call = NoCall /\ call.pc = "idle"
  BY DEF Init, NoCall
<1>5. cli \in Client
  BY ServiceAssumption DEF Init, Client
<1>6. /\ reply \in [Calls -> 0..NCalls] /\ answer \in [Calls -> 0..NCalls]
      /\ ran \in [Calls -> Nat] /\ resets \in Nat /\ local \in BOOLEAN
  BY ServiceAssumption DEF Init
<1>7. /\ queue \in Seq(Calls) /\ Len(queue) <= QueueSlots
      /\ \A g \in Gens : Len(ring[g].req) <= RingSlots /\ Len(ring[g].resp) <= RingSlots
  BY <1>1, <1>2, ServiceAssumption DEF Init
<1> QED
  BY <1>2, <1>3, <1>4, <1>5, <1>6, <1>7 DEF Types, Work, Call

\* Rings the contents of which stay as they are.
LEMMA SameLengths ==
    ASSUME Types, SameContents
    PROVE  \A g \in Gens : Len(ring'[g].req) <= RingSlots /\ Len(ring'[g].resp) <= RingSlots
BY DEF Types, SameContents

\* The server's life.
LEMMA ServerTypes ==
    ASSUME Types, \/ SrvStart \/ ResetMessage \/ SrvStop \/ SrvCrash
                  \/ SrvDrained \/ SrvReady \/ SrvRegister \/ SrvSeePeers \/ SrvJoin
    PROVE  Types'
<1> USE DEF Types
<1>0. /\ Off \in Server /\ Off.pc = "off" /\ <<>> \in Seq(Calls) /\ Len(<<>>) = 0
      /\ NoWork \in Work
  BY EmptySeq DEF Off, Server, Work
<1>1. CASE SrvStart
  <2>1. [Off EXCEPT !.pc = "clearing"] \in Server /\ [Off EXCEPT !.pc = "clearing"].pc = "clearing"
    BY <1>0 DEF Server
  <2>2. ctl' \in Control /\ ctl'.gen = ctl.gen
    BY <1>1 DEF SrvStart, Control
  <2>3. work = NoWork
    BY <1>1 DEF SrvStart
  <2> QED
    BY <1>0, <1>1, <2>1, <2>2, <2>3, ServiceAssumption DEF SrvStart, history, Alive
<1>2. CASE ResetMessage
  <2>1. srv' \in Server /\ srv'.pc = srv.pc
    <3>1. srv \in Server /\ 3 - srv.msgId \in 1..2 /\ 3 - srv.msgId \in 0..2
      BY DEF Server
    <3> QED
      BY <1>2, <3>1 DEF ResetMessage, Server
  <2> QED
    BY <1>2, <2>1 DEF ResetMessage, history, Alive
<1>3. CASE SrvStop
  <2>1. srv' \in Server /\ srv'.pc = "stop"
    <3>1. srv \in Server /\ 0 \in 0..2
      OBVIOUS
    <3> QED
      BY <1>3, <3>1 DEF SrvStop, Server
  <2> QED
    BY <1>3, <2>1 DEF SrvStop, history, Alive
<1>4. CASE SrvCrash
  BY <1>0, <1>4 DEF SrvCrash, history, Alive
<1>5. CASE SrvDrained
  <2>1. srv' \in Server /\ srv'.pc = "open"
    BY <1>5 DEF SrvDrained, Server
  <2>2. ctl.gen < NServers /\ ctl.gen \in Nat
    BY <1>5 DEF SrvDrained, Control
  <2>3. ctl' \in Control /\ ctl'.gen \in Gens
    <3>1. ctl.gen + 1 \in Gens /\ ctl.gen + 1 \in 0..NServers
      BY <2>2, ServiceAssumption DEF Gens
    <3>2. ctl' = [ctl EXCEPT !.peers = 0, !.slots = {}, !.gen = ctl.gen + 1]
      BY <1>5 DEF SrvDrained
    <3> QED
      BY <3>1, <3>2 DEF Control
  <2>4. work = NoWork
    BY <1>5 DEF SrvDrained
  <2> QED
    BY <1>5, <2>1, <2>3, <2>4 DEF SrvDrained, history, Alive
<1>6. CASE SrvReady
  <2>1. srv' \in Server /\ srv'.pc = "register"
    BY <1>6 DEF SrvReady, Server
  <2>2. ctl' \in Control /\ ctl'.gen = ctl.gen
    BY <1>6 DEF SrvReady, Control
  <2>3. work = NoWork
    BY <1>6 DEF SrvReady
  <2> QED
    BY <1>6, <2>1, <2>2, <2>3 DEF SrvReady, history, Alive
<1>7. CASE SrvRegister
  <2>1. srv' \in Server /\ srv'.pc = "up"
    <3>1. srv \in Server /\ srv.msgId \in 0..2
      BY DEF Server
    <3> QED
      BY <1>7, <3>1 DEF SrvRegister, Server
  <2> QED
    BY <1>7, <2>1 DEF SrvRegister, history, Alive
<1>8. CASE SrvSeePeers
  <2>1. srv' \in Server /\ srv'.pc = srv.pc
    <3>1. srv \in Server /\ (ctl.peers > 0) \in BOOLEAN
      OBVIOUS
    <3> QED
      BY <1>8, <3>1 DEF SrvSeePeers, Server
  <2> QED
    BY <1>8, <2>1 DEF SrvSeePeers, history, Alive
<1>9. CASE SrvJoin
  <2>1. srv' \in Server /\ srv'.pc = "clear"
    BY <1>9 DEF SrvJoin, Server
  <2>2. ctl' \in Control /\ ctl'.gen = ctl.gen
    BY <1>9 DEF SrvJoin, Control
  <2> QED
    BY <1>9, <2>1, <2>2 DEF SrvJoin, history, Alive
<1> QED
  BY <1>1, <1>2, <1>3, <1>4, <1>5, <1>6, <1>7, <1>8, <1>9

\* Its steps on the rings' connections, and the response thread's.
LEMMA ResponderTypes ==
    ASSUME Types, SrvOpen \/ SrvClear \/ Reap \/ RespStep
    PROVE  Types'
<1> USE DEF Types
<1>1. CASE SrvOpen
  <2>1. srv' \in Server /\ srv'.pc = "ready"
    BY <1>1 DEF SrvOpen, Server
  <2>2. name' \in 0..NServers
    BY <1>1 DEF SrvOpen, Control
  <2>3. \A g \in Gens : Len(ring'[g].req) <= RingSlots /\ Len(ring'[g].resp) <= RingSlots
    <3>1. Len(<<>>) <= RingSlots
      BY ServiceAssumption, EmptySeq
    <3> QED
      BY <1>1, <3>1, OpenEffect
  <2> QED
    BY <1>1, <2>1, <2>2, <2>3, OpenEffect DEF SrvOpen, history, Alive
<1>2. CASE SrvClear
  <2>1. SameContents
    BY <1>2, ConnectionEffect
  <2>2. Off \in Server /\ Off.pc = "off" /\ name' \in 0..NServers /\ work = NoWork
    BY <1>2, ServiceAssumption DEF SrvClear, Off, Server
  <2> QED
    BY <1>2, <2>1, <2>2, SameLengths DEF SrvClear, SameContents, history, Alive
<1>3. CASE Reap
  <2>1. SameContents
    BY <1>3, ConnectionEffect
  <2>2. ctl' \in Control /\ ctl'.gen = ctl.gen
    BY <1>3 DEF Reap, Control
  <2> QED
    BY <1>3, <2>1, <2>2, SameLengths DEF Reap, SameContents, history, Alive
<1>4. CASE PopQueue
  <2>1. /\ Tail(queue) \in Seq(Calls) /\ Len(Tail(queue)) = Len(queue) - 1
        /\ Head(queue) \in Calls /\ Len(queue) \in Nat
    BY <1>4, HeadTailProperties, LenProperties DEF PopQueue
  <2>2. work' \in Work
    BY <1>4, <2>1 DEF PopQueue, Work
  <2>3. Len(Tail(queue)) <= QueueSlots
    BY <2>1, ServiceAssumption
  <2> QED
    BY <1>4, <2>1, <2>2, <2>3 DEF PopQueue, history, Alive
<1>5. CASE RecvRequest
  <2> DEFINE g == ctl.gen
  <2>1. /\ g \in Gens /\ ring' \in [Gens -> RingRec] /\ ring[g].req # <<>>
        /\ ring'[g].req = Tail(ring[g].req) /\ ring'[g].resp = ring[g].resp
        /\ \A h \in Gens : h # g => ring'[h] = ring[h]
    BY <1>5, RecvEffect
  <2>2. ring[g].req \in Seq(Calls)
    BY <2>1 DEF RingRec
  <2>3. /\ Head(ring[g].req) \in Calls /\ Len(ring[g].req) \in Nat
        /\ Len(Tail(ring[g].req)) = Len(ring[g].req) - 1
    BY <2>1, <2>2, HeadTailProperties, LenProperties
  <2>4. work' \in Work
    BY <1>5, <2>3 DEF RecvRequest, Work
  <2> HIDE DEF g
  <2>5. \A h \in Gens : Len(ring'[h].req) <= RingSlots /\ Len(ring'[h].resp) <= RingSlots
    <3>1. Len(ring'[g].req) <= RingSlots /\ Len(ring'[g].resp) <= RingSlots
      BY <2>1, <2>3, ServiceAssumption
    <3> QED
      BY <2>1, <3>1
  <2> QED
    BY <1>5, <2>1, <2>4, <2>5 DEF RecvRequest, history, Alive
<1>6. CASE Callback
  <2>1. work.n \in Calls /\ ran' \in [Calls -> Nat]
    BY <1>6 DEF Callback, Work
  <2>2. work' \in Work
    BY <1>6 DEF Callback, Work
  <2> QED
    BY <1>6, <2>1, <2>2 DEF Callback, Alive
<1>7. CASE Respond /\ work.via = "ring"
  <2> DEFINE g == ctl.gen
  <2>1. /\ g \in Gens /\ ring' \in [Gens -> RingRec] /\ reply' = reply
        /\ work.n \in Calls
        /\ ring'[g].req = ring[g].req
        /\ \/ ring'[g].resp = ring[g].resp
           \/ /\ Len(ring[g].resp) < RingSlots
              /\ ring'[g].resp = Append(ring[g].resp, work.n)
        /\ \A h \in Gens : h # g => ring'[h] = ring[h]
    BY <1>7, RespondEffect
  <2> HIDE DEF g
  <2>2. /\ ring[g].resp \in Seq(Calls) /\ Len(ring[g].resp) \in Nat
        /\ Len(Append(ring[g].resp, work.n)) = Len(ring[g].resp) + 1
    BY <2>1, AppendProperties, LenProperties DEF RingRec
  <2>3. \A h \in Gens : Len(ring'[h].req) <= RingSlots /\ Len(ring'[h].resp) <= RingSlots
    <3>1. Len(ring'[g].req) <= RingSlots /\ Len(ring'[g].resp) <= RingSlots
      BY <2>1, <2>2, ServiceAssumption
    <3> QED
      BY <2>1, <3>1
  <2> QED
    BY <1>7, <2>1, <2>3 DEF Respond, Work, history, Alive
<1>8. CASE Respond /\ work.via # "ring"
  <2>1. work.n \in Calls
    BY <1>8 DEF Respond, Work
  <2>2. reply' \in [Calls -> 0..NCalls] /\ ring' = ring
    <3>1. work.n \in 0..NCalls
      BY <2>1, ServiceAssumption DEF Calls
    <3>2. work.via = "queue"
      BY <1>8 DEF Respond
    <3>3. reply' = [reply EXCEPT ![work.n] = work.n] /\ ring' = ring
      BY <3>2, <1>8 DEF Respond
    <3> QED
      BY <3>1, <3>3
  <2> QED
    BY <1>8, <2>2 DEF Respond, Work, history, Alive
<1> QED
  BY <1>1, <1>2, <1>3, <1>4, <1>5, <1>6, <1>7, <1>8 DEF RespStep

\* Taking a client out of the control plane.
LEMMA UnregisteredType ==
    ASSUME Types PROVE Unregistered \in Control /\ Unregistered.gen = ctl.gen
<1>1. ctl \in Control
  BY DEF Types
<1> DEFINE p == IF cli.attached = ctl.gen /\ ctl.peers > 0 THEN ctl.peers - 1 ELSE ctl.peers
           s == ctl.slots \ {cli.inc}
<1>2. p \in Nat /\ s \in SUBSET Nat
  BY <1>1 DEF Control
<1>3. Unregistered = IF ~cli.peer THEN ctl ELSE [ctl EXCEPT !.peers = p, !.slots = s]
  BY DEF Unregistered
<1> HIDE DEF p, s
<1> QED
  BY <1>1, <1>2, <1>3 DEF Control

\* The client's handshake.
LEMMA ClientTypes ==
    ASSUME Types, CliStart \/ CliStop \/ CliCrash \/ CliStep
    PROVE  Types'
<1> USE DEF Types
<1>1. cli \in Client /\ NoCall.pc = "idle" /\ Unregistered \in Control /\ Unregistered.gen = ctl.gen
  BY UnregisteredType DEF NoCall
<1>2. Gone \in Client /\ Gone.pc = "gone" /\ Gone.n = cli.n
  <2>1. 0 \in 0..NServers /\ 0 \in Nat /\ FALSE \in BOOLEAN
    BY ServiceAssumption
  <2> QED
    BY <1>1, <2>1 DEF Gone, Client
<1>3. CASE CliStart
  <2>1. call = NoCall
    BY <1>3 DEF CliStart
  <2>2. cli' \in Client
    <3>1. cli.inc + 1 \in Nat /\ 0 \in 0..NServers /\ 0 \in Nat /\ cli.n \in 0..NCalls
      BY <1>1, ServiceAssumption DEF Client
    <3>2. FALSE \in BOOLEAN
      OBVIOUS
    <3> QED
      BY <1>3, <3>1, <3>2 DEF CliStart, Client
  <2> QED
    BY <1>1, <1>3, <2>1, <2>2 DEF CliStart, history
<1>4. CASE CliStop
  BY <1>1, <1>2, <1>4 DEF CliStop, history
<1>5. CASE CliCrash
  BY <1>1, <1>2, <1>5 DEF CliCrash, history, Call
<1>6. CASE CliLook
  <2>1. ctl' \in Control /\ ctl'.gen = ctl.gen
    BY <1>1, <1>6 DEF CliLook
  <2>2. cli' \in Client /\ cli'.n = cli.n /\ cli'.chan = cli.chan /\ cli'.pc \in {"swap", "drop"}
    <3>1. ctl.gen \in 0..NServers
      BY DEF Control
    <3>2. CASE cli' = [cli EXCEPT !.pc = "swap", !.gen = ctl.gen, !.peer = FALSE]
      BY <1>1, <3>1, <3>2 DEF Client
    <3>3. CASE cli' = [cli EXCEPT !.pc = "drop", !.completed = FALSE, !.peer = FALSE]
      BY <1>1, <3>3 DEF Client
    <3> QED
      BY <1>6, <3>2, <3>3 DEF CliLook
  <2> QED
    BY <1>6, <2>1, <2>2 DEF CliLook, history, Alive
<1>7. CASE CliSwap
  <2>1. SameContents
    BY <1>7, ConnectionEffect
  <2>2. cli' \in Client /\ cli'.n = cli.n /\ cli'.pc = "add"
    <3>1. name \in 0..NServers /\ cli.gen \in 0..NServers
      BY <1>1 DEF Client
    <3> QED
      BY <1>1, <1>7, <3>1 DEF CliSwap, Client
  <2> QED
    BY <1>7, <2>1, <2>2, SameLengths DEF CliSwap, SameContents, history, Alive, Locked
<1>8. CASE CliAdd
  <2>1. CASE /\ ctl' = [ctl EXCEPT !.peers = @ + 1]
             /\ cli' = [cli EXCEPT !.pc = "slot", !.peer = TRUE]
    <3>1. ctl' \in Control /\ ctl'.gen = ctl.gen
      <4>1. ctl \in Control /\ ctl.peers + 1 \in Nat
        BY DEF Control
      <4> QED
        BY <2>1, <4>1 DEF Control
    <3>2. cli' \in Client /\ cli'.n = cli.n /\ cli'.chan = cli.chan /\ cli'.pc = "slot"
      BY <1>1, <2>1 DEF Client
    <3> QED
      BY <1>8, <3>1, <3>2 DEF CliAdd, history, Alive
  <2>2. CASE ~Locked /\ cli' = [cli EXCEPT !.pc = "look", !.chan = 0] /\ UNCHANGED ctl
    <3>1. cli' \in Client /\ cli'.n = cli.n /\ cli'.pc = "look"
      <4>1. 0 \in 0..NServers
        BY ServiceAssumption
      <4> QED
        BY <1>1, <2>2, <4>1 DEF Client
    <3> QED
      BY <1>8, <2>2, <3>1 DEF CliAdd, history, Alive, Locked
  <2> QED
    BY <1>8, <2>1, <2>2 DEF CliAdd
<1>9. CASE CliSlot
  <2>1. ctl' \in Control /\ ctl'.gen = ctl.gen
    <3>1. (IF Connected THEN ctl.slots \cup {cli.inc} ELSE ctl.slots) \in SUBSET Nat
      BY <1>1 DEF Control, Client
    <3>2. ctl' = [ctl EXCEPT !.slots = IF Connected THEN ctl.slots \cup {cli.inc} ELSE ctl.slots]
      BY <1>9 DEF CliSlot
    <3> QED
      BY <3>1, <3>2 DEF Control
  <2>2. cli' \in Client /\ cli'.n = cli.n /\ cli'.chan = cli.chan /\ cli'.pc = "look"
    BY <1>1, <1>9 DEF CliSlot, Client
  <2> QED
    BY <1>9, <2>1, <2>2 DEF CliSlot, history, Alive
<1>10. CASE CliDrop
  <2>1. cli' \in Client /\ cli'.n = cli.n /\ cli'.pc = "look"
    <3>1. 0 \in 0..NServers
      BY ServiceAssumption
    <3>2. cli' = [cli EXCEPT !.pc = "look", !.chan = 0]
      BY <1>10 DEF CliDrop
    <3> QED
      BY <1>1, <3>1, <3>2 DEF Client
  <2> QED
    BY <1>10, <2>1 DEF CliDrop, history, Alive, Locked
<1> QED
  BY <1>3, <1>4, <1>5, <1>6, <1>7, <1>8, <1>9, <1>10 DEF CliStep

\* A call begins.
LEMMA CallBeginEffect ==
    ASSUME Types, NEW b \in Nodelet, CallBegin(b)
    PROVE  /\ cli' \in Client /\ cli'.n = cli.n + 1 /\ cli.n + 1 \in Calls
           /\ cli'.chan = cli.chan /\ cli'.pc = cli.pc
           /\ call' \in Call /\ call'.pc \in {"push", "lock"} /\ call = NoCall
<1>1. cli \in Client /\ ctl.gen \in 0..NServers /\ call = NoCall
  BY DEF Types, Control, CallBegin
<1>2. cli.n + 1 \in Calls /\ cli.n + 1 \in 0..NCalls
  BY <1>1, ServiceAssumption DEF CallBegin, Client, Calls
<1> DEFINE s == IF b THEN Snapshot ELSE cli.seen
           k == IF b THEN Streak ELSE cli.streak
<1>3. s \in Nat /\ k \in Nat
  BY <1>1 DEF Snapshot, Streak, Client
<1>4. /\ cli' = [cli EXCEPT !.n = cli.n + 1, !.seen = s, !.streak = k]
      /\ \/ call' = [pc |-> "push", to |-> ctl.gen]
         \/ call' = [pc |-> "lock", to |-> 0]
  BY DEF CallBegin
<1> HIDE DEF s, k
<1>5. cli' \in Client /\ cli'.n = cli.n + 1 /\ cli'.chan = cli.chan /\ cli'.pc = cli.pc
  BY <1>1, <1>2, <1>3, <1>4 DEF Client
<1>6. call' \in Call /\ call'.pc \in {"push", "lock"}
  BY <1>1, <1>4, ServiceAssumption DEF Call
<1> QED
  BY <1>1, <1>2, <1>5, <1>6

\* A call pushes its envelope, which may drop the oldest.
LEMMA CallPushEffect ==
    ASSUME Types, NoDup(queue), CallPush
    PROVE  /\ cli.n \in Calls /\ call' = [call EXCEPT !.pc = "reply"]
           /\ queue' \in Seq(Calls) /\ Len(queue') <= QueueSlots
           /\ \A n \in In(queue') : n \in In(queue) \/ n = cli.n
           /\ cli.n \notin In(queue) => NoDup(queue')
<1>1. /\ cli.n \in Calls /\ call' = [call EXCEPT !.pc = "reply"]
      /\ queue \in Seq(Calls) /\ Len(queue) \in Nat /\ Len(queue) <= QueueSlots
  BY LenProperties DEF Types, CallPush, NoCall
<1> DEFINE rest == IF Len(queue) = QueueSlots THEN Tail(queue) ELSE queue
<1>2. /\ rest \in Seq(Calls) /\ Len(rest) \in Nat /\ Len(rest) < QueueSlots
      /\ \A n \in In(rest) : n \in In(queue)
      /\ NoDup(rest)
  <2>1. CASE Len(queue) = QueueSlots
    <3>1. queue # <<>>
      BY <2>1, ServiceAssumption, EmptySeq
    <3> QED
      BY <1>1, <2>1, <3>1, TailElements, LenProperties
  <2>2. CASE Len(queue) # QueueSlots
    BY <1>1, <2>2, ServiceAssumption
  <2> QED
    BY <2>1, <2>2
<1>3. queue' = Append(rest, cli.n) \/ queue' = queue
  BY DEF CallPush
<1> HIDE DEF rest
<1>4. CASE queue' = Append(rest, cli.n)
  <2>1. /\ queue' \in Seq(Calls) /\ Len(queue') = Len(rest) + 1
        /\ \A n : n \in In(queue') <=> n \in In(rest) \/ n = cli.n
        /\ NoDup(rest) /\ cli.n \notin In(rest) => NoDup(queue')
    BY <1>1, <1>2, <1>4, AppendElements
  <2>2. Len(queue') <= QueueSlots
    BY <1>2, <2>1, ServiceAssumption
  <2> QED
    BY <1>1, <1>2, <2>1, <2>2
<1>5. CASE queue' = queue
  BY <1>1, <1>5
<1> QED
  BY <1>3, <1>4, <1>5

\* The calls' steps.
LEMMA CallTypes ==
    ASSUME Types, NoDup(queue), CallStep \/ \E b \in Nodelet : CallBegin(b)
    PROVE  Types'
<1> USE DEF Types
<1>0. /\ NoCall \in Call /\ NoCall.pc = "idle"
      /\ \A p \in {"push", "reply", "lock", "send", "recv"} :
            call # NoCall =>
              /\ [call EXCEPT !.pc = p] \in Call
              /\ [call EXCEPT !.pc = p].pc = p /\ [call EXCEPT !.pc = p] # NoCall
  BY DEF Call, NoCall
<1>1. CASE \E b \in Nodelet : CallBegin(b)
  <2>1. PICK b \in Nodelet : CallBegin(b)
    BY <1>1
  <2>2. /\ cli' \in Client /\ cli'.n \in Calls
        /\ cli'.chan = cli.chan /\ cli'.pc = cli.pc
        /\ call' \in Call /\ call'.pc \in {"push", "lock"} /\ call = NoCall
    BY <2>1, CallBeginEffect
  <2> QED
    BY <2>1, <2>2 DEF CallBegin, history, Alive
<1>2. CASE CallPush
  <2>1. /\ queue' \in Seq(Calls) /\ Len(queue') <= QueueSlots
        /\ call' = [call EXCEPT !.pc = "reply"]
    BY <1>2, CallPushEffect
  <2>2. call # NoCall
    BY <1>0, <1>2 DEF CallPush
  <2>3. call' \in Call /\ call'.pc = "reply"
    BY <1>0, <2>1, <2>2
  <2> QED
    BY <1>2, <2>1, <2>2, <2>3 DEF CallPush, history, Alive
<1>3. CASE CallReply
  <2>1. cli.n \in Calls
    BY <1>3, <1>0 DEF CallReply
  <2>2. answer' \in [Calls -> 0..NCalls] /\ call' = NoCall
    <3>1. reply[cli.n] \in 0..NCalls
      BY <2>1
    <3> QED
      BY <1>3, <3>1 DEF CallReply, Returned
  <2> QED
    BY <1>0, <1>3, <2>2 DEF CallReply, Alive
<1>4. CASE CallReplyTimeout
  BY <1>0, <1>4 DEF CallReplyTimeout, history, Alive
<1>5. CASE CallLock
  <2>1. call # NoCall
    BY <1>0, <1>5 DEF CallLock
  <2>2. CASE call' = NoCall
    BY <1>0, <1>5, <2>2 DEF CallLock, history, Alive
  <2>3. CASE cli.chan # 0 /\ call' = [call EXCEPT !.pc = "send"]
    <3>1. call' \in Call /\ call'.pc = "send"
      BY <1>0, <2>1, <2>3
    <3>2. cli.chan \in Gens
      BY <2>3, ServiceAssumption DEF Client, Gens
    <3> QED
      BY <1>5, <2>1, <3>1, <3>2 DEF CallLock, history, Alive
  <2> QED
    BY <1>5, <2>2, <2>3 DEF CallLock
<1>6. CASE CallSend
  <2> DEFINE g == cli.chan
  <2>1. /\ g \in Gens /\ ring' \in [Gens -> RingRec] /\ cli.n \in Calls
        /\ ring'[g].resp = ring[g].resp
        /\ \/ call' = NoCall /\ ring'[g].req = ring[g].req
           \/ /\ call' = [call EXCEPT !.pc = "recv"]
              /\ Len(ring[g].req) < RingSlots
              /\ ring'[g].req = Append(ring[g].req, cli.n)
        /\ \A h \in Gens : h # g => ring'[h] = ring[h]
    BY <1>6, SendEffect
  <2>2. call # NoCall
    BY <1>0, <1>6 DEF CallSend
  <2>3. call' \in Call /\ call'.pc \in {"idle", "recv"}
    BY <1>0, <2>1, <2>2
  <2> HIDE DEF g
  <2>4. ring[g].req \in Seq(Calls) /\ Len(ring[g].req) \in Nat
        /\ Len(Append(ring[g].req, cli.n)) = Len(ring[g].req) + 1
    BY <2>1, AppendProperties, LenProperties DEF RingRec
  <2>5. Len(ring'[g].req) <= RingSlots /\ Len(ring'[g].resp) <= RingSlots
    BY <2>1, <2>4, ServiceAssumption
  <2>6. \A h \in Gens : Len(ring'[h].req) <= RingSlots /\ Len(ring'[h].resp) <= RingSlots
    BY <2>1, <2>5
  <2> QED
    BY <1>6, <2>1, <2>2, <2>3, <2>6 DEF CallSend, history, Alive
<1>7. CASE CallRecv
  <2> DEFINE g == cli.chan
  <2>1. /\ g \in Gens /\ ring' \in [Gens -> RingRec] /\ cli.n \in Calls
        /\ ring[g].resp # <<>>
        /\ ring'[g].req = ring[g].req /\ ring'[g].resp = Tail(ring[g].resp)
        /\ \A h \in Gens : h # g => ring'[h] = ring[h]
        /\ answer' = [answer EXCEPT ![cli.n] = Head(ring[g].resp)]
    BY <1>7, AnswerEffect
  <2> HIDE DEF g
  <2>2. ring[g].resp \in Seq(Calls)
    BY <2>1 DEF RingRec
  <2>3. /\ Head(ring[g].resp) \in Calls /\ Len(ring[g].resp) \in Nat
        /\ Len(Tail(ring[g].resp)) = Len(ring[g].resp) - 1
    BY <2>1, <2>2, HeadTailProperties, LenProperties
  <2>4. Len(ring'[g].req) <= RingSlots /\ Len(ring'[g].resp) <= RingSlots
    BY <2>1, <2>3, ServiceAssumption
  <2>5. \A h \in Gens : Len(ring'[h].req) <= RingSlots /\ Len(ring'[h].resp) <= RingSlots
    BY <2>1, <2>4
  <2>6. answer' \in [Calls -> 0..NCalls]
    <3>1. Head(ring[g].resp) \in 0..NCalls
      BY <2>3, ServiceAssumption DEF Calls
    <3> QED
      BY <2>1, <3>1
  <2> QED
    BY <1>0, <1>7, <2>1, <2>5, <2>6 DEF CallRecv, Returned, Alive
<1>8. CASE CallRecvTimeout
  BY <1>0, <1>8 DEF CallRecvTimeout, history, Alive
<1> QED
  BY <1>1, <1>2, <1>3, <1>4, <1>5, <1>6, <1>7, <1>8 DEF CallStep

\* Every step keeps the types.
LEMMA TypesStep == Types /\ NoDup(queue) /\ [Next]_vars => Types'
<1> SUFFICES ASSUME Types, NoDup(queue), [Next]_vars PROVE Types'
  OBVIOUS
<1>1. CASE UNCHANGED vars
  BY <1>1 DEF vars, Types, Alive
<1>2. CASE SrvStart \/ ResetMessage \/ SrvStop \/ SrvCrash \/ SrvStep \/ RespStep
  BY <1>2, ServerTypes, ResponderTypes DEF SrvStep
<1>3. CASE CliStart \/ CliStop \/ CliCrash \/ CliStep
  BY <1>3, ClientTypes
<1>4. CASE CallStep \/ \E b \in Nodelet : CallBegin(b)
  BY <1>4, CallTypes
<1> QED
  BY <1>1, <1>2, <1>3, <1>4 DEF Next

-----------------------------------------------------------------------------
(* The inductive invariant *)

LEMMA InitSound == Init => Sound
<1> SUFFICES ASSUME Init PROVE Sound
  OBVIOUS
<1>1. /\ In(<<>>) = {} /\ NoDup(<<>>)
      /\ queue = <<>> /\ \A g \in Gens : ring[g].req = <<>> /\ ring[g].resp = <<>>
      /\ work = NoWork /\ call = NoCall /\ cli.n = 0
      /\ \A n \in Calls : reply[n] = 0 /\ ran[n] = 0 /\ answer[n] = 0
  BY EmptyElements DEF Init, Fresh
<1> QED
  BY <1>1 DEF Sound, RequestOK, RanOK, ResponseOK, ReplyOK, AnswerOK, Taken, Done, Unreturned, Calls

\* Requests leave their places or stay.
FewerRequests ==
    /\ NoDup(queue') /\ \A n \in In(queue') : n \in In(queue)
    /\ \A g \in Gens :
          NoDup(ring'[g].req) /\ \A n \in In(ring'[g].req) : n \in In(ring[g].req)

\* Responses leave their places or stay.
FewerResponses ==
    \A g \in Gens :
        NoDup(ring'[g].resp) /\ \A n \in In(ring'[g].resp) : n \in In(ring[g].resp)

\* A call ends or goes on, with what it asked.
SameCalls ==
    /\ cli'.n = cli.n
    /\ call' # NoCall => call # NoCall
    /\ call'.pc \in {"push", "lock", "send"} => call.pc \in {"push", "lock", "send"}

LEMMA SameAsked == ASSUME SameCalls, NEW n, Asked(n) PROVE Asked(n)'
BY DEF SameCalls, Asked

\* A step that adds no request, response, run or answer.
LEMMA Fewer ==
    ASSUME Types, Types', Sound, FewerRequests, FewerResponses, SameCalls,
           work' = work \/ work' = NoWork,
           reply' = reply, ran' = ran, answer' = answer
    PROVE  Sound'
<1>1. \A n : (Taken(n)' => Taken(n)) /\ (Done(n)' => Done(n))
  BY DEF Taken, Done
<1>2. \A n : Asked(n) => Asked(n)'
  BY SameAsked
<1>3. \A n : Unreturned(n)' <=> Unreturned(n)
  BY DEF Unreturned
<1>4. RequestOK'
  BY <1>1, <1>2 DEF Sound, RequestOK, FewerRequests
<1>5. RanOK'
  BY <1>2 DEF Sound, RanOK
<1>6. ResponseOK'
  BY <1>1, <1>3 DEF Sound, ResponseOK, FewerResponses
<1>7. ReplyOK'
  BY DEF Sound, ReplyOK
<1>8. AnswerOK'
  BY DEF Sound, AnswerOK, SameCalls
<1> QED
  BY <1>4, <1>5, <1>6, <1>7, <1>8 DEF Sound

\* What is on the rings and in the queue stays.
LEMMA SameRings ==
    ASSUME Sound,
           \A g \in Gens : ring'[g].req = ring[g].req /\ ring'[g].resp = ring[g].resp,
           queue' = queue
    PROVE  FewerRequests /\ FewerResponses
BY DEF Sound, RequestOK, ResponseOK, FewerRequests, FewerResponses

\* The server starts with an empty queue and empty rings.
LEMMA StartSound ==
    ASSUME Types, Types', Sound, SrvStart \/ SrvOpen
    PROVE  Sound'
<1>1. SameCalls /\ work' = work /\ reply' = reply /\ ran' = ran /\ answer' = answer
  BY DEF SrvStart, SrvOpen, history, SameCalls
<1>2. FewerRequests /\ FewerResponses
  <2>1. CASE SrvStart
    <3>1. queue' = <<>> /\ ring' = ring
      BY <2>1 DEF SrvStart
    <3> QED
      BY <3>1, EmptyElements DEF Sound, RequestOK, ResponseOK, FewerRequests, FewerResponses
  <2>2. CASE SrvOpen
    <3> DEFINE g == ctl.gen
    <3>1. /\ ring'[g].req = <<>> /\ ring'[g].resp = <<>>
          /\ \A h \in Gens : h # g => ring'[h] = ring[h]
          /\ queue' = queue
      BY <2>2, OpenEffect DEF SrvOpen
    <3> HIDE DEF g
    <3> QED
      BY <3>1, EmptyElements DEF Sound, RequestOK, ResponseOK, FewerRequests, FewerResponses
  <2> QED
    BY <2>1, <2>2
<1> QED
  BY <1>1, <1>2, Fewer

\* The other steps of the server's life, of the client's handshake, and the
\* timeouts of calls.
LEMMA QuietSound ==
    ASSUME Types, Types', Sound,
           \/ ResetMessage \/ SrvStop \/ SrvCrash \/ SrvDrained \/ SrvReady \/ SrvRegister
           \/ SrvSeePeers \/ SrvJoin \/ Reap \/ SrvClear
           \/ CliStart \/ CliStop \/ CliCrash \/ CliStep
           \/ CallReplyTimeout \/ CallLock \/ CallRecvTimeout \/ UNCHANGED vars
    PROVE  Sound'
<1>1. /\ work' = work \/ work' = NoWork
      /\ reply' = reply /\ ran' = ran /\ answer' = answer /\ queue' = queue
  BY DEF ResetMessage, SrvStop, SrvCrash, SrvDrained, SrvReady, SrvRegister, SrvSeePeers,
         SrvJoin, Reap, SrvClear, CliStart, CliStop, CliCrash, CliStep, CliLook, CliSwap,
         CliAdd, CliSlot, CliDrop, CallReplyTimeout, CallLock, CallRecvTimeout, vars, history
<1>2. \A g \in Gens : ring'[g].req = ring[g].req /\ ring'[g].resp = ring[g].resp
  <2>1. CASE Reap \/ SrvClear \/ CliSwap
    BY <2>1, ConnectionEffect DEF SameContents
  <2>2. CASE ~(Reap \/ SrvClear \/ CliSwap)
    <3>1. ring' = ring
      BY <2>2 DEF ResetMessage, SrvStop, SrvCrash, SrvDrained, SrvReady, SrvRegister,
         SrvSeePeers, SrvJoin, CliStart, CliStop, CliCrash, CliStep, CliLook,
         CliAdd, CliSlot, CliDrop, CallReplyTimeout, CallLock, CallRecvTimeout, vars
    <3> QED
      BY <3>1
  <2> QED
    BY <2>1, <2>2
<1>3. SameCalls
  <2>1. /\ cli \in Client /\ call \in Call /\ NoCall.pc = "idle"
    BY DEF Types, NoCall
  <2>2. CASE CliStart \/ CliStop \/ CliCrash \/ CliStep
    <3>1. call' = call \/ call' = NoCall
      BY <2>2 DEF CliStart, CliStop, CliCrash, CliStep, CliLook, CliSwap, CliAdd, CliSlot, CliDrop
    <3>2. cli'.n = cli.n
      <4>1. Gone.n = cli.n
        BY <2>1 DEF Gone, Client
      <4>2. CASE CliStart \/ CliStop \/ CliCrash
        BY <4>1, <4>2 DEF CliStart, CliStop, CliCrash
      <4>3. CASE CliLook
        BY <2>1, <4>3 DEF CliLook, Client
      <4>4. CASE CliSwap
        BY <2>1, <4>4 DEF CliSwap, Client
      <4>5. CASE CliAdd
        BY <2>1, <4>5 DEF CliAdd, Client
      <4>6. CASE CliSlot
        BY <2>1, <4>6 DEF CliSlot, Client
      <4>7. CASE CliDrop
        BY <2>1, <4>7 DEF CliDrop, Client
      <4> QED
        BY <2>2, <4>2, <4>3, <4>4, <4>5, <4>6, <4>7 DEF CliStep
    <3> QED
      BY <2>1, <3>1, <3>2 DEF SameCalls
  <2>3. CASE CallLock
    <3>1. call # NoCall
      BY <2>1, <2>3 DEF CallLock
    <3> QED
      BY <2>1, <2>3, <3>1 DEF CallLock, SameCalls
  <2>4. CASE ~(CliStart \/ CliStop \/ CliCrash \/ CliStep) /\ ~CallLock
    <3>1. cli' = cli /\ (call' = call \/ call' = NoCall)
      BY <2>4 DEF ResetMessage, SrvStop, SrvCrash, SrvDrained, SrvReady, SrvRegister,
         SrvSeePeers, SrvJoin, Reap, SrvClear, CallReplyTimeout, CallRecvTimeout, vars
    <3> QED
      BY <2>1, <3>1 DEF SameCalls
  <2> QED
    BY <2>2, <2>3, <2>4
<1> QED
  BY <1>1, <1>2, <1>3, SameRings, Fewer

\* The response thread takes an envelope.
LEMMA PopQueueSound ==
    ASSUME Types, Types', Sound, PopQueue
    PROVE  Sound'
<1> DEFINE x == Head(queue)
<1>1. /\ queue \in Seq(Calls) /\ queue # <<>> /\ work = NoWork
      /\ NoDup(queue) /\ queue' = Tail(queue)
      /\ work' = [via |-> "queue", n |-> x, run |-> FALSE]
      /\ UNCHANGED <<ctl, ring, name, srv, cli, call, reply, ran, answer, resets, local>>
  BY DEF Types, Sound, RequestOK, PopQueue, history
<1>2. /\ x \in Calls /\ x \in In(queue) /\ NoDup(queue')
      /\ \A n \in In(queue') : n \in In(queue) /\ n # x
  BY <1>1, TailElements
<1>3. \A n : (Taken(n)' <=> n = x) /\ ~Done(n)' /\ ~Taken(n)
  BY <1>1 DEF Taken, Done, NoWork
<1>4. \A n : (Asked(n)' <=> Asked(n)) /\ (Unreturned(n)' <=> Unreturned(n))
  BY <1>1 DEF Asked, Unreturned
<1> HIDE DEF x
<1>5. RequestOK'
  BY <1>1, <1>2, <1>3, <1>4 DEF Sound, RequestOK
<1>6. RanOK'
  BY <1>1, <1>4 DEF Sound, RanOK
<1>7. ResponseOK'
  BY <1>1, <1>3, <1>4 DEF Sound, ResponseOK
<1>8. ReplyOK' /\ AnswerOK'
  BY <1>1 DEF Sound, ReplyOK, AnswerOK
<1> QED
  BY <1>5, <1>6, <1>7, <1>8 DEF Sound

\* It takes a request off the ring, to run it or to throw it away.
LEMMA RecvRequestSound ==
    ASSUME Types, Types', Sound, RecvRequest
    PROVE  Sound'
<1> DEFINE g == ctl.gen
           x == Head(ring[g].req)
<1>1. /\ g \in Gens /\ ring[g].req # <<>>
      /\ ring'[g].req = Tail(ring[g].req) /\ ring'[g].resp = ring[g].resp
      /\ \A h \in Gens : h # g => ring'[h] = ring[h]
  BY RecvEffect
<1>2. /\ work = NoWork
      /\ work' = [via |-> "ring", n |-> x, run |-> FALSE] \/ work' = NoWork
      /\ UNCHANGED <<ctl, name, srv, queue, cli, call, reply, ran, answer, resets, local>>
  BY DEF RecvRequest, history
<1>3. ring[g].req \in Seq(Calls) /\ NoDup(ring[g].req)
  BY <1>1 DEF Types, RingRec, Sound, RequestOK
<1>4. /\ x \in Calls /\ x \in In(ring[g].req) /\ NoDup(ring'[g].req)
      /\ \A n \in In(ring'[g].req) : n \in In(ring[g].req) /\ n # x
  BY <1>1, <1>3, TailElements
<1>5. \A n : (Taken(n)' => n = x) /\ ~Done(n)' /\ ~Taken(n)
  <2>1. CASE work' = NoWork
    BY <1>2, <2>1 DEF Taken, Done
  <2>2. CASE work' = [via |-> "ring", n |-> x, run |-> FALSE]
    <3>1. work'.run = FALSE /\ work'.n = x
      BY <2>2
    <3> QED
      BY <1>2, <3>1 DEF Taken, Done
  <2> QED
    BY <1>2, <2>1, <2>2
<1>6. \A n : (Asked(n)' <=> Asked(n)) /\ (Unreturned(n)' <=> Unreturned(n))
  BY <1>2 DEF Asked, Unreturned
<1> HIDE DEF g, x
<1>7. RequestOK'
  <2>1. /\ Asked(x) /\ ran[x] = 0 /\ x \notin In(queue)
        /\ \A h \in Gens : x \in In(ring[h].req) => h = g
    BY <1>1, <1>4 DEF Sound, RequestOK
  <2>2. \A h \in Gens : \A n \in In(ring'[h].req) : n \in In(ring[h].req) /\ n # x
    BY <1>1, <1>4, <2>1
  <2>3. \A h \in Gens : NoDup(ring'[h].req)
    BY <1>1, <1>4 DEF Sound, RequestOK
  <2> QED
    BY <1>2, <1>5, <1>6, <2>1, <2>2, <2>3 DEF Sound, RequestOK
<1>8. RanOK'
  BY <1>2, <1>6 DEF Sound, RanOK
<1>9. ResponseOK'
  <2>1. \A h \in Gens : ring'[h].resp = ring[h].resp
    BY <1>1
  <2> QED
    BY <1>2, <1>5, <1>6, <2>1 DEF Sound, ResponseOK
<1>10. ReplyOK' /\ AnswerOK'
  BY <1>2 DEF Sound, ReplyOK, AnswerOK
<1> QED
  BY <1>7, <1>8, <1>9, <1>10 DEF Sound

\* The request the response thread has runs, for the first time.
LEMMA CallbackSound ==
    ASSUME Types, Types', Sound, Callback
    PROVE  Sound'
<1> DEFINE x == work.n
<1>1. /\ work # NoWork /\ ~work.run /\ x \in Calls
      /\ work' = [work EXCEPT !.run = TRUE]
      /\ ran' = [ran EXCEPT ![x] = ran[x] + 1] /\ ran \in [Calls -> Nat]
      /\ UNCHANGED <<ctl, ring, name, srv, queue, cli, call, reply, answer, resets, local>>
  BY DEF Types, Work, Callback
<1>2. /\ \A n : (Taken(n) <=> n = x) /\ ~Taken(n)'
      /\ \A n : (Done(n)' <=> n = x) /\ ~Done(n)
  <2>1. work' # NoWork /\ work'.run /\ work'.n = x
    BY <1>1 DEF Types, Work, NoWork
  <2> QED
    BY <1>1, <2>1 DEF Taken, Done
<1>3. \A n : (Asked(n)' <=> Asked(n)) /\ (Unreturned(n)' <=> Unreturned(n))
  BY <1>1 DEF Asked, Unreturned
<1>4. ran[x] = 0 /\ Asked(x)
  BY <1>1, <1>2 DEF Sound, RequestOK
<1>5. ran'[x] = 1 /\ \A n \in Calls : n # x => ran'[n] = ran[n]
  BY <1>1, <1>4
<1> HIDE DEF x
<1>6. RequestOK'
  <2>1. x \notin In(queue) /\ \A g \in Gens : x \notin In(ring[g].req)
    BY <1>1, <1>2 DEF Sound, RequestOK
  <2>2. In(queue) \subseteq Calls /\ \A g \in Gens : In(ring[g].req) \subseteq Calls
    BY ElementsOf DEF Types, RingRec
  <2>3. \A n \in In(queue) : ran'[n] = 0
    BY <1>5, <2>1, <2>2 DEF Sound, RequestOK
  <2>4. \A g \in Gens : \A n \in In(ring[g].req) : ran'[n] = 0
    BY <1>5, <2>1, <2>2 DEF Sound, RequestOK
  <2> QED
    BY <1>1, <1>2, <1>3, <2>3, <2>4 DEF Sound, RequestOK
<1>7. RanOK'
  BY <1>1, <1>3, <1>4, <1>5 DEF Sound, RanOK
<1>8. ResponseOK'
  <2>1. reply[x] = 0
    BY <1>1, <1>4 DEF Sound, ReplyOK
  <2>2. Unreturned(x)
    <3>1. ASSUME NEW m \in Calls, answer[m] = x PROVE FALSE
      <4>1. answer[m] # 0
        BY <1>1, <3>1, ServiceAssumption DEF Calls
      <4> QED
        BY <1>4, <3>1, <4>1 DEF Sound, AnswerOK
    <3> QED
      BY <3>1 DEF Unreturned
  <2>3. \A g \in Gens : In(ring[g].resp) \subseteq Calls
    BY ElementsOf DEF Types, RingRec
  <2>4. \A g \in Gens : \A n \in In(ring[g].resp) : n # x /\ ran'[n] = 1
    BY <1>4, <1>5, <2>3 DEF Sound, ResponseOK
  <2> QED
    BY <1>1, <1>2, <1>3, <1>5, <2>1, <2>2, <2>4 DEF Sound, ResponseOK
<1>9. ReplyOK'
  BY <1>1, <1>4, <1>5 DEF Sound, ReplyOK
<1>10. AnswerOK'
  <2>1. \A m \in Calls : answer[m] # 0 => answer[m] \in Calls
    <3>1. answer \in [Calls -> 0..NCalls]
      BY DEF Types
    <3> QED
      BY <3>1, ServiceAssumption DEF Calls
  <2> QED
    BY <1>1, <1>4, <1>5, <2>1 DEF Sound, AnswerOK
<1> QED
  BY <1>6, <1>7, <1>8, <1>9, <1>10 DEF Sound

\* The response goes to the call's reply queue, onto the ring, or nowhere.
LEMMA RespondSound ==
    ASSUME Types, Types', Sound, Respond
    PROVE  Sound'
<1> DEFINE x == work.n
           g == ctl.gen
<1>1. /\ work # NoWork /\ work.run /\ x \in Calls /\ work' = NoWork
      /\ UNCHANGED <<ctl, name, srv, queue, cli, call, ran, answer, resets, local>>
  BY DEF Types, Work, Respond, history
<1>2. \A n : ~Taken(n)' /\ ~Done(n)' /\ (Done(n) <=> n = x)
  BY <1>1 DEF Taken, Done
<1>3. \A n : (Asked(n)' <=> Asked(n)) /\ (Unreturned(n)' <=> Unreturned(n))
  BY <1>1 DEF Asked, Unreturned
<1>4. ran[x] = 1 /\ reply[x] = 0 /\ Unreturned(x)
  BY <1>1, <1>2 DEF Sound, ResponseOK
<1>5. CASE work.via = "ring"
  <2>1. /\ g \in Gens /\ reply' = reply
        /\ ring'[g].req = ring[g].req
        /\ \/ ring'[g].resp = ring[g].resp
           \/ ring'[g].resp = Append(ring[g].resp, x)
        /\ \A h \in Gens : h # g => ring'[h] = ring[h]
    BY <1>5, RespondEffect
  <2>2. ring[g].resp \in Seq(Calls) /\ NoDup(ring[g].resp)
    BY <2>1 DEF Types, RingRec, Sound, ResponseOK
  <2>3. \A h \in Gens : x \notin In(ring[h].resp)
    BY <1>2 DEF Sound, ResponseOK
  <2>4. /\ NoDup(ring'[g].resp)
        /\ \A n \in In(ring'[g].resp) : n \in In(ring[g].resp) \/ n = x
    <3>1. x \notin In(ring[g].resp)
      BY <2>1, <2>3
    <3>2. /\ \A n : n \in In(Append(ring[g].resp, x)) <=> n \in In(ring[g].resp) \/ n = x
          /\ NoDup(Append(ring[g].resp, x))
      BY <1>1, <2>2, <3>1, AppendElements
    <3> QED
      BY <2>1, <2>2, <3>2
  <2> HIDE DEF x, g
  <2>5. RequestOK'
    <3>1. \A h \in Gens : ring'[h].req = ring[h].req
      BY <2>1
    <3> QED
      BY <1>1, <1>2, <1>3, <3>1 DEF Sound, RequestOK
  <2>6. ResponseOK'
    <3>1. \A h \in Gens : \A n \in In(ring'[h].resp) :
              n \in In(ring[h].resp) \/ (h = g /\ n = x)
      BY <2>1, <2>4
    <3>2. \A h \in Gens : NoDup(ring'[h].resp)
      BY <2>1, <2>4 DEF Sound, ResponseOK
    <3>3. ASSUME NEW h \in Gens, NEW n \in In(ring'[h].resp)
          PROVE  /\ ran'[n] = 1 /\ reply'[n] = 0 /\ Unreturned(n)'
                 /\ \A k \in Gens : n \in In(ring'[k].resp) => k = h
      <4>1. CASE n = x
        BY <1>1, <1>3, <1>4, <2>1, <2>3, <3>1, <3>3, <4>1
      <4>2. CASE n # x
        BY <1>1, <1>3, <2>1, <3>1, <3>3, <4>2 DEF Sound, ResponseOK
      <4> QED
        BY <4>1, <4>2
    <3> QED
      BY <1>2, <3>2, <3>3 DEF ResponseOK
  <2>7. RanOK' /\ ReplyOK' /\ AnswerOK'
    BY <1>1, <1>3, <2>1 DEF Sound, RanOK, ReplyOK, AnswerOK
  <2> QED
    BY <2>5, <2>6, <2>7 DEF Sound
<1>6. CASE work.via = "queue"
  <2>1. /\ ring' = ring /\ reply' = [reply EXCEPT ![x] = x]
        /\ reply \in [Calls -> 0..NCalls]
    BY <1>6 DEF Respond, Types
  <2>2. reply'[x] = x /\ \A n \in Calls : n # x => reply'[n] = reply[n]
    BY <1>1, <2>1
  <2> HIDE DEF x, g
  <2>3. RequestOK'
    BY <1>1, <1>2, <1>3, <2>1 DEF Sound, RequestOK
  <2>4. ResponseOK'
    <3>1. \A h \in Gens : In(ring[h].resp) \subseteq Calls
      BY ElementsOf DEF Types, RingRec
    <3>2. \A h \in Gens : \A n \in In(ring[h].resp) : reply'[n] = 0
      BY <1>2, <2>2, <3>1 DEF Sound, ResponseOK
    <3> QED
      BY <1>1, <1>2, <1>3, <2>1, <3>2 DEF Sound, ResponseOK
  <2>5. ReplyOK'
    <3>1. \A m \in Calls : answer[m] # x
      BY <1>4 DEF Unreturned
    <3> QED
      BY <1>1, <1>4, <2>2, <3>1 DEF Sound, ReplyOK
  <2>6. RanOK' /\ AnswerOK'
    BY <1>1, <1>3 DEF Sound, RanOK, AnswerOK
  <2> QED
    BY <2>3, <2>4, <2>5, <2>6 DEF Sound
<1> QED
  BY <1>5, <1>6 DEF Respond

\* A call gets the next number; nothing of it is anywhere yet.
LEMMA CallBeginSound ==
    ASSUME Types, Types', Sound, NEW b \in Nodelet, CallBegin(b)
    PROVE  Sound'
<1>1. /\ cli'.n = cli.n + 1 /\ cli.n \in Nat /\ cli'.n \in Calls
      /\ call'.pc \in {"push", "lock"} /\ call = NoCall /\ NoCall.pc = "idle"
      /\ UNCHANGED <<ctl, ring, name, srv, work, queue, reply, ran, answer, resets, local>>
  <2>1. /\ cli'.n = cli.n + 1 /\ cli.n + 1 \in Calls
        /\ call'.pc \in {"push", "lock"} /\ call = NoCall
    BY CallBeginEffect
  <2>2. cli.n \in Nat /\ NoCall.pc = "idle"
    BY DEF Types, Client, NoCall
  <2> QED
    BY <2>1, <2>2 DEF CallBegin, history
<1>2. \A n \in Calls : Asked(n)' <=> Asked(n)
  BY <1>1 DEF Asked, Calls
<1>3. \A n : /\ Taken(n)' <=> Taken(n)
             /\ Done(n)' <=> Done(n)
             /\ Unreturned(n)' <=> Unreturned(n)
  BY <1>1 DEF Taken, Done, Unreturned
<1>4. RequestOK'
  <2>1. In(queue) \subseteq Calls /\ \A g \in Gens : In(ring[g].req) \subseteq Calls
    BY ElementsOf DEF Types, RingRec
  <2> QED
    BY <1>1, <1>2, <1>3, <2>1 DEF Sound, RequestOK
<1>5. RanOK'
  BY <1>1, <1>2 DEF Sound, RanOK
<1>6. ResponseOK'
  BY <1>1, <1>3 DEF Sound, ResponseOK
<1>7. ReplyOK'
  BY <1>1 DEF Sound, ReplyOK
<1>8. AnswerOK'
  BY <1>1 DEF Sound, AnswerOK, Calls
<1> QED
  BY <1>4, <1>5, <1>6, <1>7, <1>8 DEF Sound

\* The request of a call that has not sent it is nowhere.
LEMMA UnsentNowhere ==
    ASSUME Types, Sound, call.pc \in {"push", "lock", "send"}, NEW x, x = cli.n
    PROVE  /\ x \in Calls /\ ~Asked(x) /\ ran[x] = 0 /\ ~Taken(x) /\ x \notin In(queue)
           /\ \A g \in Gens : x \notin In(ring[g].req)
<1>1. x \in Calls /\ ~Asked(x)
  BY DEF Types, NoCall, Asked, Calls
<1> QED
  BY <1>1 DEF Sound, RequestOK, RanOK

\* An envelope goes to the server's queue, or to one nobody reads.
LEMMA CallPushSound ==
    ASSUME Types, Types', Sound, CallPush
    PROVE  Sound'
<1> DEFINE x == cli.n
<1>1. /\ call' = [call EXCEPT !.pc = "reply"] /\ call.pc = "push" /\ call \in Call
      /\ UNCHANGED <<ctl, ring, name, srv, work, cli, reply, ran, answer, resets, local>>
  BY CallPushEffect DEF CallPush, history, Types, Sound, RequestOK
<1>2. /\ x \in Calls /\ ~Asked(x) /\ ran[x] = 0 /\ ~Taken(x) /\ x \notin In(queue)
      /\ \A g \in Gens : x \notin In(ring[g].req)
  BY <1>1, UnsentNowhere
<1>3. NoDup(queue') /\ \A n \in In(queue') : n \in In(queue) \/ n = x
  BY <1>2, CallPushEffect DEF Sound, RequestOK
<1>4. call # NoCall /\ call'.pc = "reply"
  BY <1>1 DEF Call, NoCall
<1>5. \A n : Asked(n) \/ n = x => Asked(n)'
  BY <1>1, <1>4 DEF Asked
<1>6. \A n : /\ Taken(n)' <=> Taken(n)
             /\ Done(n)' <=> Done(n)
             /\ Unreturned(n)' <=> Unreturned(n)
  BY <1>1 DEF Taken, Done, Unreturned
<1>7. AnswerOK'
  BY <1>1, <1>4 DEF Sound, AnswerOK
<1> HIDE DEF x
<1>8. RequestOK'
  <2>0. ran' = ran /\ ring' = ring
    BY <1>1
  <2>1. \A n \in Calls : Taken(n)' => Asked(n)' /\ ran'[n] = 0
    BY <1>5, <1>6, <2>0 DEF Sound, RequestOK
  <2>2. \A n \in In(queue') : Asked(n)' /\ ran'[n] = 0 /\ ~Taken(n)'
    BY <1>2, <1>3, <1>5, <1>6, <2>0 DEF Sound, RequestOK
  <2>3. \A g \in Gens :
          /\ NoDup(ring'[g].req)
          /\ \A n \in In(ring'[g].req) :
                /\ Asked(n)' /\ ran'[n] = 0 /\ ~Taken(n)' /\ n \notin In(queue')
                /\ \A h \in Gens : n \in In(ring'[h].req) => h = g
    BY <1>2, <1>3, <1>5, <1>6, <2>0 DEF Sound, RequestOK
  <2> QED
    BY <1>3, <2>1, <2>2, <2>3 DEF RequestOK
<1>9. RanOK'
  BY <1>1, <1>5 DEF Sound, RanOK
<1>10. ResponseOK' /\ ReplyOK'
  BY <1>1, <1>6 DEF Sound, ResponseOK, ReplyOK
<1> QED
  BY <1>7, <1>8, <1>9, <1>10 DEF Sound

\* A request goes on the ring the client is connected to.
LEMMA CallSendSound ==
    ASSUME Types, Types', Sound, CallSend
    PROVE  Sound'
<1> DEFINE x == cli.n
           g == cli.chan
<1>1. /\ call.pc = "send" /\ call \in Call /\ call # NoCall
      /\ UNCHANGED <<ctl, name, srv, work, queue, cli, reply, ran, answer, resets, local>>
  BY DEF CallSend, history, Types, NoCall
<1>2. /\ x \in Calls /\ ~Asked(x) /\ ran[x] = 0 /\ ~Taken(x) /\ x \notin In(queue)
      /\ \A h \in Gens : x \notin In(ring[h].req)
  BY <1>1, UnsentNowhere
<1>3. /\ g \in Gens
      /\ ring'[g].resp = ring[g].resp
      /\ \/ call' = NoCall /\ ring'[g].req = ring[g].req
         \/ /\ call' = [call EXCEPT !.pc = "recv"]
            /\ ring'[g].req = Append(ring[g].req, x)
      /\ \A h \in Gens : h # g => ring'[h] = ring[h]
  BY SendEffect
<1>4. NoDup(ring'[g].req) /\ \A n \in In(ring'[g].req) : n \in In(ring[g].req) \/ n = x
  <2>1. ring[g].req \in Seq(Calls) /\ NoDup(ring[g].req)
    BY <1>3 DEF Types, RingRec, Sound, RequestOK
  <2>2. /\ \A n : n \in In(Append(ring[g].req, x)) <=> n \in In(ring[g].req) \/ n = x
        /\ NoDup(Append(ring[g].req, x))
    BY <1>2, <1>3, <2>1, AppendElements
  <2> QED
    BY <1>3, <2>1, <2>2
<1>5. call'.pc \in {"idle", "recv"}
  BY <1>1, <1>3 DEF Call, NoCall
<1>6. \A n : Asked(n) \/ n = x => Asked(n)'
  BY <1>1, <1>5 DEF Asked
<1>7. \A n : /\ Taken(n)' <=> Taken(n)
             /\ Done(n)' <=> Done(n)
             /\ Unreturned(n)' <=> Unreturned(n)
  BY <1>1 DEF Taken, Done, Unreturned
<1>8. AnswerOK'
  BY <1>1 DEF Sound, AnswerOK
<1> HIDE DEF x, g
<1>9. RequestOK'
  <2>1. \A h \in Gens : \A n \in In(ring'[h].req) : n \in In(ring[h].req) \/ (h = g /\ n = x)
    BY <1>3, <1>4
  <2>2. \A h \in Gens : NoDup(ring'[h].req)
    BY <1>3, <1>4 DEF Sound, RequestOK
  <2>3. ASSUME NEW h \in Gens, NEW n \in In(ring'[h].req)
        PROVE  /\ Asked(n)' /\ ran'[n] = 0 /\ ~Taken(n)' /\ n \notin In(queue')
               /\ \A k \in Gens : n \in In(ring'[k].req) => k = h
    <3>1. CASE n = x
      BY <1>1, <1>2, <1>6, <1>7, <2>1, <2>3, <3>1
    <3>2. CASE n # x
      BY <1>1, <1>6, <1>7, <2>1, <2>3, <3>2 DEF Sound, RequestOK
    <3> QED
      BY <3>1, <3>2
  <2>4. /\ NoDup(queue')
        /\ \A n \in In(queue') : Asked(n)' /\ ran'[n] = 0 /\ ~Taken(n)'
        /\ \A n \in Calls : Taken(n)' => Asked(n)' /\ ran'[n] = 0
    BY <1>1, <1>6, <1>7 DEF Sound, RequestOK
  <2> QED
    BY <2>2, <2>3, <2>4 DEF RequestOK
<1>10. RanOK'
  BY <1>1, <1>6 DEF Sound, RanOK
<1>11. ResponseOK'
  <2>1. \A h \in Gens : ring'[h].resp = ring[h].resp
    BY <1>3
  <2> QED
    BY <1>1, <1>7, <2>1 DEF Sound, ResponseOK
<1>12. ReplyOK'
  BY <1>1 DEF Sound, ReplyOK
<1> QED
  BY <1>8, <1>9, <1>10, <1>11, <1>12 DEF Sound

\* Call n returns with response r, which had run and no call had.
Returns(n, r) ==
    /\ n \in Calls /\ r \in Calls /\ n = cli.n /\ r <= n
    /\ call # NoCall /\ call' = NoCall
    /\ ran[r] = 1 /\ Unreturned(r)
    /\ answer' = [answer EXCEPT ![n] = r]
    /\ UNCHANGED <<work, queue, cli, ran, reply>>

LEMMA ReturnsAnswer ==
    ASSUME Types, Types', Sound, NEW n, NEW r, Returns(n, r)
    PROVE  /\ AnswerOK' /\ RanOK'
           /\ \A m \in Calls : answer'[m] = IF m = n THEN r ELSE answer[m]
           /\ \A k : k # r /\ Unreturned(k) => Unreturned(k)'
           /\ \A k : Asked(k) => Asked(k)'
           /\ \A k : (Taken(k)' <=> Taken(k)) /\ (Done(k)' <=> Done(k))
<1>1. answer \in [Calls -> 0..NCalls] /\ n \in Calls
  BY DEF Types, Returns
<1>2. \A m \in Calls : answer'[m] = IF m = n THEN r ELSE answer[m]
  BY <1>1 DEF Returns
<1>3. \A k : k # r /\ Unreturned(k) => Unreturned(k)'
  BY <1>2 DEF Unreturned
<1>4. \A k : Asked(k) => Asked(k)'
  BY DEF Returns, Asked, NoCall
<1>5. \A k : (Taken(k)' <=> Taken(k)) /\ (Done(k)' <=> Done(k))
  BY DEF Returns, Taken, Done
<1>6. RanOK'
  BY <1>4 DEF Sound, RanOK, Returns
<1>7. AnswerOK'
  <2>1. \A m \in Calls : answer[m] # r
    BY DEF Returns, Unreturned
  <2>2. call' = NoCall /\ ran' = ran /\ cli' = cli /\ ran[r] = 1 /\ r <= n /\ n = cli.n
    BY DEF Returns
  <2>3. ASSUME NEW m \in Calls, answer'[m] # 0
        PROVE  ran'[answer'[m]] = 1 /\ answer'[m] <= m /\ m <= cli'.n
    <3>1. CASE m = n
      <4>1. cli.n <= cli.n
        BY <1>1, <2>2 DEF Calls
      <4> QED
        BY <1>2, <2>2, <3>1, <4>1
    <3>2. CASE m # n
      BY <1>2, <2>2, <2>3, <3>2 DEF Sound, AnswerOK
    <3> QED
      BY <3>1, <3>2
  <2>4. ASSUME NEW m \in Calls, NEW k \in Calls, answer'[m] # 0, answer'[m] = answer'[k]
        PROVE  m = k
    BY <1>2, <2>1, <2>4 DEF Sound, AnswerOK
  <2> QED
    BY <2>2, <2>3, <2>4 DEF AnswerOK
<1> QED
  BY <1>2, <1>3, <1>4, <1>5, <1>6, <1>7

\* A call gets the response in its reply queue, its own.
LEMMA CallReplySound ==
    ASSUME Types, Types', Sound, CallReply
    PROVE  Sound' /\ Returns(cli.n, cli.n)
<1> DEFINE x == cli.n
<1>1. /\ call.pc = "reply" /\ call # NoCall /\ reply[x] # 0 /\ x \in Calls
      /\ answer' = [answer EXCEPT ![x] = reply[x]] /\ call' = NoCall
      /\ UNCHANGED <<ctl, ring, name, srv, work, queue, cli, reply, ran, resets, local>>
  BY DEF CallReply, Returned, Types, NoCall
<1>2. reply[x] = x /\ ran[x] = 1 /\ \A m \in Calls : answer[m] = x => m = x
  BY <1>1 DEF Sound, ReplyOK
<1>3. answer[x] = 0 /\ x # 0 /\ x <= x
  BY <1>1, ServiceAssumption DEF Sound, AnswerOK, Calls
<1>4. Unreturned(x)
  BY <1>2, <1>3 DEF Unreturned
<1>5. Returns(x, x)
  BY <1>1, <1>2, <1>3, <1>4 DEF Returns
<1>6. /\ AnswerOK' /\ RanOK'
      /\ \A m \in Calls : answer'[m] = IF m = x THEN x ELSE answer[m]
      /\ \A k : k # x /\ Unreturned(k) => Unreturned(k)'
      /\ \A k : Asked(k) => Asked(k)'
      /\ \A k : (Taken(k)' <=> Taken(k)) /\ (Done(k)' <=> Done(k))
  BY <1>5, ReturnsAnswer
<1>7. RequestOK'
  BY <1>1, <1>6 DEF Sound, RequestOK
<1>8. ResponseOK'
  <2>1. \A n \in Calls : Done(n) => n # x
    BY <1>1 DEF Sound, ResponseOK
  <2>2. \A g \in Gens : \A n \in In(ring[g].resp) : n # x
    BY <1>1 DEF Sound, ResponseOK
  <2> HIDE DEF x
  <2> QED
    BY <1>1, <1>6, <2>1, <2>2 DEF Sound, ResponseOK
<1>9. ReplyOK'
  BY <1>1, <1>6 DEF Sound, ReplyOK
<1> QED
  BY <1>5, <1>6, <1>7, <1>8, <1>9 DEF Sound

\* A call gets the response at the head of the ring, perhaps not its own.
LEMMA CallRecvSound ==
    ASSUME Types, Types', Sound, CallRecv
    PROVE  Sound'
<1> DEFINE g == cli.chan
           r == Head(ring[g].resp)
<1>1. /\ g \in Gens /\ cli.n \in Calls /\ ring[g].resp # <<>>
      /\ ring'[g].req = ring[g].req /\ ring'[g].resp = Tail(ring[g].resp)
      /\ \A h \in Gens : h # g => ring'[h] = ring[h]
      /\ answer' = [answer EXCEPT ![cli.n] = r]
  BY AnswerEffect
<1>2. /\ call.pc = "recv" /\ call # NoCall /\ call' = NoCall
      /\ UNCHANGED <<ctl, name, srv, work, queue, cli, reply, ran, resets, local>>
  BY DEF CallRecv, Returned, NoCall
<1>3. ring[g].resp \in Seq(Calls) /\ NoDup(ring[g].resp)
  BY <1>1 DEF Types, RingRec, Sound, ResponseOK
<1>4. /\ r \in Calls /\ r \in In(ring[g].resp) /\ NoDup(ring'[g].resp)
      /\ \A n \in In(ring'[g].resp) : n \in In(ring[g].resp) /\ n # r
  BY <1>1, <1>3, TailElements
<1>5. /\ ran[r] = 1 /\ reply[r] = 0 /\ Unreturned(r) /\ ~Done(r)
      /\ \A h \in Gens : r \in In(ring[h].resp) => h = g
  BY <1>1, <1>4 DEF Sound, ResponseOK
<1>6. r <= cli.n
  <2>1. Asked(r)
    BY <1>4, <1>5 DEF Sound, RanOK
  <2> QED
    BY <1>1, <1>4, <2>1 DEF Asked, Calls
<1>7. Returns(cli.n, r)
  BY <1>1, <1>2, <1>4, <1>5, <1>6 DEF Returns
<1> HIDE DEF g, r
<1>8. /\ AnswerOK' /\ RanOK'
      /\ \A m \in Calls : answer'[m] = IF m = cli.n THEN r ELSE answer[m]
      /\ \A k : k # r /\ Unreturned(k) => Unreturned(k)'
      /\ \A k : Asked(k) => Asked(k)'
      /\ \A k : (Taken(k)' <=> Taken(k)) /\ (Done(k)' <=> Done(k))
  BY <1>7, ReturnsAnswer
<1>9. RequestOK'
  <2>1. \A h \in Gens : ring'[h].req = ring[h].req
    BY <1>1
  <2> QED
    BY <1>2, <1>8, <2>1 DEF Sound, RequestOK
<1>10. ResponseOK'
  <2>1. \A h \in Gens : \A n \in In(ring'[h].resp) : n \in In(ring[h].resp) /\ n # r
    BY <1>1, <1>4, <1>5
  <2>2. \A h \in Gens : NoDup(ring'[h].resp)
    BY <1>1, <1>4 DEF Sound, ResponseOK
  <2>3. \A n \in Calls : Done(n)' => ran'[n] = 1 /\ reply'[n] = 0 /\ Unreturned(n)'
    BY <1>2, <1>5, <1>8 DEF Sound, ResponseOK
  <2> QED
    BY <1>2, <1>8, <2>1, <2>2, <2>3 DEF Sound, ResponseOK
<1>11. ReplyOK'
  <2>1. ASSUME NEW n \in Calls, reply[n] = n
        PROVE  n # r /\ ran[n] = 1 /\ \A m \in Calls : answer[m] = n => m = n
    <3>1. n # 0
      BY ServiceAssumption DEF Calls
    <3> QED
      BY <1>5, <2>1, <3>1 DEF Sound, ReplyOK
  <2>2. \A n \in Calls : reply[n] \in {0, n}
    BY DEF Sound, ReplyOK
  <2> QED
    BY <1>2, <1>8, <2>1, <2>2 DEF ReplyOK
<1> QED
  BY <1>8, <1>9, <1>10, <1>11 DEF Sound

LEMMA SoundStep == Types /\ Types' /\ Sound /\ [Next]_vars => Sound'
<1> SUFFICES ASSUME Types, Types', Sound, [Next]_vars PROVE Sound'
  OBVIOUS
<1>1. CASE SrvStart \/ SrvOpen
  BY <1>1, StartSound
<1>2. CASE \/ ResetMessage \/ SrvStop \/ SrvCrash \/ SrvDrained \/ SrvReady \/ SrvRegister
           \/ SrvSeePeers \/ SrvJoin \/ Reap \/ SrvClear
           \/ CliStart \/ CliStop \/ CliCrash \/ CliStep
           \/ CallReplyTimeout \/ CallLock \/ CallRecvTimeout \/ UNCHANGED vars
  BY <1>2, QuietSound
<1>3. CASE RespStep
  BY <1>3, PopQueueSound, RecvRequestSound, CallbackSound, RespondSound DEF RespStep
<1>4. CASE CallPush \/ CallReply \/ CallSend \/ CallRecv
  BY <1>4, CallPushSound, CallReplySound, CallSendSound, CallRecvSound
<1>5. CASE \E b \in Nodelet : CallBegin(b)
  BY <1>5, CallBeginSound
<1> QED
  BY <1>1, <1>2, <1>3, <1>4, <1>5 DEF Next, SrvStep, CallStep

\* The invariant holds throughout.
LEMMA Invariance == Spec => []Inv
<1>1. Init => Inv
  BY InitTypes, InitSound DEF Inv
<1>2. Inv /\ [Next]_vars => Inv'
  <2> SUFFICES ASSUME Inv, [Next]_vars PROVE Inv'
    OBVIOUS
  <2>1. Types'
    BY TypesStep DEF Inv, Sound, RequestOK
  <2> QED
    BY <2>1, SoundStep DEF Inv
<1> QED
  BY <1>1, <1>2, PTL DEF Spec

-----------------------------------------------------------------------------
(* Theorems *)

\* Every variable keeps its type; no ring and no queue holds more than its
\* capacity; while the server is past the rebuild of the control plane its
\* generation has rings, and while a request is being sent the client's rings are
\* those of some generation.
THEOREM TypeCorrect == Spec => []Types
<1>1. Inv => Types
  BY DEF Inv
<1> QED
  BY <1>1, Invariance, PTL

\* However send_request and the server's threads interleave, whatever times out,
\* crashes, is dropped from a full queue or comes after its call: the callback runs
\* at most once for a call, and a response is returned by at most one call, which
\* is not older than its request.
THEOREM RunsAndAnswersOnce == Spec => []AtMostOnce
<1>1. Inv => AtMostOnce
  <2> SUFFICES ASSUME Inv PROVE AtMostOnce
    OBVIOUS
  <2>1. RanAtMostOnce
    BY DEF Inv, Sound, RanOK, RanAtMostOnce
  <2>2. ASSUME NEW m \in Calls, NEW n \in Calls
        PROVE  /\ answer[n] <= n
               /\ m # n /\ answer[m] # 0 => answer[m] # answer[n]
    <3>1. answer[n] # 0 => answer[n] <= n
      BY DEF Inv, Sound, AnswerOK
    <3>2. answer[n] <= n
      BY <3>1 DEF Calls
    <3>3. answer[m] # 0 /\ answer[m] = answer[n] => m = n
      BY DEF Inv, Sound, AnswerOK
    <3> QED
      BY <3>2, <3>3
  <2> QED
    BY <2>1, <2>2 DEF AtMostOnce, AnsweredOnce
<1> QED
  BY <1>1, Invariance, PTL

\* A call that waits on its envelope's reply queue returns the response to its own
\* request: call-level correlation, whatever calls before it left unanswered.
THEOREM FastPathAnswersItsOwn == Spec => FastPathCorrelated
<1>1. Inv /\ Inv' /\ [Next]_vars =>
        [\A n \in Calls :
           (call.pc = "reply" /\ cli.n = n /\ answer'[n] # answer[n]) => answer'[n] = n]_vars
  <2> SUFFICES ASSUME Inv, Inv', [Next]_vars, NEW n \in Calls,
                      call.pc = "reply", cli.n = n, answer'[n] # answer[n]
               PROVE  answer'[n] = n
    OBVIOUS
  <2>1. CASE CallReply
    <3>1. Returns(n, n)
      BY <2>1, CallReplySound DEF Inv
    <3>2. answer \in [Calls -> 0..NCalls]
      BY DEF Inv, Types
    <3> QED
      BY <3>1, <3>2 DEF Returns
  <2>2. CASE ~CallReply
    <3>1. ~CallRecv
      BY DEF CallRecv
    <3>2. answer' = answer
      BY <2>2, <3>1 DEF Next, SrvStep, RespStep, CliStep, CallStep, vars, history,
         SrvStart, ResetMessage, SrvStop, SrvCrash, SrvDrained, SrvOpen, SrvReady,
         SrvRegister, SrvSeePeers, Reap, SrvJoin, SrvClear, PopQueue, RecvRequest, Callback,
         Respond, CliStart, CliStop, CliCrash, CliLook, CliSwap, CliAdd, CliSlot, CliDrop,
         CallPush, CallReplyTimeout, CallLock, CallSend, CallRecvTimeout, CallBegin
    <3> QED
      BY <3>2
  <2> QED
    BY <2>1, <2>2
<1> QED
  BY <1>1, Invariance, PTL DEF Spec, FastPathCorrelated
-----------------------------------------------------------------------------
(***************************************************************************)
(* AutoPath: one path for the calls of a side that is up.                  *)
(***************************************************************************)

\* A supervisor's places, and those of an attempt
SupPlaces == {"off", "probe", "wait", "build", "establish", "active"}
Attempting == {"probe", "wait", "build", "establish"}

AutoTypes ==
    /\ alive \in [A!Sides -> BOOLEAN] /\ sup \in [A!Sides -> SupPlaces]
    /\ useShm \in [A!Sides -> BOOLEAN] /\ dp \in [A!Sides -> BOOLEAN]

\* A supervisor runs while its side is up, and moves the calls to the leg last.
SupOK ==
    \A s \in A!Sides :
        /\ alive[s] <=> sup[s] # "off"
        /\ sup[s] \in Attempting \cup {"off"} => ~useShm[s]

AutoInv == AutoTypes /\ SupOK /\ AutoOnePath

\* A step of one side's supervisor or process: the other side stays as it is.
LEMMA SideStep ==
    ASSUME AutoInv, AutoTypes', NEW s \in A!Sides,
           \A t \in A!Sides \ {s} : /\ alive'[t] = alive[t] /\ sup'[t] = sup[t]
                                    /\ useShm'[t] = useShm[t] /\ dp'[t] = dp[t],
           alive'[s] <=> sup'[s] # "off",
           sup'[s] \in Attempting \cup {"off"} => ~useShm'[s],
           alive'[s] => dp'[s] # useShm'[s],
           A!NoHalfDeadLeg'
    PROVE  AutoInv'
BY DEF AutoInv, AutoTypes, SupOK, AutoOnePath, A!OnePath

\* A step that moves neither supervisor and gives no side a leg
LEMMA QuietStep ==
    ASSUME AutoInv, UNCHANGED <<alive, sup, useShm, dp>>,
           sleg' = "up" => sleg = "up", cleg' # "none" => cleg # "none"
    PROVE  AutoInv'
BY DEF AutoInv, AutoTypes, SupOK, AutoOnePath, A!OnePath, A!NoHalfDeadLeg

\* The server's supervisor: an attempt, its end, and the way back to the socket
LEMMA ServerKeeps ==
    ASSUME AutoInv, A!Server \/ A!ServerBuildFails
    PROVE  AutoInv'
<1> USE DEF AutoInv, AutoTypes, SupOK, AutoOnePath, A!OnePath, A!NoHalfDeadLeg, A!Sides,
            SupPlaces, Attempting, A!SupStep, A!legVars, A!ServerWithdraw, A!ServerLegReset,
            A!ServerRestartPlane, A!ServerOpenPlane, A!ServerStopPlane
<1>1. CASE A!ServerNoEvidence
  BY <1>1, SideStep DEF A!ServerNoEvidence
<1>2. CASE A!ServerOccupied
  BY <1>2, SideStep DEF A!ServerOccupied
<1>3. CASE A!ServerPropose
  BY <1>3, SideStep DEF A!ServerPropose
<1>4. CASE A!ServerBuild
  BY <1>4, SideStep DEF A!ServerBuild
<1>5. CASE A!ServerEstablished
  BY <1>5, SideStep DEF A!ServerEstablished
<1>6. CASE A!ServerGiveUp
  BY <1>6, SideStep DEF A!ServerGiveUp
<1>7. CASE A!ServerLost
  BY <1>7, SideStep DEF A!ServerLost
<1>8. CASE A!ServerLegLost
  BY <1>8, SideStep DEF A!ServerLegLost
<1>9. CASE A!ServerBuildFails
  BY <1>9, SideStep DEF A!ServerBuildFails
<1> QED
  BY <1>1, <1>2, <1>3, <1>4, <1>5, <1>6, <1>7, <1>8, <1>9 DEF A!Server

\* The client's supervisor
LEMMA ClientKeeps ==
    ASSUME AutoInv, A!Client \/ A!ClientBuildFails
    PROVE  AutoInv'
<1> USE DEF AutoInv, AutoTypes, SupOK, AutoOnePath, A!OnePath, A!NoHalfDeadLeg, A!Sides,
            SupPlaces, Attempting, A!SupStep, A!legVars, A!ClientWithdraw, A!ClientLegReset,
            A!ClientRestartPlane, A!ClientOpenPlane, A!ClientStopPlane
<1>1. CASE A!ClientNoEvidence
  BY <1>1, SideStep DEF A!ClientNoEvidence
<1>2. CASE A!ClientAwait
  BY <1>2, SideStep DEF A!ClientAwait
<1>3. CASE A!ClientReady
  BY <1>3, SideStep DEF A!ClientReady
<1>4. CASE A!ClientRejected
  BY <1>4, SideStep DEF A!ClientRejected
<1>5. CASE A!ClientAwaitOver
  BY <1>5, SideStep DEF A!ClientAwaitOver
<1>6. CASE A!ClientBuild
  BY <1>6, SideStep DEF A!ClientBuild
<1>7. CASE A!ClientEstablished
  BY <1>7, SideStep DEF A!ClientEstablished
<1>8. CASE A!ClientGiveUp
  BY <1>8, SideStep DEF A!ClientGiveUp
<1>9. CASE A!ClientLost
  BY <1>9, SideStep DEF A!ClientLost
<1>10. CASE A!ClientLegLost
  BY <1>10, SideStep DEF A!ClientLegLost
<1>11. CASE A!ClientBuildFails
  BY <1>11, SideStep DEF A!ClientBuildFails
<1> QED
  BY <1>1, <1>2, <1>3, <1>4, <1>5, <1>6, <1>7, <1>8, <1>9, <1>10, <1>11 DEF A!Client

\* Processes that start, leave and crash
LEMMA ProcessKeeps ==
    ASSUME AutoInv,
           A!ServerStart \/ A!ClientStart \/ \E s \in A!Sides : A!Leave(s) \/ A!Crash(s)
    PROVE  AutoInv'
<1> USE DEF AutoInv, AutoTypes, SupOK, AutoOnePath, A!OnePath, A!NoHalfDeadLeg, A!Sides,
            SupPlaces, Attempting, A!legVars, A!ServerLegReset, A!ClientLegReset
<1>1. CASE A!ServerStart
  BY <1>1, SideStep DEF A!ServerStart, A!Start, A!ServerOpenPlane
<1>2. CASE A!ClientStart
  BY <1>2, SideStep DEF A!ClientStart, A!Start, A!ClientOpenPlane
<1>3. ASSUME NEW s \in A!Sides, A!Leave(s) PROVE AutoInv'
  BY <1>3, SideStep DEF A!Leave, A!Gone
<1>4. ASSUME NEW s \in A!Sides, A!Crash(s) PROVE AutoInv'
  BY <1>4, SideStep DEF A!Crash, A!Gone
<1> QED
  BY <1>1, <1>2, <1>3, <1>4

\* The handshake threads, the legs' own steps and the calls
LEMMA OtherAutoKeeps ==
    ASSUME AutoInv,
           \/ A!ServerHandshake \/ A!ClientEcho \/ A!ClientAnswer \/ A!ClientHandshake
           \/ A!ClientAnswerFails \/ \E s \in A!Sides : A!Age(s)
           \/ A!LegAttach \/ A!LegDrop \/ A!CallBegin \/ A!CallEnd
           \/ UNCHANGED A!vars
    PROVE  AutoInv'
<1> USE DEF A!supVars, A!legVars
<1>1. CASE \/ A!ServerHandshake \/ A!ClientEcho \/ A!ClientAnswer \/ A!ClientHandshake
           \/ A!ClientAnswerFails \/ \E s \in A!Sides : A!Age(s)
  BY <1>1, QuietStep DEF A!ServerHandshake, A!ClientEcho, A!ClientAnswer, A!ClientHandshake,
     A!ClientAnswerFails, A!Age
<1>2. CASE A!LegAttach \/ A!LegDrop
  BY <1>2, QuietStep DEF A!LegAttach, A!LegDrop
<1>3. CASE A!CallBegin \/ A!CallEnd \/ UNCHANGED A!vars
  BY <1>3, QuietStep DEF A!CallBegin, A!CallEnd, A!vars
<1> QED
  BY <1>1, <1>2, <1>3

\* Every step of the path choice keeps the invariant.
LEMMA AutoNext == AutoInv /\ [A!Next]_A!vars => AutoInv'
BY ServerKeeps, ClientKeeps, ProcessKeeps, OtherAutoKeeps DEF A!Next, A!Failing

\* Both sides are down at first.
LEMMA AutoInit == A!Init => AutoInv
BY DEF A!Init, AutoInv, AutoTypes, SupOK, SupPlaces, Attempting, AutoOnePath, A!OnePath,
       A!NoHalfDeadLeg

\* Whatever fails and whoever leaves or crashes, a side that is up has the socket's
\* data plane or the shared-memory leg, never both or none, and no leg is left behind
\* by an attempt that failed (auto_ser_cli_ipc.cc supervise, withdraw_to_socket),
\* for any number of faults and with or without a crashed server's plane.
THEOREM OnePathAtATime == A!Spec => []AutoOnePath
<1>1. AutoInv => AutoOnePath
  BY DEF AutoInv
<1> QED
  BY <1>1, AutoInit, AutoNext, PTL DEF A!Spec
=============================================================================
