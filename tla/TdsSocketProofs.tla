-------------------------- MODULE TdsSocketProofs --------------------------
(***************************************************************************)
(* The wire mutex and the cancel dialog of a libtds connection, for any    *)
(* number of threads that cancel and any number of requests.               *)
(***************************************************************************)
EXTENDS TdsSocket, SequenceTheorems, TLAPS

Packets == [kind : {"data", "cancel"}, n : 0..MaxRequests, last : BOOLEAN]
Tokens  == [kind : {"more", "done", "ack"}, n : 0..MaxRequests]

AppPoints == {"out", "write", "bulk", "flush", "read", "end", "settle"}
AppRecords == [at : AppPoints, n : 0..MaxRequests, seen : BOOLEAN, stop : BOOLEAN]
CancellerRecords ==
  [at : {"out", "locked", "busy", "set", "wake"}, left : 0..MaxCancels]
ServerRecords ==
  [alive : BOOLEAN, runs : 0..MaxRequests, left : 0..MaxTokens, part : BOOLEAN]

Shapes ==
  /\ state \in States /\ wire_mtx \in {"none", "app"} \cup Cancellers
  /\ in_cancel \in 0..2 /\ wakeup \in BOOLEAN /\ bulk_query \in BOOLEAN
  /\ stray \in BOOLEAN
  /\ app \in AppRecords /\ canceller \in [Cancellers -> CancellerRecords]
  /\ srv \in ServerRecords
  /\ up \in Seq(Packets) /\ down \in Seq(Tokens)

LEMMA ShapesType == Shapes => TypeOK
BY DEF Shapes, TypeOK, AppRecords, AppPoints, CancellerRecords, ServerRecords

LEMMA ShapesInit == Init => Shapes
<1>. SUFFICES ASSUME Init PROVE Shapes
  OBVIOUS
<1>1. /\ state \in States /\ wire_mtx \in {"none", "app"} \cup Cancellers
      /\ in_cancel \in 0..2 /\ wakeup \in BOOLEAN /\ bulk_query \in BOOLEAN
      /\ stray \in BOOLEAN
  <2>1. state \in States /\ wire_mtx \in {"none", "app"} \cup Cancellers
    BY DEF Init, States
  <2>2. in_cancel = 0 /\ wakeup = FALSE /\ bulk_query = FALSE /\ stray = FALSE
    BY DEF Init
  <2>3. in_cancel \in 0..2
    BY <2>2
  <2>4. wakeup \in BOOLEAN /\ bulk_query \in BOOLEAN /\ stray \in BOOLEAN
    BY <2>2, Zenon
  <2>5. QED BY <2>1, <2>3, <2>4
<1>2. app \in AppRecords
  <2>1. 0 \in 0..MaxRequests /\ "out" \in AppPoints
    BY SocketAssumption DEF AppPoints
  <2>2. app = [at |-> "out", n |-> 0, seen |-> FALSE, stop |-> FALSE]
    BY DEF Init
  <2>3. QED BY <2>1, <2>2 DEF AppRecords
<1>3. canceller \in [Cancellers -> CancellerRecords]
  <2>1. [at |-> "out", left |-> MaxCancels] \in CancellerRecords
    BY SocketAssumption DEF CancellerRecords
  <2>2. canceller = [c \in Cancellers |-> [at |-> "out", left |-> MaxCancels]]
    BY DEF Init
  <2>3. QED BY <2>1, <2>2
<1>4. srv \in ServerRecords
  <2>1. 0 \in 0..MaxRequests /\ 0 \in 0..MaxTokens
    BY SocketAssumption
  <2>2. srv = [alive |-> TRUE, runs |-> 0, left |-> 0, part |-> FALSE]
    BY DEF Init
  <2>3. QED BY <2>1, <2>2 DEF ServerRecords
<1>5. up \in Seq(Packets) /\ down \in Seq(Tokens)
  BY EmptySeq DEF Init
<1>. QED BY <1>1, <1>2, <1>3, <1>4, <1>5 DEF Shapes

LEMMA Queues ==
  ASSUME Shapes
  PROVE  /\ \A n \in 0..MaxRequests, last \in BOOLEAN :
              Append(up, Packet(n, last)) \in Seq(Packets)
         /\ Append(up, CancelPacket) \in Seq(Packets)
         /\ up # <<>> => Tail(up) \in Seq(Packets) /\ Head(up) \in Packets
         /\ down # <<>> => Tail(down) \in Seq(Tokens) /\ Head(down) \in Tokens
         /\ \A kind \in {"more", "done", "ack"} :
              Append(down, Token(kind)) \in Seq(Tokens)
<1>1. /\ \A n \in 0..MaxRequests, last \in BOOLEAN : Packet(n, last) \in Packets
      /\ CancelPacket \in Packets
      /\ \A kind \in {"more", "done", "ack"} : Token(kind) \in Tokens
  BY SocketAssumption
     DEF Packet, CancelPacket, Packets, Token, Tokens, Shapes, ServerRecords
<1>2. up \in Seq(Packets) /\ down \in Seq(Tokens)
  BY DEF Shapes
<1>3. up # <<>> => Tail(up) \in Seq(Packets) /\ Head(up) \in Packets
  BY <1>2, HeadTailProperties
<1>4. down # <<>> => Tail(down) \in Seq(Tokens) /\ Head(down) \in Tokens
  BY <1>2, HeadTailProperties
<1>5. QED BY <1>1, <1>2, <1>3, <1>4, AppendProperties

---------------------------------------------------------------------------
(* Records of the threads and the server.                                  *)

\* What a step may make of the application's record.
LEMMA AppMoves ==
  ASSUME app \in AppRecords,
         NEW at \in AppPoints, NEW n \in 0..MaxRequests,
         NEW seen \in BOOLEAN, NEW stop \in BOOLEAN
  PROVE  /\ [app EXCEPT !.at = at] \in AppRecords
         /\ [app EXCEPT !.seen = seen] \in AppRecords
         /\ [app EXCEPT !.at = at].at = at
         /\ [app EXCEPT !.seen = seen].at = app.at
BY DEF AppRecords

LEMMA AppCounts ==
  ASSUME app \in AppRecords, NEW at \in AppPoints, app.n < MaxRequests,
         NEW b, b = [app EXCEPT !.at = at, !.n = @ + 1]
  PROVE  b \in AppRecords /\ b.at = at
<1>1. b = [at |-> at, n |-> app.n + 1, seen |-> app.seen, stop |-> app.stop]
  BY DEF AppRecords
<1>2. app.n + 1 \in 0..MaxRequests /\ app.seen \in BOOLEAN
      /\ app.stop \in BOOLEAN
  BY SocketAssumption DEF AppRecords
<1>3. QED BY <1>1, <1>2 DEF AppRecords

LEMMA AppStarts ==
  ASSUME app \in AppRecords, NEW stop \in BOOLEAN,
         NEW b, b = [app EXCEPT !.at = "read", !.seen = FALSE, !.stop = stop]
  PROVE  b \in AppRecords /\ b.at = "read"
<1>1. b = [at |-> "read", n |-> app.n, seen |-> FALSE, stop |-> stop]
  BY DEF AppRecords
<1>2. app.n \in 0..MaxRequests /\ "read" \in AppPoints
  BY DEF AppRecords, AppPoints
<1>3. QED BY <1>1, <1>2 DEF AppRecords

\* What a step may make of the records of the cancelling threads.
LEMMA CancellerMoves ==
  ASSUME canceller \in [Cancellers -> CancellerRecords], NEW c \in Cancellers,
         NEW at \in {"out", "locked", "busy", "set", "wake"},
         NEW b, b = [canceller EXCEPT ![c].at = at]
  PROVE  /\ b \in [Cancellers -> CancellerRecords]
         /\ b[c].at = at /\ \A d \in Cancellers \ {c} : b[d] = canceller[d]
BY DEF CancellerRecords

LEMMA CancellerLeaves ==
  ASSUME canceller \in [Cancellers -> CancellerRecords], NEW c \in Cancellers,
         canceller[c].left > 0
  PROVE  /\ Leave(c) \in [Cancellers -> CancellerRecords]
         /\ Leave(c)[c].at = "out"
         /\ \A d \in Cancellers \ {c} : Leave(c)[d] = canceller[d]
<1>1. [at |-> "out", left |-> canceller[c].left - 1] \in CancellerRecords
  BY SocketAssumption DEF CancellerRecords
<1>2. QED BY <1>1 DEF Leave

\* What a step of the server makes of its record.
LEMMA ServerMoves ==
  ASSUME srv \in ServerRecords
  PROVE  /\ [srv EXCEPT !.alive = FALSE] \in ServerRecords
         /\ [srv EXCEPT !.alive = FALSE].alive = FALSE
         /\ [srv EXCEPT !.part = TRUE] \in ServerRecords
         /\ [srv EXCEPT !.part = TRUE].alive = srv.alive
         /\ \A left \in 0..MaxTokens :
              /\ [srv EXCEPT !.left = left] \in ServerRecords
              /\ [srv EXCEPT !.left = left].alive = srv.alive
BY DEF ServerRecords

LEMMA ServerRuns ==
  ASSUME srv \in ServerRecords, NEW n \in 0..MaxRequests,
         NEW left \in 0..MaxTokens, NEW b,
         \/ b = [srv EXCEPT !.runs = n, !.left = left, !.part = FALSE]
         \/ b = [srv EXCEPT !.runs = n, !.left = left]
  PROVE  b \in ServerRecords /\ b.alive = srv.alive
<1>1. PICK part \in BOOLEAN :
        b = [alive |-> srv.alive, runs |-> n, left |-> left, part |-> part]
  <2>1. CASE b = [srv EXCEPT !.runs = n, !.left = left, !.part = FALSE]
    <3>1. b = [alive |-> srv.alive, runs |-> n, left |-> left, part |-> FALSE]
      BY <2>1 DEF ServerRecords
    <3>2. QED BY <3>1
  <2>2. CASE b = [srv EXCEPT !.runs = n, !.left = left]
    <3>1. b = [alive |-> srv.alive, runs |-> n, left |-> left, part |-> srv.part]
      BY <2>2 DEF ServerRecords
    <3>2. srv.part \in BOOLEAN
      BY DEF ServerRecords
    <3>3. QED BY <3>1, <3>2
  <2>3. QED BY <2>1, <2>2
<1>2. srv.alive \in BOOLEAN
  BY DEF ServerRecords
<1>3. QED BY <1>1, <1>2 DEF ServerRecords

---------------------------------------------------------------------------
(* What is on the wire.                                                    *)

Holds(seq, kind) == \E i \in DOMAIN seq : seq[i].kind = kind

LEMMA HoldsAppend ==
  ASSUME NEW S, NEW seq \in Seq(S), NEW x \in S, NEW kind,
         Holds(seq, kind) \/ x.kind = kind
  PROVE  Holds(Append(seq, x), kind)
<1>1. /\ Len(Append(seq, x)) = Len(seq) + 1 /\ Len(seq) \in Nat
      /\ \A i \in 1..Len(seq) : Append(seq, x)[i] = seq[i]
      /\ Append(seq, x)[Len(seq) + 1] = x
      /\ DOMAIN Append(seq, x) = 1..Len(seq) + 1 /\ DOMAIN seq = 1..Len(seq)
  BY AppendProperties, LenProperties
<1>2. QED BY <1>1 DEF Holds

LEMMA HoldsTail ==
  ASSUME NEW S, NEW seq \in Seq(S), seq # <<>>, NEW kind,
         Head(seq).kind # kind, Holds(seq, kind)
  PROVE  Holds(Tail(seq), kind)
<1>1. PICK i \in 1..Len(seq) : seq[i].kind = kind
  BY LenProperties DEF Holds
<1>2. /\ Head(seq) = seq[1] /\ Tail(seq) \in Seq(S)
      /\ Len(Tail(seq)) = Len(seq) - 1 /\ Len(seq) \in Nat
      /\ \A j \in 1..Len(Tail(seq)) : Tail(seq)[j] = seq[j + 1]
  BY HeadTailProperties, LenProperties
<1>3. i # 1
  BY <1>1, <1>2
<1>4. /\ i - 1 \in 1..Len(Tail(seq)) /\ Tail(seq)[i - 1] = seq[i]
  BY <1>1, <1>2, <1>3
<1>5. DOMAIN Tail(seq) = 1..Len(Tail(seq))
  BY <1>2, LenProperties
<1>6. QED BY <1>1, <1>4, <1>5 DEF Holds

LEMMA Answered ==
  CancelAnswered <=>
    (in_cancel = 2 /\ srv.alive =>
       app.at = "end" \/ Holds(up, "cancel") \/ Holds(down, "ack"))
BY DEF CancelAnswered, Holds

---------------------------------------------------------------------------
(* The mutex.                                                              *)

\* A thread inside tds_send_cancel still has a call to make.
Calling == \A c \in Cancellers : canceller[c].at # "out" => canceller[c].left > 0

SocketInv == Shapes /\ Calling /\ WireLocked /\ CancelAnswered

Inside == {"write", "bulk", "read", "end"}

LEMMA WireKept ==
  ASSUME WireLocked, UNCHANGED <<state, wire_mtx, canceller>>,
         app.at # "settle", app.at \in Inside <=> app'.at \in Inside
  PROVE  WireLocked'
BY DEF WireLocked, Inside

LEMMA WireReleased ==
  ASSUME WireLocked, UNCHANGED canceller, app.at \in Inside, wire_mtx' = "none",
         app'.at \notin Inside,
         state' \notin {"READING", "WRITING"} \/ app'.at = "settle"
  PROVE  WireLocked'
BY SocketAssumption DEF WireLocked, Inside

LEMMA WireAcquired ==
  ASSUME WireLocked, UNCHANGED canceller, wire_mtx = "none", wire_mtx' = "app",
         app'.at \in Inside, state' \in {"READING", "WRITING"}
  PROVE  WireLocked'
BY SocketAssumption DEF WireLocked, Inside

\* What the application and the server leave to the other threads.
LEMMA CallingKept ==
  ASSUME Calling, UNCHANGED canceller
  PROVE  Calling'
BY DEF Calling

---------------------------------------------------------------------------
(* The steps of the application that sends.                                *)

SendingStep ==
  \/ \E bulk \in BOOLEAN : Submit(bulk)
  \/ WritePacket \/ QueryFlush \/ FlushPacket
  \/ BulkStart \/ BulkRecord \/ BulkDone

\* What a step that sends does: it moves the application, and packets it may
\* add to the wire do not take anything from it.
LEMMA SendingSteps ==
  ASSUME SocketInv, SendingStep
  PROVE  SocketInv'
<1>0. /\ Shapes /\ app \in AppRecords /\ app.n \in 0..MaxRequests
      /\ app.at \in AppPoints /\ MaxRequests \in Nat
      /\ Calling /\ WireLocked /\ CancelAnswered
  BY SocketAssumption DEF SocketInv, Shapes, AppRecords
<1>1. /\ UNCHANGED <<canceller, srv, down, in_cancel, wakeup, stray>>
      /\ up' = up \/ \E n \in 0..MaxRequests, last \in BOOLEAN :
                      up' = Append(up, Packet(n, last))
      /\ app.at # "end"
  <2>1. CASE \E bulk \in BOOLEAN : Submit(bulk)
    BY <2>1 DEF Submit, cancel, net
  <2>2. CASE WritePacket
    BY <1>0, <2>2 DEF WritePacket, cancel
  <2>3. CASE QueryFlush \/ BulkStart
    BY <2>3 DEF QueryFlush, BulkStart, cancel, net
  <2>4. CASE FlushPacket
    BY <1>0, <2>4 DEF FlushPacket, cancel
  <2>5. CASE BulkRecord
    BY <1>0, <2>5 DEF BulkRecord, cancel
  <2>6. CASE BulkDone
    <3>1. app.n + 1 \in 0..MaxRequests
      BY <1>0, <2>6 DEF BulkDone
    <3>2. QED BY <2>6, <3>1 DEF BulkDone, cancel
  <2>7. QED BY <2>1, <2>2, <2>3, <2>4, <2>5, <2>6 DEF SendingStep
<1>. DEFINE Moved ==
       /\ app' \in AppRecords /\ bulk_query' \in BOOLEAN /\ state' \in States
       /\ wire_mtx' \in {"none", "app"} \cup Cancellers /\ WireLocked'
<1>2. Moved
  <2>1. ASSUME NEW bulk \in BOOLEAN, Submit(bulk) PROVE Moved
    <3>1. app' \in AppRecords /\ app'.at = "write"
      BY <1>0, <2>1, AppCounts DEF Submit, AppPoints
    <3>2. /\ bulk_query' \in BOOLEAN /\ state' = "WRITING"
          /\ wire_mtx = "none" /\ wire_mtx' = "app"
      BY <2>1 DEF Submit, Acquire
    <3>3. WireLocked'
      BY <1>0, <1>1, <3>1, <3>2, WireAcquired DEF Inside
    <3>4. QED BY <3>1, <3>2, <3>3 DEF States
  <2>2. CASE WritePacket
    <3>1. UNCHANGED <<wire, app, bulk_query>> /\ app.at = "write"
      BY <2>2 DEF WritePacket
    <3>2. WireLocked'
      BY <1>0, <1>1, <3>1, WireKept DEF wire
    <3>3. QED BY <1>0, <3>1, <3>2 DEF Shapes, wire
  <2>3. CASE QueryFlush
    <3>1. /\ app.at = "write" /\ app' = [app EXCEPT !.at = "flush"]
          /\ UNCHANGED bulk_query /\ state' = "PENDING" /\ wire_mtx' = "none"
      BY <2>3 DEF QueryFlush, Release
    <3>2. app' \in AppRecords /\ app'.at = "flush"
      BY <1>0, <3>1 DEF AppRecords, AppPoints
    <3>3. WireLocked'
      BY <1>0, <1>1, <3>1, <3>2, WireReleased DEF Inside
    <3>4. QED BY <1>0, <3>1, <3>2, <3>3 DEF Shapes, States
  <2>4. CASE FlushPacket
    <3>1. /\ app.at = "flush" /\ app' = [app EXCEPT !.at = "out"]
          /\ UNCHANGED <<wire, bulk_query>>
      BY <2>4 DEF FlushPacket
    <3>2. app' \in AppRecords /\ app'.at = "out"
      BY <1>0, <3>1 DEF AppRecords, AppPoints
    <3>3. WireLocked'
      BY <1>0, <1>1, <3>1, <3>2, WireKept DEF wire, Inside
    <3>4. QED BY <1>0, <3>1, <3>2, <3>3 DEF Shapes, wire
  <2>5. CASE BulkStart
    <3>1. /\ app.at = "out" /\ app' = [app EXCEPT !.at = "bulk"]
          /\ UNCHANGED bulk_query /\ state' = "WRITING"
          /\ wire_mtx = "none" /\ wire_mtx' = "app"
      BY <2>5 DEF BulkStart, Acquire
    <3>2. app' \in AppRecords /\ app'.at = "bulk"
      BY <1>0, <3>1 DEF AppRecords, AppPoints
    <3>3. WireLocked'
      BY <1>0, <1>1, <3>1, <3>2, WireAcquired DEF Inside
    <3>4. QED BY <1>0, <3>1, <3>2, <3>3 DEF Shapes, States
  <2>6. CASE BulkRecord
    <3>1. /\ app.at = "bulk" /\ app' = [app EXCEPT !.at = "out"]
          /\ UNCHANGED bulk_query /\ state' = "SENDING" /\ wire_mtx' = "none"
      BY <2>6 DEF BulkRecord, Release
    <3>2. app' \in AppRecords /\ app'.at = "out"
      BY <1>0, <3>1 DEF AppRecords, AppPoints
    <3>3. WireLocked'
      BY <1>0, <1>1, <3>1, <3>2, WireReleased DEF Inside
    <3>4. QED BY <1>0, <3>1, <3>2, <3>3 DEF Shapes, States
  <2>7. CASE BulkDone
    <3>1. /\ app.at = "bulk" /\ app.n < MaxRequests /\ UNCHANGED bulk_query
          /\ app' = [app EXCEPT !.at = "out", !.n = @ + 1]
          /\ state' = "PENDING" /\ wire_mtx' = "none"
      BY <2>7 DEF BulkDone, Release
    <3>2. app' \in AppRecords /\ app'.at = "out"
      BY <1>0, <3>1, AppCounts DEF AppPoints
    <3>3. WireLocked'
      BY <1>0, <1>1, <3>1, <3>2, WireReleased DEF Inside
    <3>4. QED BY <1>0, <3>1, <3>2, <3>3 DEF Shapes, States
  <2>8. QED BY <2>1, <2>2, <2>3, <2>4, <2>5, <2>6, <2>7 DEF SendingStep
<1>3. up' \in Seq(Packets)
  BY <1>0, <1>1, Queues DEF Shapes
<1>4. Shapes'
  BY <1>0, <1>1, <1>2, <1>3 DEF Shapes
<1>5. CancelAnswered'
  <2>1. Holds(up, "cancel") => Holds(up', "cancel")
    <3>1. /\ up \in Seq(Packets)
          /\ \A n \in 0..MaxRequests, last \in BOOLEAN :
               Packet(n, last) \in Packets
      BY <1>0 DEF Shapes, Packet, Packets
    <3>2. QED BY <1>1, <3>1, HoldsAppend
  <2>2. SUFFICES ASSUME in_cancel' = 2, srv'.alive
                 PROVE  Holds(up, "cancel") \/ Holds(down', "ack")
    BY <2>1 DEF CancelAnswered, Holds
  <2>3. QED BY <1>0, <1>1, <2>2, Answered
<1>6. QED BY <1>0, <1>1, <1>2, <1>4, <1>5, CallingKept DEF SocketInv

---------------------------------------------------------------------------
(* The steps of the application that reads.                                *)

LEMMA ProcessTokensStep ==
  ASSUME SocketInv, NEW stop \in BOOLEAN, ProcessTokens(stop)
  PROVE  SocketInv'
<1>0. Shapes /\ app \in AppRecords /\ Calling /\ WireLocked /\ CancelAnswered
  BY DEF SocketInv, Shapes
<1>1. /\ app.at = "out" /\ state' = "READING"
      /\ wire_mtx = "none" /\ wire_mtx' = "app"
      /\ app' = [app EXCEPT !.at = "read", !.seen = FALSE, !.stop = stop]
      /\ UNCHANGED <<in_cancel, wakeup, bulk_query, canceller, up, down, srv, stray>>
  BY DEF ProcessTokens, Acquire, cancel, net
<1>2. app' \in AppRecords /\ app'.at = "read"
  BY <1>0, <1>1, AppStarts
<1>3. WireLocked'
  BY <1>0, <1>1, <1>2, WireAcquired DEF Inside
<1>4. Shapes'
  BY <1>0, <1>1, <1>2 DEF Shapes, States
<1>5. CancelAnswered'
  BY <1>0, <1>1 DEF CancelAnswered
<1>6. QED BY <1>0, <1>1, <1>3, <1>4, <1>5, CallingKept DEF SocketInv

LEMMA ReadTokenStep ==
  ASSUME SocketInv, NEW cancels \in BOOLEAN, ReadToken(cancels)
  PROVE  SocketInv'
<1>0. /\ Shapes /\ app \in AppRecords /\ app.seen \in BOOLEAN
      /\ Calling /\ WireLocked /\ CancelAnswered
  BY DEF SocketInv, Shapes, AppRecords
<1>1. /\ app.at = "read" /\ down # <<>> /\ Head(down).kind = "more"
      /\ down' = Tail(down)
      /\ in_cancel' = IF cancels /\ in_cancel = 0 THEN 1 ELSE in_cancel
      /\ wakeup' = (wakeup \/ cancels)
      /\ UNCHANGED <<bulk_query, canceller, up, srv, stray>>
  BY DEF ReadToken
<1>2. \/ /\ state' = "PENDING" /\ wire_mtx' = "none"
         /\ app' = [app EXCEPT !.at = "out"]
      \/ /\ app' = [app EXCEPT !.seen = app.seen \/ in_cancel' # 0]
         /\ UNCHANGED <<state, wire_mtx>>
  BY DEF ReadToken, Release, wire
<1>3. app' \in AppRecords /\ WireLocked'
  <2>1. CASE /\ state' = "PENDING" /\ wire_mtx' = "none"
             /\ app' = [app EXCEPT !.at = "out"]
    <3>1. app' \in AppRecords /\ app'.at = "out"
      BY <1>0, <2>1 DEF AppRecords, AppPoints
    <3>2. QED BY <1>0, <1>1, <2>1, <3>1, WireReleased DEF Inside
  <2>2. CASE /\ app' = [app EXCEPT !.seen = app.seen \/ in_cancel' # 0]
             /\ UNCHANGED <<state, wire_mtx>>
    <3>1. PICK seen \in BOOLEAN : app' = [app EXCEPT !.seen = seen]
      BY <2>2
    <3>2. app' \in AppRecords /\ app'.at = "read"
      BY <1>0, <1>1, <3>1 DEF AppRecords
    <3>3. QED BY <1>0, <1>1, <2>2, <3>2, WireKept DEF Inside
  <2>3. QED BY <1>2, <2>1, <2>2
<1>4. down' \in Seq(Tokens) /\ in_cancel' \in 0..2
  BY <1>0, <1>1, Queues DEF Shapes
<1>5. wakeup' \in BOOLEAN
  BY <1>1
<1>6. state' \in States /\ wire_mtx' \in {"none", "app"} \cup Cancellers
  BY <1>0, <1>2 DEF Shapes, States
<1>7. Shapes'
  BY <1>0, <1>1, <1>3, <1>4, <1>5, <1>6 DEF Shapes
<1>8. CancelAnswered'
  <2>1. SUFFICES ASSUME in_cancel' = 2, srv'.alive
                 PROVE  Holds(up', "cancel") \/ Holds(down', "ack")
    BY DEF CancelAnswered, Holds
  <2>2. in_cancel = 2 /\ srv.alive
    BY <1>1, <2>1
  <2>3. CASE Holds(up, "cancel")
    BY <1>1, <2>3
  <2>4. CASE Holds(down, "ack")
    <3>1. down \in Seq(Tokens) /\ Head(down).kind # "ack"
      BY <1>0, <1>1 DEF Shapes
    <3>2. QED BY <1>1, <2>4, <3>1, HoldsTail
  <2>5. QED BY <1>0, <1>1, <2>2, <2>3, <2>4, Answered
<1>9. QED BY <1>0, <1>1, <1>3, <1>7, <1>8, CallingKept DEF SocketInv

LEMMA ReadDoneStep ==
  ASSUME SocketInv, ReadDone
  PROVE  SocketInv'
<1>0. Shapes /\ app \in AppRecords /\ Calling /\ WireLocked /\ CancelAnswered
  BY DEF SocketInv, Shapes
<1>1. /\ app.at = "read" /\ down # <<>> /\ down' = Tail(down)
      /\ app' = IF Head(down).kind = "ack" \/ in_cancel = 0
                THEN [app EXCEPT !.at = "end"]
                ELSE [app EXCEPT !.seen = TRUE]
      /\ UNCHANGED <<state, wire_mtx, in_cancel, wakeup, bulk_query,
                     canceller, up, srv, stray>>
  BY DEF ReadDone, wire, cancel
<1>2. app' \in AppRecords /\ app'.at \in {"read", "end"}
  BY <1>0, <1>1 DEF AppRecords, AppPoints
<1>3. WireLocked'
  BY <1>0, <1>1, <1>2, WireKept DEF Inside
<1>4. Shapes'
  BY <1>0, <1>1, <1>2, Queues DEF Shapes
<1>5. CancelAnswered'
  <2>1. SUFFICES ASSUME in_cancel = 2, srv.alive, app'.at # "end"
                 PROVE  Holds(up', "cancel") \/ Holds(down', "ack")
    BY <1>1 DEF CancelAnswered, Holds
  <2>2. Head(down).kind # "ack"
    BY <1>0, <1>1, <2>1 DEF AppRecords
  <2>3. CASE Holds(up, "cancel")
    BY <1>1, <2>3
  <2>4. CASE Holds(down, "ack")
    BY <1>0, <1>1, <2>2, <2>4, HoldsTail DEF Shapes
  <2>5. QED BY <1>0, <1>1, <2>1, <2>3, <2>4, Answered
<1>6. QED BY <1>0, <1>1, <1>3, <1>4, <1>5, CallingKept DEF SocketInv

LEMMA EndResponseStep ==
  ASSUME SocketInv, EndResponse
  PROVE  SocketInv'
<1>0. Shapes /\ app \in AppRecords /\ Calling /\ WireLocked
  BY DEF SocketInv, Shapes
<1>1. /\ app.at = "end" /\ in_cancel' = 0 /\ wire_mtx' = "none"
      /\ app' = [app EXCEPT !.at = "settle"]
      /\ UNCHANGED <<state, wakeup, bulk_query, canceller, up, down, srv, stray>>
  BY DEF EndResponse, net
<1>2. app' \in AppRecords /\ app'.at = "settle"
  BY <1>0, <1>1 DEF AppRecords, AppPoints
<1>3. WireLocked'
  BY <1>0, <1>1, <1>2, WireReleased DEF Inside
<1>4. Shapes'
  BY <1>0, <1>1, <1>2 DEF Shapes
<1>5. CancelAnswered'
  BY <1>1 DEF CancelAnswered
<1>6. QED BY <1>0, <1>1, <1>3, <1>4, <1>5, CallingKept DEF SocketInv

LEMMA SettleStateStep ==
  ASSUME SocketInv, SettleState
  PROVE  SocketInv'
<1>0. Shapes /\ app \in AppRecords /\ Calling /\ WireLocked /\ CancelAnswered
  BY DEF SocketInv, Shapes
<1>1. /\ app.at = "settle" /\ state' \in {"SENDING", "IDLE"}
      /\ bulk_query' = FALSE /\ app' = [app EXCEPT !.at = "out"]
      /\ UNCHANGED <<wire_mtx, in_cancel, wakeup, canceller, up, down, srv, stray>>
  BY DEF SettleState, cancel, net
<1>2. app' \in AppRecords /\ app'.at = "out"
  BY <1>0, <1>1 DEF AppRecords, AppPoints
<1>3. WireLocked'
  BY <1>0, <1>1, <1>2 DEF WireLocked
<1>4. Shapes'
  <2>1. bulk_query' \in BOOLEAN
    BY <1>1
  <2>2. QED BY <1>0, <1>1, <1>2, <2>1 DEF Shapes, States
<1>5. CancelAnswered'
  BY <1>0, <1>1 DEF CancelAnswered
<1>6. QED BY <1>0, <1>1, <1>3, <1>4, <1>5, CallingKept DEF SocketInv

LEMMA NoticeWakeupStep ==
  ASSUME SocketInv, NoticeWakeup
  PROVE  SocketInv'
<1>0. Shapes /\ Calling /\ WireLocked /\ CancelAnswered
  BY DEF SocketInv
<1>1. /\ app.at = "read" /\ wakeup' = FALSE
      /\ \/ in_cancel = 1 /\ up' = Append(up, CancelPacket) /\ in_cancel' = 2
         \/ UNCHANGED <<up, in_cancel>>
      /\ UNCHANGED <<state, wire_mtx, bulk_query, app, canceller, down, srv, stray>>
  BY DEF NoticeWakeup, wire
<1>2. WireLocked'
  BY <1>0, <1>1, WireKept
<1>3. wakeup' \in BOOLEAN /\ in_cancel' \in 0..2 /\ up' \in Seq(Packets)
  <2>1. wakeup' \in BOOLEAN
    BY <1>1
  <2>2. in_cancel' \in 0..2
    BY <1>0, <1>1 DEF Shapes
  <2>3. up' \in Seq(Packets)
    <3>1. up \in Seq(Packets) /\ Append(up, CancelPacket) \in Seq(Packets)
      BY <1>0, Queues DEF Shapes
    <3>2. QED BY <1>1, <3>1
  <2>4. QED BY <2>1, <2>2, <2>3
<1>4. Shapes'
  BY <1>0, <1>1, <1>3 DEF Shapes
<1>5. CancelAnswered'
  <2>1. CASE up' = Append(up, CancelPacket)
    <3>1. up \in Seq(Packets) /\ CancelPacket.kind = "cancel"
          /\ CancelPacket \in Packets
      BY <1>0, SocketAssumption DEF Shapes, CancelPacket, Packets
    <3>2. Holds(up', "cancel")
      BY <2>1, <3>1, HoldsAppend
    <3>3. QED BY <3>2 DEF CancelAnswered, Holds
  <2>2. CASE UNCHANGED <<up, in_cancel>>
    BY <1>0, <1>1, <2>2 DEF CancelAnswered
  <2>3. QED BY <1>1, <2>1, <2>2
<1>6. QED BY <1>0, <1>1, <1>2, <1>4, <1>5, CallingKept DEF SocketInv

LEMMA CancelOnTimeoutStep ==
  ASSUME SocketInv, CancelOnTimeout
  PROVE  SocketInv'
<1>0. Shapes /\ Calling /\ WireLocked /\ CancelAnswered
  BY DEF SocketInv
<1>1. /\ app.at \in {"read", "write", "bulk"}
      /\ in_cancel' = IF in_cancel = 0 THEN 1 ELSE in_cancel
      /\ wakeup' = TRUE
      /\ UNCHANGED <<state, wire_mtx, bulk_query, app, canceller, up, down, srv, stray>>
  BY DEF CancelOnTimeout, wire, net
<1>2. WireLocked'
  BY <1>0, <1>1, WireKept
<1>3. wakeup' \in BOOLEAN
  BY <1>1
<1>4. Shapes'
  BY <1>0, <1>1, <1>3 DEF Shapes
<1>5. CancelAnswered'
  BY <1>0, <1>1 DEF CancelAnswered
<1>6. QED BY <1>0, <1>1, <1>2, <1>4, <1>5, CallingKept DEF SocketInv

LEMMA CancelBetweenStep ==
  ASSUME SocketInv, CancelBetween
  PROVE  SocketInv'
<1>0. Shapes /\ Calling /\ WireLocked
  BY DEF SocketInv
<1>1. /\ app.at = "out" /\ up' = Append(up, CancelPacket) /\ in_cancel' = 2
      /\ stray' = (stray \/ state = "SENDING")
      /\ UNCHANGED <<state, wire_mtx, wakeup, bulk_query, app, canceller, down, srv>>
  BY DEF CancelBetween, wire
<1>2. WireLocked'
  BY <1>0, <1>1, WireKept
<1>3. stray' \in BOOLEAN
  BY <1>1
<1>4. Shapes'
  BY <1>0, <1>1, <1>3, Queues DEF Shapes
<1>5. CancelAnswered'
  <2>1. up \in Seq(Packets) /\ CancelPacket.kind = "cancel"
        /\ CancelPacket \in Packets
    BY <1>0, SocketAssumption DEF Shapes, CancelPacket, Packets
  <2>2. Holds(up', "cancel")
    BY <1>1, <2>1, HoldsAppend
  <2>3. QED BY <2>2 DEF CancelAnswered, Holds
<1>6. QED BY <1>0, <1>1, <1>2, <1>4, <1>5, CallingKept DEF SocketInv

LEMMA ConnectionCloseStep ==
  ASSUME SocketInv, ConnectionClose
  PROVE  SocketInv'
<1>0. Shapes /\ app \in AppRecords /\ srv \in ServerRecords /\ Calling /\ WireLocked
  BY DEF SocketInv, Shapes
<1>1. /\ app.at \in {"read", "write", "bulk"}
      /\ state' = "DEAD" /\ wire_mtx' = "none"
      /\ app' = [app EXCEPT !.at = "out"] /\ srv' = [srv EXCEPT !.alive = FALSE]
      /\ up' = <<>> /\ down' = <<>>
      /\ UNCHANGED <<in_cancel, wakeup, bulk_query, canceller, stray>>
  BY DEF ConnectionClose, cancel
<1>2. /\ app' \in AppRecords /\ app'.at = "out"
      /\ srv' \in ServerRecords /\ srv'.alive = FALSE
  BY <1>0, <1>1 DEF AppRecords, AppPoints, ServerRecords
<1>3. WireLocked'
  BY <1>0, <1>1, <1>2, WireReleased DEF Inside
<1>4. up' \in Seq(Packets) /\ down' \in Seq(Tokens)
  BY <1>1, EmptySeq
<1>5. Shapes'
  BY <1>0, <1>1, <1>2, <1>4 DEF Shapes, States
<1>6. CancelAnswered'
  BY <1>2 DEF CancelAnswered
<1>7. QED BY <1>0, <1>1, <1>3, <1>5, <1>6, CallingKept DEF SocketInv

---------------------------------------------------------------------------
(* The steps of the other threads.                                         *)

\* A step that moves thread c, and takes the mutex for it or gives it back,
\* keeps the mutex where the threads are.
LEMMA WireOfOthers ==
  ASSUME WireLocked, NEW c \in Cancellers, UNCHANGED <<state, app>>,
         \A d \in Cancellers \ {c} : canceller'[d] = canceller[d],
         \/ /\ UNCHANGED wire_mtx
            /\ canceller[c].at # "locked" /\ canceller'[c].at # "locked"
         \/ /\ wire_mtx = "none" /\ wire_mtx' = c
            /\ canceller'[c].at = "locked"
         \/ /\ canceller[c].at = "locked" /\ wire_mtx' = "none"
            /\ canceller'[c].at # "locked"
  PROVE  WireLocked'
<1>1. /\ c # "app" /\ c # "none" /\ "app" \notin Cancellers
      /\ "none" \notin Cancellers
  BY SocketAssumption
<1>2. \A d \in Cancellers : wire_mtx' = d <=> canceller'[d].at = "locked"
  BY <1>1 DEF WireLocked
<1>3. wire_mtx' = "app" <=> wire_mtx = "app"
  BY <1>1 DEF WireLocked
<1>4. QED BY <1>2, <1>3 DEF WireLocked

LEMMA CallingMoved ==
  ASSUME Calling, NEW c \in Cancellers,
         \A d \in Cancellers \ {c} : canceller'[d] = canceller[d],
         \/ canceller'[c].at = "out"
         \/ canceller'[c].left = canceller[c].left /\ canceller[c].left > 0
  PROVE  Calling'
BY DEF Calling

LEMMA OtherSteps ==
  ASSUME SocketInv, NEW c \in Cancellers, SendCancel(c) \/ Other(c)
  PROVE  SocketInv'
<1>0. /\ Shapes /\ canceller \in [Cancellers -> CancellerRecords]
      /\ Calling /\ WireLocked /\ CancelAnswered
  BY DEF SocketInv, Shapes
<1>1. CASE SendCancel(c)
  <2>1. /\ canceller[c].at = "out" /\ canceller[c].left > 0
        /\ UNCHANGED <<state, in_cancel, wakeup, bulk_query, app, up, down,
                       srv, stray>>
    BY <1>1 DEF SendCancel, cancel, net
  <2>2. PICK at \in {"locked", "busy"} :
          /\ canceller' = [canceller EXCEPT ![c].at = at]
          /\ IF at = "locked" THEN wire_mtx = "none" /\ wire_mtx' = c
                              ELSE UNCHANGED wire_mtx
    BY <1>1 DEF SendCancel
  <2>3. /\ canceller' \in [Cancellers -> CancellerRecords]
        /\ canceller'[c].at = at
        /\ \A d \in Cancellers \ {c} : canceller'[d] = canceller[d]
    BY <1>0, <2>2, CancellerMoves
  <2>4. canceller'[c].left = canceller[c].left
    BY <1>0, <2>2 DEF CancellerRecords
  <2>5. WireLocked'
    BY <1>0, <2>1, <2>2, <2>3, WireOfOthers
  <2>6. Calling'
    BY <1>0, <2>1, <2>3, <2>4, CallingMoved
  <2>7. Shapes'
    BY <1>0, <2>1, <2>2, <2>3 DEF Shapes
  <2>8. CancelAnswered'
    BY <1>0, <2>1 DEF CancelAnswered
  <2>9. QED BY <2>5, <2>6, <2>7, <2>8 DEF SocketInv
<1>2. CASE PutCancel(c)
  <2>1. /\ canceller[c].at = "locked" /\ wire_mtx' = "none"
        /\ canceller' = Leave(c)
        /\ \/ UNCHANGED <<in_cancel, up, stray>>
           \/ in_cancel' = 2 /\ up' = Append(up, CancelPacket) /\ stray' = TRUE
        /\ UNCHANGED <<state, wakeup, bulk_query, app, down, srv>>
    BY <1>2 DEF PutCancel
  <2>2. /\ canceller' \in [Cancellers -> CancellerRecords]
        /\ canceller'[c].at = "out"
        /\ \A d \in Cancellers \ {c} : canceller'[d] = canceller[d]
    <3>1. canceller[c].left > 0
      BY <1>0, <2>1 DEF Calling
    <3>2. QED BY <1>0, <2>1, <3>1, CancellerLeaves
  <2>3. WireLocked'
    BY <1>0, <2>1, <2>2, WireOfOthers
  <2>4. Calling'
    BY <1>0, <2>2, CallingMoved
  <2>5. up \in Seq(Packets) /\ CancelPacket \in Packets
        /\ CancelPacket.kind = "cancel"
    BY <1>0, SocketAssumption DEF Shapes, CancelPacket, Packets
  <2>6. in_cancel' \in 0..2 /\ up' \in Seq(Packets) /\ stray' \in BOOLEAN
    <3>1. CASE UNCHANGED <<in_cancel, up, stray>>
      BY <1>0, <3>1 DEF Shapes
    <3>2. CASE in_cancel' = 2 /\ up' = Append(up, CancelPacket) /\ stray' = TRUE
      <4>1. stray' \in BOOLEAN
        BY <3>2
      <4>2. in_cancel' \in 0..2
        BY <3>2
      <4>3. up' \in Seq(Packets)
        BY <1>0, <3>2, Queues
      <4>4. QED BY <4>1, <4>2, <4>3
    <3>3. QED BY <2>1, <3>1, <3>2
  <2>7. Shapes'
    BY <1>0, <2>1, <2>2, <2>6 DEF Shapes
  <2>8. CancelAnswered'
    <3>1. CASE UNCHANGED <<in_cancel, up, stray>>
      BY <1>0, <2>1, <3>1 DEF CancelAnswered
    <3>2. CASE up' = Append(up, CancelPacket)
      <4>1. Holds(up', "cancel")
        BY <2>5, <3>2, HoldsAppend
      <4>2. QED BY <4>1 DEF CancelAnswered, Holds
    <3>3. QED BY <2>1, <3>1, <3>2
  <2>9. QED BY <2>3, <2>4, <2>7, <2>8 DEF SocketInv
<1>3. CASE TestCancel(c)
  <2>1. /\ canceller[c].at = "busy"
        /\ UNCHANGED <<state, wire_mtx, in_cancel, wakeup, bulk_query, app,
                       up, down, srv, stray>>
    BY <1>3 DEF TestCancel, wire, cancel, net
  <2>2. PICK at \in {"set", "wake"} :
          canceller' = [canceller EXCEPT ![c].at = at]
    BY <1>3 DEF TestCancel
  <2>3. /\ canceller' \in [Cancellers -> CancellerRecords]
        /\ canceller'[c].at = at
        /\ \A d \in Cancellers \ {c} : canceller'[d] = canceller[d]
    BY <1>0, <2>2, CancellerMoves
  <2>4. canceller'[c].left = canceller[c].left /\ canceller[c].left > 0
    BY <1>0, <2>1, <2>2 DEF CancellerRecords, Calling
  <2>5. WireLocked'
    BY <1>0, <2>1, <2>3, WireOfOthers
  <2>6. Calling'
    BY <1>0, <2>3, <2>4, CallingMoved
  <2>7. Shapes'
    BY <1>0, <2>1, <2>3 DEF Shapes
  <2>8. CancelAnswered'
    BY <1>0, <2>1 DEF CancelAnswered
  <2>9. QED BY <2>5, <2>6, <2>7, <2>8 DEF SocketInv
<1>4. CASE SetCancel(c)
  <2>1. /\ canceller[c].at = "set" /\ in_cancel' = 1 /\ stray' = TRUE
        /\ canceller' = [canceller EXCEPT ![c].at = "wake"]
        /\ UNCHANGED <<state, wire_mtx, wakeup, bulk_query, app, up, down, srv>>
    BY <1>4 DEF SetCancel, wire, net
  <2>2. /\ canceller' \in [Cancellers -> CancellerRecords]
        /\ canceller'[c].at = "wake"
        /\ \A d \in Cancellers \ {c} : canceller'[d] = canceller[d]
    BY <1>0, <2>1, CancellerMoves
  <2>3. canceller'[c].left = canceller[c].left /\ canceller[c].left > 0
    BY <1>0, <2>1 DEF CancellerRecords, Calling
  <2>4. WireLocked'
    BY <1>0, <2>1, <2>2, WireOfOthers
  <2>5. Calling'
    BY <1>0, <2>2, <2>3, CallingMoved
  <2>6. stray' \in BOOLEAN
    BY <2>1
  <2>7. in_cancel' \in 0..2
    BY <2>1
  <2>8. Shapes'
    BY <1>0, <2>1, <2>2, <2>6, <2>7 DEF Shapes
  <2>9. CancelAnswered'
    BY <2>1 DEF CancelAnswered
  <2>10. QED BY <2>4, <2>5, <2>8, <2>9 DEF SocketInv
<1>5. CASE WakeReader(c)
  <2>1. /\ canceller[c].at = "wake" /\ wakeup' = TRUE /\ canceller' = Leave(c)
        /\ UNCHANGED <<state, wire_mtx, in_cancel, bulk_query, app, up, down,
                       srv, stray>>
    BY <1>5 DEF WakeReader, wire, net
  <2>2. /\ canceller' \in [Cancellers -> CancellerRecords]
        /\ canceller'[c].at = "out"
        /\ \A d \in Cancellers \ {c} : canceller'[d] = canceller[d]
    <3>1. canceller[c].left > 0
      BY <1>0, <2>1 DEF Calling
    <3>2. QED BY <1>0, <2>1, <3>1, CancellerLeaves
  <2>3. WireLocked'
    BY <1>0, <2>1, <2>2, WireOfOthers
  <2>4. Calling'
    BY <1>0, <2>2, CallingMoved
  <2>5. wakeup' \in BOOLEAN
    BY <2>1
  <2>6. Shapes'
    BY <1>0, <2>1, <2>2, <2>5 DEF Shapes
  <2>7. CancelAnswered'
    BY <1>0, <2>1 DEF CancelAnswered
  <2>8. QED BY <2>3, <2>4, <2>6, <2>7 DEF SocketInv
<1>6. QED BY <1>1, <1>2, <1>3, <1>4, <1>5 DEF Other

---------------------------------------------------------------------------
(* The steps of the server.                                                *)

LEMMA ServerSteps ==
  ASSUME SocketInv, Server
  PROVE  SocketInv'
<1>0. /\ Shapes /\ srv \in ServerRecords /\ Calling /\ WireLocked
      /\ CancelAnswered /\ up \in Seq(Packets) /\ down \in Seq(Tokens)
  BY DEF SocketInv, Shapes
<1>1. UNCHANGED <<state, wire_mtx, in_cancel, wakeup, bulk_query, app,
                  canceller, stray>>
  BY DEF Server, ServerTakesRequest, ServerTakesCancel, ServerAnswers, wire, cancel
<1>2. WireLocked' /\ Calling'
  BY <1>0, <1>1 DEF WireLocked, Calling
<1>3. 0 \in 0..MaxRequests /\ 0 \in 0..MaxTokens /\ MaxTokens \in 0..MaxTokens
  BY SocketAssumption
<1>4. \A kind \in {"more", "done", "ack"} :
        Token(kind) \in Tokens /\ Token(kind).kind = kind
  BY <1>0 DEF Token, Tokens, ServerRecords
<1>. DEFINE Served ==
       /\ srv' \in ServerRecords /\ srv'.alive = srv.alive
       /\ up' \in Seq(Packets) /\ down' \in Seq(Tokens)
       /\ \/ Holds(up, "cancel") => Holds(up', "cancel")
          \/ Holds(down', "ack")
       /\ Holds(down, "ack") => Holds(down', "ack")
<1>5. Served
  <2>1. CASE ServerTakesRequest
    <3>1. /\ up # <<>> /\ Head(up).kind = "data" /\ up' = Tail(up)
          /\ UNCHANGED down
      BY <2>1 DEF ServerTakesRequest
    <3>2. Tail(up) \in Seq(Packets) /\ Head(up) \in Packets
      BY <1>0, <3>1, Queues
    <3>3. Holds(up, "cancel") => Holds(up', "cancel")
      BY <1>0, <3>1, HoldsTail
    <3>4. srv' \in ServerRecords /\ srv'.alive = srv.alive
      <4>1. CASE Head(up).last
        <5>1. srv' = [srv EXCEPT !.runs = Head(up).n, !.left = MaxTokens,
                                 !.part = FALSE]
          BY <2>1, <4>1 DEF ServerTakesRequest
        <5>2. Head(up).n \in 0..MaxRequests
          BY <3>2 DEF Packets
        <5>3. QED BY <1>0, <1>3, <5>1, <5>2, ServerRuns
      <4>2. CASE ~Head(up).last
        <5>1. srv' = [srv EXCEPT !.part = TRUE]
          BY <2>1, <4>2 DEF ServerTakesRequest
        <5>2. QED BY <1>0, <5>1, ServerMoves
      <4>3. QED BY <4>1, <4>2
    <3>5. QED BY <1>0, <3>1, <3>2, <3>3, <3>4
  <2>2. CASE ServerTakesCancel
    <3>1. /\ up # <<>> /\ up' = Tail(up) /\ down' = Append(down, Token("ack"))
          /\ srv' = [srv EXCEPT !.runs = 0, !.left = 0, !.part = FALSE]
      BY <2>2 DEF ServerTakesCancel
    <3>2. Tail(up) \in Seq(Packets)
      BY <1>0, <3>1, Queues
    <3>3. Holds(down', "ack") /\ down' \in Seq(Tokens)
      BY <1>0, <1>4, <3>1, HoldsAppend, Queues
    <3>4. srv' \in ServerRecords /\ srv'.alive = srv.alive
      BY <1>0, <1>3, <3>1, ServerRuns
    <3>5. QED BY <3>1, <3>2, <3>3, <3>4
  <2>3. CASE ServerAnswers
    <3>1. PICK kind \in {"more", "done"} : down' = Append(down, Token(kind))
      BY <2>3 DEF ServerAnswers
    <3>2. UNCHANGED up
      BY <2>3 DEF ServerAnswers
    <3>3. /\ Holds(down, "ack") => Holds(down', "ack")
          /\ down' \in Seq(Tokens)
      BY <1>0, <1>4, <3>1, HoldsAppend, Queues
    <3>4. srv' \in ServerRecords /\ srv'.alive = srv.alive
      <4>1. CASE srv.left > 0 /\ srv' = [srv EXCEPT !.left = @ - 1]
        <5>1. srv.left - 1 \in 0..MaxTokens
          BY <1>0, <4>1, SocketAssumption DEF ServerRecords
        <5>2. QED BY <1>0, <4>1, <5>1, ServerMoves
      <4>2. CASE srv' = [srv EXCEPT !.runs = 0, !.left = 0]
        BY <1>0, <1>3, <4>2, ServerRuns
      <4>3. QED BY <2>3, <4>1, <4>2 DEF ServerAnswers
    <3>5. QED BY <1>0, <3>2, <3>3, <3>4
  <2>4. QED BY <2>1, <2>2, <2>3 DEF Server
<1>6. Shapes'
  BY <1>0, <1>1, <1>5 DEF Shapes
<1>7. CancelAnswered'
  <2>1. SUFFICES ASSUME in_cancel' = 2, srv'.alive
                 PROVE  \/ app'.at = "end" \/ Holds(up', "cancel")
                        \/ Holds(down', "ack")
    BY DEF CancelAnswered, Holds
  <2>2. QED BY <1>0, <1>1, <1>5, <2>1, Answered
<1>8. QED BY <1>2, <1>6, <1>7 DEF SocketInv

---------------------------------------------------------------------------
(* The invariant and what follows from it.                                 *)

LEMMA SocketInvHolds == Spec => []SocketInv
<1>1. Init => SocketInv
  <2>1. ASSUME Init PROVE Calling /\ WireLocked /\ CancelAnswered
    BY <2>1, SocketAssumption DEF Init, Calling, WireLocked, CancelAnswered
  <2>2. QED BY <2>1, ShapesInit DEF SocketInv
<1>2. SocketInv /\ [Next]_vars => SocketInv'
  <2>1. SUFFICES ASSUME SocketInv, [Next]_vars PROVE SocketInv'
    OBVIOUS
  <2>2. CASE SendingStep
    BY <2>1, <2>2, SendingSteps
  <2>3. ASSUME NEW stop \in BOOLEAN, ProcessTokens(stop) PROVE SocketInv'
    BY <2>1, <2>3, ProcessTokensStep
  <2>4. CASE AppReads
    <3>1. ASSUME NEW cancels \in BOOLEAN, ReadToken(cancels) PROVE SocketInv'
      BY <2>1, <3>1, ReadTokenStep
    <3>2. CASE ReadDone
      BY <2>1, <3>2, ReadDoneStep
    <3>3. CASE EndResponse
      BY <2>1, <3>3, EndResponseStep
    <3>4. CASE SettleState
      BY <2>1, <3>4, SettleStateStep
    <3>5. CASE NoticeWakeup
      BY <2>1, <3>5, NoticeWakeupStep
    <3>6. QED BY <2>4, <3>1, <3>2, <3>3, <3>4, <3>5 DEF AppReads
  <2>5. CASE CancelOnTimeout
    BY <2>1, <2>5, CancelOnTimeoutStep
  <2>6. CASE CancelBetween
    BY <2>1, <2>6, CancelBetweenStep
  <2>7. CASE ConnectionClose
    BY <2>1, <2>7, ConnectionCloseStep
  <2>8. ASSUME NEW c \in Cancellers, SendCancel(c) \/ Other(c) PROVE SocketInv'
    BY <2>1, <2>8, OtherSteps
  <2>9. CASE Server
    BY <2>1, <2>9, ServerSteps
  <2>10. CASE UNCHANGED vars
    BY <2>1, <2>10
       DEF vars, SocketInv, Shapes, Calling, WireLocked, CancelAnswered
  <2>11. QED
    BY <2>1, <2>2, <2>3, <2>4, <2>5, <2>6, <2>7, <2>8, <2>9, <2>10
       DEF Next, SendingStep
<1>3. QED BY <1>1, <1>2, PTL DEF Spec

\* The state, the flags, the threads and the server keep the shapes the code
\* gives them: in_cancel is never more than 2, no thread is at a place that is
\* not one of its function's.
THEOREM SocketTypeCorrect == Spec => []TypeOK
<1>1. SocketInv => TypeOK
  BY ShapesType DEF SocketInv
<1>2. QED BY <1>1, SocketInvHolds, PTL

\* tds_set_state and tds_send_cancel keep the wire mutex with the one thread
\* that writes or reads the socket, however many threads cancel.
THEOREM WireIsLocked == Spec => []WireLocked
<1>1. SocketInv => WireLocked
  BY DEF SocketInv
<1>2. QED BY <1>1, SocketInvHolds, PTL

\* While in_cancel says that a cancel was sent, the packet or its answer is on
\* the way: tds_process_cancel waits for something that comes.
THEOREM CancelsAreAnswered == Spec => []CancelAnswered
<1>1. SocketInv => CancelAnswered
  BY DEF SocketInv
<1>2. QED BY <1>1, SocketInvHolds, PTL

---------------------------------------------------------------------------
(* The dialog: what is on the wires in each state, as long as nobody else  *)
(* canceled what runs and no cancel was sent while data were being sent.   *)

\* A request of which the last packet was not sent; nothing at all.
Filling == /\ \A i \in DOMAIN up : up[i].kind = "data" /\ ~up[i].last
           /\ down = <<>> /\ srv.runs = 0
Quiet == up = <<>> /\ down = <<>> /\ srv.runs = 0

\* The one element of that kind is the last one.
EndsIn(seq, kind) ==
  /\ seq # <<>>
  /\ \A i \in DOMAIN seq : seq[i].kind = kind <=> i = Len(seq)
Lacks(seq, kind) == \A i \in DOMAIN seq : seq[i].kind # kind
Own(n) == \A i \in DOMAIN down : down[i].n = n

\* Request n is on its way, runs, or was answered and not read to its end.
AskedOf(n) ==
  /\ down = <<>> /\ srv.runs = 0 /\ up # <<>>
  /\ \A i \in DOMAIN up : /\ up[i].kind = "data"
                          /\ up[i].last <=> i = Len(up)
                          /\ up[i].last => up[i].n = n
RunsFor(n) == /\ up = <<>> /\ srv.runs = n /\ Own(n)
              /\ Lacks(down, "done") /\ Lacks(down, "ack")
AnsweredTo(n) == /\ up = <<>> /\ srv.runs = 0 /\ Own(n)
                 /\ EndsIn(down, "done") /\ Lacks(down, "ack")
Answering(n) == AskedOf(n) \/ RunsFor(n) \/ AnsweredTo(n)

\* A cancel, or its acknowledgement, is the last thing that comes.
Canceling == \/ EndsIn(up, "cancel") /\ Lacks(down, "ack")
             \/ up = <<>> /\ srv.runs = 0 /\ EndsIn(down, "ack")

Places ==
  /\ app.at \in {"write", "bulk"} => state = "WRITING"
  /\ app.at \in {"read", "end", "settle"} => state = "READING"
  /\ app.at = "flush" => state = "PENDING"
  /\ app.at = "out" => state \in {"IDLE", "PENDING", "SENDING", "DEAD"}
  /\ ~srv.alive => state = "DEAD"

Dialog ==
  /\ app.at \in {"write", "bulk", "flush"} \/ state = "SENDING" =>
       Filling /\ in_cancel # 2
  /\ app.at \in {"end", "settle"} \/ state = "IDLE" => Quiet
  /\ app.at = "settle" \/ state = "IDLE" => in_cancel = 0
  /\ (app.at = "out" /\ state = "PENDING") \/ app.at = "read" =>
       IF in_cancel = 2 THEN Canceling
       ELSE \/ Answering(app.n)
            \/ app.at = "read" /\ in_cancel = 1 /\ Quiet

DialogInv == SocketInv /\ Places /\ (~stray /\ srv.alive => Dialog)


\* Where the elements of a longer and of a shorter queue come from.
LEMMA AppendSeq ==
  ASSUME NEW S, NEW seq \in Seq(S), NEW x \in S
  PROVE  /\ Append(seq, x) # <<>> /\ Len(Append(seq, x)) \in Nat
         /\ \A i \in DOMAIN Append(seq, x) :
              \/ /\ i \in DOMAIN seq /\ i # Len(Append(seq, x))
                 /\ Append(seq, x)[i] = seq[i]
              \/ i = Len(Append(seq, x)) /\ Append(seq, x)[i] = x
<1>1. /\ Len(Append(seq, x)) = Len(seq) + 1 /\ Len(seq) \in Nat
      /\ \A i \in 1..Len(seq) : Append(seq, x)[i] = seq[i]
      /\ Append(seq, x)[Len(seq) + 1] = x
      /\ DOMAIN Append(seq, x) = 1..Len(seq) + 1 /\ DOMAIN seq = 1..Len(seq)
  BY AppendProperties, LenProperties
<1>2. Append(seq, x) # <<>>
  BY <1>1, EmptySeq
<1>3. QED BY <1>1, <1>2

LEMMA TailSeq ==
  ASSUME NEW S, NEW seq \in Seq(S), seq # <<>>
  PROVE  /\ 1 \in DOMAIN seq /\ Head(seq) = seq[1]
         /\ Tail(seq) = <<>> <=> 1 = Len(seq)
         /\ \A i \in DOMAIN Tail(seq) :
              /\ i + 1 \in DOMAIN seq /\ Tail(seq)[i] = seq[i + 1]
              /\ i = Len(Tail(seq)) <=> i + 1 = Len(seq)
<1>1. /\ Head(seq) = seq[1] /\ Tail(seq) \in Seq(S)
      /\ Len(Tail(seq)) = Len(seq) - 1 /\ Len(seq) \in Nat
      /\ \A j \in 1..Len(Tail(seq)) : Tail(seq)[j] = seq[j + 1]
      /\ DOMAIN seq = 1..Len(seq)
  BY HeadTailProperties, LenProperties
<1>2. DOMAIN Tail(seq) = 1..Len(Tail(seq)) /\ Len(seq) # 0
      /\ (Tail(seq) = <<>> <=> Len(Tail(seq)) = 0)
  BY <1>1, LenProperties, EmptySeq
<1>3. QED BY <1>1, <1>2

LEMMA EndsAppend ==
  ASSUME NEW S, NEW seq \in Seq(S), NEW x \in S, NEW kind,
         Lacks(seq, kind), x.kind = kind
  PROVE  EndsIn(Append(seq, x), kind)
BY AppendSeq DEF Lacks, EndsIn

LEMMA LacksAppend ==
  ASSUME NEW S, NEW seq \in Seq(S), NEW x \in S, NEW kind,
         Lacks(seq, kind), x.kind # kind
  PROVE  Lacks(Append(seq, x), kind)
BY AppendSeq DEF Lacks

LEMMA TailKinds ==
  ASSUME NEW S, NEW seq \in Seq(S), seq # <<>>, NEW kind
  PROVE  /\ EndsIn(seq, kind) /\ Head(seq).kind # kind => EndsIn(Tail(seq), kind)
         /\ EndsIn(seq, kind) /\ Head(seq).kind = kind => Tail(seq) = <<>>
         /\ Lacks(seq, kind) => Lacks(Tail(seq), kind) /\ Head(seq).kind # kind
BY TailSeq DEF Lacks, EndsIn

LEMMA LacksNothing == \A kind : Lacks(<<>>, kind)
BY EmptySeq, LenProperties DEF Lacks

\* What is on its way was sent by the server, or is what it is asked.
LEMMA AnsweringKinds ==
  ASSUME NEW n, Answering(n)
  PROVE  Lacks(up, "cancel") /\ Lacks(down, "ack")
BY LacksNothing DEF Answering, AskedOf, RunsFor, AnsweredTo, Lacks

---------------------------------------------------------------------------
(* The steps that keep the dialog.                                         *)


\* What the dialog says of a wire, a state and a thread at rest.
Sound == ~stray /\ srv.alive
Kept == Places' /\ (Sound' => Dialog')

LEMMA FillingAppend ==
  ASSUME Shapes, Filling, NEW n \in 0..MaxRequests, NEW last \in BOOLEAN,
         up' = Append(up, Packet(n, last)), down' = down, srv' = srv
  PROVE  /\ ~last => Filling'
         /\ last => AskedOf(n)'
<1>1. /\ up \in Seq(Packets) /\ Packet(n, last) \in Packets
      /\ Packet(n, last).kind = "data" /\ Packet(n, last).last = last
      /\ Packet(n, last).n = n
  BY DEF Shapes, Packets, Packet
<1>2. /\ up' # <<>>
      /\ \A i \in DOMAIN up' :
           \/ i \in DOMAIN up /\ i # Len(up') /\ up'[i] = up[i]
           \/ i = Len(up') /\ up'[i] = Packet(n, last)
  BY <1>1, AppendSeq
<1>3. QED BY <1>1, <1>2 DEF Filling, AskedOf

LEMMA SendingDialog ==
  ASSUME DialogInv, SendingStep
  PROVE  Kept
<1>0. /\ Shapes /\ app \in AppRecords /\ app.n \in Nat /\ WireLocked
      /\ Places /\ (Sound => Dialog)
  BY SocketAssumption DEF DialogInv, SocketInv, Shapes, AppRecords, Sound
<1>. USE DEF Sound
<1>1. ASSUME NEW bulk \in BOOLEAN, Submit(bulk) PROVE Kept
  <2>1. /\ app.at = "out" /\ app'.at = "write" /\ state' = "WRITING"
        /\ state \in {"IDLE", "SENDING"}
        /\ UNCHANGED <<up, down, srv, stray, in_cancel>>
    BY <1>0, <1>1 DEF Submit, Acquire, net, cancel, AppRecords
  <2>2. Places'
    BY <1>0, <2>1 DEF Places
  <2>3. ASSUME Sound' PROVE Dialog'
    BY <1>0, <2>1, <2>3, EmptySeq DEF Dialog, Filling, Quiet
  <2>4. QED BY <2>2, <2>3 DEF Kept
<1>2. CASE WritePacket
  <2>1. /\ app.at = "write" /\ UNCHANGED <<app, down, srv, stray, in_cancel, state>>
        /\ up' = Append(up, Packet(app.n, FALSE)) /\ app.n \in 0..MaxRequests
    BY <1>0, <1>2 DEF WritePacket, cancel, wire, AppRecords
  <2>2. Places'
    BY <1>0, <2>1 DEF Places
  <2>3. ASSUME Sound' PROVE Dialog'
    <3>1. Filling' /\ in_cancel # 2
      BY <1>0, <2>1, <2>3, FillingAppend DEF Dialog
    <3>2. QED BY <1>0, <2>1, <3>1 DEF Dialog, Places
  <2>4. QED BY <2>2, <2>3 DEF Kept
<1>3. CASE QueryFlush
  <2>1. /\ app.at = "write" /\ app'.at = "flush" /\ state' = "PENDING"
        /\ UNCHANGED <<up, down, srv, stray, in_cancel>>
    BY <1>0, <1>3 DEF QueryFlush, Release, net, cancel, AppRecords
  <2>2. Places'
    BY <1>0, <2>1 DEF Places
  <2>3. ASSUME Sound' PROVE Dialog'
    BY <1>0, <2>1, <2>3 DEF Dialog, Filling
  <2>4. QED BY <2>2, <2>3 DEF Kept
<1>4. CASE FlushPacket
  <2>1. /\ app.at = "flush" /\ app'.at = "out" /\ app'.n = app.n
        /\ state = "PENDING" /\ state' = "PENDING"
        /\ UNCHANGED <<down, srv, stray, in_cancel>>
        /\ app.n \in 0..MaxRequests
    BY <1>0, <1>4 DEF FlushPacket, cancel, wire, AppRecords, Places
  <2>2. Places'
    BY <1>0, <2>1 DEF Places
  <2>3. ASSUME Sound' PROVE Dialog'
    <3>1. up' = Append(up, Packet(app.n, TRUE))
      BY <1>4, <2>1, <2>3 DEF FlushPacket
    <3>2. AskedOf(app.n)' /\ in_cancel # 2
      BY <1>0, <2>1, <2>3, <3>1, FillingAppend DEF Dialog
    <3>3. QED BY <2>1, <3>2 DEF Dialog, Answering, AskedOf
  <2>4. QED BY <2>2, <2>3 DEF Kept
<1>5. CASE BulkStart
  <2>1. /\ app.at = "out" /\ app'.at = "bulk" /\ state' = "WRITING"
        /\ state = "SENDING" /\ UNCHANGED <<up, down, srv, stray, in_cancel>>
    BY <1>0, <1>5 DEF BulkStart, Acquire, net, cancel, AppRecords
  <2>2. Places'
    BY <1>0, <2>1 DEF Places
  <2>3. ASSUME Sound' PROVE Dialog'
    BY <1>0, <2>1, <2>3 DEF Dialog, Filling
  <2>4. QED BY <2>2, <2>3 DEF Kept
<1>6. CASE BulkRecord
  <2>1. /\ app.at = "bulk" /\ app'.at = "out" /\ state' = "SENDING"
        /\ UNCHANGED <<down, srv, stray, in_cancel>>
        /\ up' = up \/ up' = Append(up, Packet(app.n, FALSE))
        /\ app.n \in 0..MaxRequests
    BY <1>0, <1>6 DEF BulkRecord, Release, cancel, AppRecords
  <2>2. Places'
    BY <1>0, <2>1 DEF Places
  <2>3. ASSUME Sound' PROVE Dialog'
    <3>1. Filling /\ in_cancel # 2
      BY <1>0, <2>1, <2>3 DEF Dialog
    <3>2. Filling'
      BY <1>0, <2>1, <3>1, FillingAppend DEF Filling
    <3>3. QED BY <2>1, <3>1, <3>2 DEF Dialog
  <2>4. QED BY <2>2, <2>3 DEF Kept
<1>7. CASE BulkDone
  <2>1. /\ app.at = "bulk" /\ app'.at = "out" /\ app'.n = app.n + 1
        /\ state' = "PENDING" /\ UNCHANGED <<down, srv, stray, in_cancel>>
        /\ app.n + 1 \in 0..MaxRequests
    BY <1>0, <1>7, SocketAssumption
       DEF BulkDone, Release, cancel, AppRecords
  <2>2. Places'
    BY <1>0, <2>1 DEF Places
  <2>3. ASSUME Sound' PROVE Dialog'
    <3>1. PICK n \in 0..MaxRequests : n = app'.n
      BY <2>1
    <3>2. up' = Append(up, Packet(n, TRUE))
      BY <1>7, <2>1, <2>3, <3>1 DEF BulkDone
    <3>3. AskedOf(n)' /\ in_cancel # 2
      BY <1>0, <2>1, <2>3, <3>2, FillingAppend DEF Dialog
    <3>4. QED BY <2>1, <3>1, <3>3 DEF Dialog, Answering, AskedOf
  <2>4. QED BY <2>2, <2>3 DEF Kept
<1>8. QED BY <1>1, <1>2, <1>3, <1>4, <1>5, <1>6, <1>7 DEF SendingStep

---------------------------------------------------------------------------
(* The steps of the application that reads.                                *)

\* Tokens are taken from the queue one by one.
LEMMA TokenRead ==
  ASSUME Shapes, down # <<>>, down' = Tail(down), UNCHANGED <<up, srv>>
  PROVE  /\ Head(down).kind = "more" =>
              /\ \A n : Answering(n) => Answering(n)'
              /\ Canceling => Canceling'
         /\ Head(down).kind = "done" =>
              /\ \A n : Answering(n) => Quiet'
              /\ Canceling => Canceling'
         /\ Head(down).kind = "ack" =>
              /\ \A n : ~Answering(n)
              /\ Canceling => Quiet'
         /\ \A n : Answering(n) => Head(down).n = n
<1>1. down \in Seq(Tokens) /\ Head(down) \in Tokens
  BY Queues DEF Shapes
<1>2. /\ Lacks(down, "ack") => Lacks(down', "ack") /\ Head(down).kind # "ack"
      /\ Lacks(down, "done") => Lacks(down', "done") /\ Head(down).kind # "done"
      /\ EndsIn(down, "done") /\ Head(down).kind # "done" => EndsIn(down', "done")
      /\ EndsIn(down, "done") /\ Head(down).kind = "done" => down' = <<>>
      /\ EndsIn(down, "ack") /\ Head(down).kind # "ack" => EndsIn(down', "ack")
      /\ EndsIn(down, "ack") /\ Head(down).kind = "ack" => down' = <<>>
  BY <1>1, TailKinds
<1>3. \A n : Own(n) => Own(n)' /\ Head(down).n = n
  BY <1>1, TailSeq DEF Own
<1>4. \A n : Answering(n) => RunsFor(n) \/ AnsweredTo(n)
  BY DEF Answering, AskedOf
<1>5. \A n : RunsFor(n) => /\ Head(down).kind = "more" => RunsFor(n)'
                           /\ Head(down).kind \notin {"done", "ack"}
  BY <1>2, <1>3 DEF RunsFor
<1>6. \A n : AnsweredTo(n) => /\ Head(down).kind = "more" => AnsweredTo(n)'
                              /\ Head(down).kind = "done" => Quiet'
                              /\ Head(down).kind # "ack"
  BY <1>2, <1>3 DEF AnsweredTo, Quiet
<1>7. Canceling => /\ Head(down).kind # "ack" => Canceling'
                   /\ Head(down).kind = "ack" => Quiet'
  BY <1>2 DEF Canceling, Quiet
<1>8. \A n : Answering(n) => Head(down).n = n
  BY <1>3, <1>4 DEF RunsFor, AnsweredTo
<1>9. QED BY <1>4, <1>5, <1>6, <1>7, <1>8 DEF Answering

\* A cancel packet is put on the wire.
LEMMA CancelPut ==
  ASSUME Shapes, NEW n, Answering(n) \/ Quiet, up' = Append(up, CancelPacket),
         UNCHANGED <<down, srv>>
  PROVE  Canceling'
<1>1. Lacks(up, "cancel") /\ Lacks(down, "ack")
  BY AnsweringKinds, LacksNothing DEF Quiet
<1>2. /\ up \in Seq(Packets) /\ CancelPacket \in Packets
      /\ CancelPacket.kind = "cancel"
  BY SocketAssumption DEF Shapes, Packets, CancelPacket
<1>3. EndsIn(up', "cancel")
  BY <1>1, <1>2, EndsAppend
<1>4. QED BY <1>1, <1>3 DEF Canceling

\* A step that takes no token and sends none leaves the wires as they are.
LEMMA WiresKept ==
  ASSUME UNCHANGED <<up, down, srv>>
  PROVE  /\ Filling' = Filling /\ Quiet' = Quiet /\ Canceling' = Canceling
         /\ \A n : Answering(n)' = Answering(n)
BY DEF Filling, Quiet, Canceling, Answering, AskedOf, RunsFor, AnsweredTo,
       EndsIn, Lacks, Own

ReadingStep ==
  \/ \E stop \in BOOLEAN : ProcessTokens(stop)
  \/ AppReads \/ CancelOnTimeout \/ CancelBetween \/ ConnectionClose

LEMMA ReadingDialog ==
  ASSUME DialogInv, ReadingStep
  PROVE  Kept
<1>0. /\ Shapes /\ app \in AppRecords /\ app.n \in Nat /\ WireLocked
      /\ Places /\ (Sound => Dialog) /\ in_cancel \in 0..2
  BY SocketAssumption DEF DialogInv, SocketInv, Shapes, AppRecords, Sound
<1>. USE DEF Sound
<1>1. ASSUME NEW stop \in BOOLEAN, ProcessTokens(stop) PROVE Kept
  <2>1. /\ app.at = "out" /\ app'.at = "read" /\ app'.n = app.n
        /\ state = "PENDING" /\ state' = "READING"
        /\ UNCHANGED <<up, down, srv, stray, in_cancel>>
    BY <1>0, <1>1 DEF ProcessTokens, Acquire, net, cancel, AppRecords
  <2>2. Places'
    BY <1>0, <2>1 DEF Places
  <2>3. ASSUME Sound' PROVE Dialog'
    BY <1>0, <2>1, <2>3, WiresKept DEF Dialog
  <2>4. QED BY <2>2, <2>3 DEF Kept
<1>2. ASSUME NEW cancels \in BOOLEAN, ReadToken(cancels) PROVE Kept
  <2>1. /\ app.at = "read" /\ app'.n = app.n /\ down # <<>>
        /\ Head(down).kind = "more" /\ down' = Tail(down)
        /\ UNCHANGED <<up, srv, stray>>
        /\ in_cancel' = IF cancels /\ in_cancel = 0 THEN 1 ELSE in_cancel
    BY <1>0, <1>2 DEF ReadToken, AppRecords
  <2>2. \/ app'.at = "out" /\ state' = "PENDING" /\ in_cancel' = 0
        \/ app'.at = "read" /\ state' = state
    BY <1>0, <1>2 DEF ReadToken, Release, wire, AppRecords
  <2>3. state = "READING" /\ Places'
    BY <1>0, <2>1, <2>2 DEF Places
  <2>4. ASSUME Sound' PROVE Dialog'
    <3>1. ~Quiet
      BY <2>1 DEF Quiet
    <3>2. IF in_cancel = 2 THEN Canceling ELSE Answering(app.n)
      BY <1>0, <2>1, <2>4, <3>1 DEF Dialog
    <3>3. IF in_cancel = 2 THEN Canceling' ELSE Answering(app.n)'
      BY <1>0, <2>1, <3>2, TokenRead
    <3>4. in_cancel = 2 <=> in_cancel' = 2
      BY <1>0, <2>1
    <3>5. QED BY <2>2, <2>3, <3>3, <3>4 DEF Dialog
  <2>5. QED BY <2>3, <2>4 DEF Kept
<1>3. CASE ReadDone
  <2>1. /\ app.at = "read" /\ app'.n = app.n /\ down # <<>>
        /\ Head(down).kind \in {"done", "ack"} /\ down' = Tail(down)
        /\ UNCHANGED <<up, srv, stray, state, in_cancel>>
        /\ app'.at = IF Head(down).kind = "ack" \/ in_cancel = 0 THEN "end"
                     ELSE "read"
    BY <1>0, <1>3, Queues DEF ReadDone, wire, cancel, AppRecords, Tokens
  <2>2. state = "READING" /\ Places'
    BY <1>0, <2>1 DEF Places
  <2>3. ASSUME Sound' PROVE Dialog'
    <3>1. ~Quiet
      BY <2>1 DEF Quiet
    <3>2. IF in_cancel = 2 THEN Canceling ELSE Answering(app.n)
      BY <1>0, <2>1, <2>3, <3>1 DEF Dialog
    <3>3. CASE app'.at = "end"
      <4>1. Quiet'
        BY <1>0, <2>1, <3>2, <3>3, TokenRead
      <4>2. QED BY <2>1, <2>2, <3>3, <4>1 DEF Dialog
    <3>4. CASE app'.at = "read"
      <4>1. IF in_cancel = 2 THEN Canceling' ELSE in_cancel = 1 /\ Quiet'
        BY <1>0, <2>1, <3>2, <3>4, TokenRead
      <4>2. QED BY <2>1, <2>2, <3>4, <4>1 DEF Dialog
    <3>5. QED BY <2>1, <3>3, <3>4
  <2>4. QED BY <2>2, <2>3 DEF Kept
<1>4. CASE EndResponse
  <2>1. /\ app.at = "end" /\ app'.at = "settle" /\ in_cancel' = 0
        /\ UNCHANGED <<up, down, srv, stray, state>>
    BY <1>0, <1>4 DEF EndResponse, net, AppRecords
  <2>2. state = "READING" /\ Places'
    BY <1>0, <2>1 DEF Places
  <2>3. ASSUME Sound' PROVE Dialog'
    BY <1>0, <2>1, <2>2, <2>3, WiresKept DEF Dialog
  <2>4. QED BY <2>2, <2>3 DEF Kept
<1>5. CASE SettleState
  <2>1. /\ app.at = "settle" /\ app'.at = "out"
        /\ state' = IF bulk_query THEN "SENDING" ELSE "IDLE"
        /\ UNCHANGED <<up, down, srv, stray, in_cancel>>
    BY <1>0, <1>5 DEF SettleState, net, cancel, AppRecords
  <2>2. Places'
    BY <1>0, <2>1 DEF Places
  <2>3. ASSUME Sound' PROVE Dialog'
    <3>1. Quiet /\ in_cancel = 0
      BY <1>0, <2>1, <2>3 DEF Dialog
    <3>2. Quiet' /\ Filling'
      BY <2>1, <3>1, EmptySeq DEF Quiet, Filling
    <3>3. QED BY <2>1, <3>1, <3>2 DEF Dialog
  <2>4. QED BY <2>2, <2>3 DEF Kept
<1>6. CASE NoticeWakeup
  <2>1. /\ app.at = "read" /\ UNCHANGED <<app, down, srv, stray, state>>
        /\ \/ /\ in_cancel = 1 /\ in_cancel' = 2
              /\ up' = Append(up, CancelPacket)
           \/ in_cancel # 1 /\ UNCHANGED <<up, in_cancel>>
    BY <1>6 DEF NoticeWakeup, wire
  <2>2. state = "READING" /\ Places'
    BY <1>0, <2>1 DEF Places
  <2>3. ASSUME Sound' PROVE Dialog'
    <3>1. CASE in_cancel = 1
      <4>1. Answering(app.n) \/ Quiet
        BY <1>0, <2>1, <2>3, <3>1 DEF Dialog
      <4>2. Canceling'
        BY <1>0, <2>1, <3>1, <4>1, CancelPut
      <4>3. QED BY <2>1, <2>2, <3>1, <4>2 DEF Dialog
    <3>2. CASE in_cancel # 1
      BY <1>0, <2>1, <2>2, <2>3, <3>2, WiresKept DEF Dialog
    <3>3. QED BY <3>1, <3>2
  <2>4. QED BY <2>2, <2>3 DEF Kept
<1>7. CASE CancelOnTimeout
  <2>1. /\ app.at \in {"read", "write", "bulk"}
        /\ UNCHANGED <<app, up, down, srv, stray, state>>
        /\ in_cancel' = IF in_cancel = 0 THEN 1 ELSE in_cancel
    BY <1>7 DEF CancelOnTimeout, wire, net
  <2>2. state \in {"READING", "WRITING"} /\ Places'
    BY <1>0, <2>1 DEF Places
  <2>3. ASSUME Sound' PROVE Dialog'
    BY <1>0, <2>1, <2>2, <2>3, WiresKept DEF Dialog
  <2>4. QED BY <2>2, <2>3 DEF Kept
<1>8. CASE CancelBetween
  <2>1. /\ app.at = "out" /\ UNCHANGED <<app, down, srv, state>>
        /\ in_cancel = 0 /\ in_cancel' = 2 /\ state \in {"PENDING", "SENDING"}
        /\ up' = Append(up, CancelPacket)
        /\ stray' = (stray \/ state = "SENDING")
    BY <1>8 DEF CancelBetween, wire
  <2>2. Places'
    BY <1>0, <2>1 DEF Places
  <2>3. ASSUME Sound' PROVE Dialog'
    <3>1. Sound /\ state = "PENDING"
      <4>1. ~stray /\ state # "SENDING" /\ srv.alive
        BY <2>1, <2>3, Zenon
      <4>2. QED BY <2>1, <4>1
    <3>2. Answering(app.n)
      BY <1>0, <2>1, <3>1 DEF Dialog
    <3>3. Canceling'
      BY <1>0, <2>1, <3>2, CancelPut
    <3>4. QED BY <2>1, <3>1, <3>3 DEF Dialog
  <2>4. QED BY <2>2, <2>3 DEF Kept
<1>9. CASE ConnectionClose
  <2>1. app'.at = "out" /\ state' = "DEAD" /\ srv'.alive = FALSE
    BY <1>0, <1>9 DEF ConnectionClose, AppRecords, Shapes, ServerRecords
  <2>2. QED BY <2>1 DEF Kept, Places
<1>10. QED
  BY <1>1, <1>2, <1>3, <1>4, <1>5, <1>6, <1>7, <1>8, <1>9
     DEF ReadingStep, AppReads

---------------------------------------------------------------------------
(* The steps of the other threads and of the server.                       *)

\* As long as no other thread cancels what runs, it does nothing to the dialog.
LEMMA OtherDialog ==
  ASSUME DialogInv, NEW c \in Cancellers, SendCancel(c) \/ Other(c)
  PROVE  Kept
<1>0. Places /\ (Sound => Dialog)
  BY DEF DialogInv, Sound
<1>1. /\ UNCHANGED <<app, down, srv, state>>
      /\ stray' \/ UNCHANGED <<up, in_cancel, stray>>
  <2>1. CASE SendCancel(c)
    BY <2>1 DEF SendCancel, cancel, net
  <2>2. CASE PutCancel(c)
    BY <2>2 DEF PutCancel
  <2>3. CASE TestCancel(c)
    BY <2>3 DEF TestCancel, wire, cancel, net
  <2>4. CASE SetCancel(c)
    BY <2>4 DEF SetCancel, wire, net
  <2>5. CASE WakeReader(c)
    BY <2>5 DEF WakeReader, wire, net
  <2>6. QED BY <2>1, <2>2, <2>3, <2>4, <2>5 DEF Other
<1>2. Places'
  BY <1>0, <1>1 DEF Places
<1>3. ASSUME Sound' PROVE Dialog'
  BY <1>0, <1>1, <1>3, WiresKept DEF Dialog, Sound
<1>4. QED BY <1>2, <1>3 DEF Kept

\* Requests are run, answered and canceled in the order they were sent.
LEMMA ServerDialog ==
  ASSUME DialogInv, Server
  PROVE  Kept
<1>0. /\ Shapes /\ srv \in ServerRecords
      /\ Places /\ (Sound => Dialog)
      /\ up \in Seq(Packets) /\ down \in Seq(Tokens)
  BY DEF DialogInv, SocketInv, Shapes, Sound
<1>1. /\ UNCHANGED <<app, stray, state, in_cancel>> /\ srv'.alive = srv.alive
  BY <1>0 DEF Server, ServerTakesRequest, ServerTakesCancel, ServerAnswers,
              wire, cancel, ServerRecords
<1>2. Places'
  BY <1>0, <1>1 DEF Places
<1>. DEFINE Follows == /\ Filling => Filling'
                       /\ Quiet => Quiet'
                       /\ \A n : Answering(n) => Answering(n)'
                       /\ Canceling => Canceling'
<1>3. Follows
  <2>1. CASE ServerTakesRequest
    <3>1. /\ up # <<>> /\ Head(up).kind = "data" /\ srv.runs = 0
          /\ up' = Tail(up) /\ down' = down
          /\ srv'.runs = IF Head(up).last THEN Head(up).n ELSE 0
      BY <1>0, <2>1 DEF ServerTakesRequest, ServerRecords
    <3>2. /\ 1 \in DOMAIN up /\ Head(up) = up[1]
          /\ up' = <<>> <=> 1 = Len(up)
          /\ \A i \in DOMAIN up' :
               /\ i + 1 \in DOMAIN up /\ up'[i] = up[i + 1]
               /\ i = Len(up') <=> i + 1 = Len(up)
      BY <1>0, <3>1, TailSeq
    <3>3. Filling => Filling'
      BY <3>1, <3>2 DEF Filling
    <3>4. ASSUME NEW n, Answering(n) PROVE Answering(n)'
      <4>1. AskedOf(n)
        BY <3>1, <3>4 DEF Answering, RunsFor, AnsweredTo
      <4>2. CASE 1 = Len(up)
        <5>1. srv'.runs = n /\ up' = <<>> /\ down' = <<>>
          BY <3>1, <3>2, <4>1, <4>2 DEF AskedOf
        <5>2. QED
          BY <5>1, EmptySeq, LacksNothing DEF Answering, RunsFor, Own
      <4>3. CASE 1 # Len(up)
        BY <3>1, <3>2, <4>1, <4>3 DEF Answering, AskedOf
      <4>4. QED BY <4>2, <4>3
    <3>5. Canceling => Canceling'
      <4>1. EndsIn(up, "cancel") => EndsIn(up', "cancel")
        BY <1>0, <3>1, TailKinds
      <4>2. QED BY <3>1, <4>1 DEF Canceling
    <3>6. QED BY <3>1, <3>3, <3>4, <3>5 DEF Quiet
  <2>2. CASE ServerTakesCancel
    <3>1. /\ up # <<>> /\ Head(up).kind = "cancel" /\ srv'.runs = 0
          /\ up' = Tail(up) /\ down' = Append(down, Token("ack"))
      BY <1>0, <2>2 DEF ServerTakesCancel, ServerRecords
    <3>2. ~Filling /\ ~Quiet /\ \A n : ~Answering(n)
      <4>1. 1 \in DOMAIN up /\ Head(up) = up[1]
        BY <1>0, <3>1, TailSeq
      <4>2. QED
        BY <3>1, <4>1 DEF Filling, Quiet, Answering, AskedOf, RunsFor, AnsweredTo
    <3>3. Canceling => Canceling'
      <4>1. EndsIn(up, "cancel") => up' = <<>>
        BY <1>0, <3>1, TailKinds
      <4>2. Token("ack") \in Tokens /\ Token("ack").kind = "ack"
        BY <1>0 DEF Token, Tokens, ServerRecords
      <4>3. Lacks(down, "ack") => EndsIn(down', "ack")
        BY <1>0, <3>1, <4>2, EndsAppend
      <4>4. QED BY <3>1, <4>1, <4>3 DEF Canceling
    <3>4. QED BY <3>2, <3>3
  <2>3. CASE ServerAnswers
    <3>1. /\ srv.runs # 0 /\ up' = up
          /\ \/ /\ srv'.runs = srv.runs
                /\ down' = Append(down, Token("more"))
             \/ /\ srv'.runs = 0
                /\ down' = Append(down, Token("done"))
      BY <1>0, <2>3 DEF ServerAnswers, ServerRecords
    <3>2. /\ Token("more") \in Tokens /\ Token("done") \in Tokens
          /\ Token("more").kind = "more" /\ Token("done").kind = "done"
          /\ Token("more").n = srv.runs /\ Token("done").n = srv.runs
      BY <1>0 DEF Token, Tokens, ServerRecords
    <3>3. ASSUME NEW n, Answering(n) PROVE Answering(n)'
      <4>1. RunsFor(n)
        BY <3>1, <3>3 DEF Answering, AskedOf, AnsweredTo
      <4>2. Own(n)'
        BY <1>0, <3>1, <3>2, <4>1, AppendSeq DEF Own, RunsFor
      <4>3. Lacks(down', "ack")
        BY <1>0, <3>1, <3>2, <4>1, LacksAppend DEF RunsFor
      <4>4. CASE down' = Append(down, Token("more")) /\ srv'.runs = srv.runs
        <5>1. Lacks(down', "done")
          BY <1>0, <3>2, <4>1, <4>4, LacksAppend DEF RunsFor
        <5>2. QED
          BY <3>1, <4>1, <4>2, <4>3, <4>4, <5>1 DEF Answering, RunsFor
      <4>5. CASE down' = Append(down, Token("done")) /\ srv'.runs = 0
        <5>1. EndsIn(down', "done")
          BY <1>0, <3>2, <4>1, <4>5, EndsAppend DEF RunsFor
        <5>2. QED
          BY <3>1, <4>1, <4>2, <4>3, <4>5, <5>1 DEF Answering, AnsweredTo, RunsFor
      <4>6. QED BY <3>1, <4>4, <4>5
    <3>4. Canceling => Canceling'
      <4>1. Lacks(down, "ack") => Lacks(down', "ack")
        BY <1>0, <3>1, <3>2, LacksAppend
      <4>2. QED BY <3>1, <4>1 DEF Canceling
    <3>5. QED BY <3>1, <3>3, <3>4 DEF Filling, Quiet
  <2>4. QED BY <2>1, <2>2, <2>3 DEF Server
<1>4. ASSUME Sound' PROVE Dialog'
  BY <1>0, <1>1, <1>3, <1>4 DEF Dialog, Sound
<1>5. QED BY <1>2, <1>4 DEF Kept

---------------------------------------------------------------------------

LEMMA DialogInvHolds == Spec => []DialogInv
<1>1. Init => Places /\ (Sound => Dialog)
  <2>1. SUFFICES ASSUME Init PROVE Places /\ Dialog
    OBVIOUS
  <2>2. /\ app.at = "out" /\ state = "IDLE" /\ in_cancel = 0 /\ srv.alive = TRUE
        /\ up = <<>> /\ down = <<>> /\ srv.runs = 0
    BY <2>1 DEF Init
  <2>3. Places
    BY <2>2 DEF Places
  <2>4. Dialog
    BY <2>2 DEF Dialog, Quiet
  <2>5. QED BY <2>3, <2>4
<1>2. DialogInv /\ [Next]_vars => Kept
  <2>1. SUFFICES ASSUME DialogInv, [Next]_vars PROVE Kept
    OBVIOUS
  <2>2. CASE SendingStep
    BY <2>1, <2>2, SendingDialog
  <2>3. CASE ReadingStep
    BY <2>1, <2>3, ReadingDialog
  <2>4. ASSUME NEW c \in Cancellers, SendCancel(c) \/ Other(c) PROVE Kept
    BY <2>1, <2>4, OtherDialog
  <2>5. CASE Server
    BY <2>1, <2>5, ServerDialog
  <2>6. CASE UNCHANGED vars
    <3>1. UNCHANGED <<app, state, in_cancel, up, down, srv, stray>>
      BY <2>6 DEF vars
    <3>2. QED
      BY <2>1, <3>1, WiresKept DEF DialogInv, Kept, Places, Sound, Dialog
  <2>7. QED
    BY <2>1, <2>2, <2>3, <2>4, <2>5, <2>6 DEF Next, SendingStep, ReadingStep
<1>3. DialogInv <=> SocketInv /\ Places /\ (Sound => Dialog)
  BY DEF DialogInv, Sound
<1>4. Kept <=> (Places /\ (Sound => Dialog))'
  BY DEF Kept
<1>5. QED BY <1>1, <1>2, <1>3, <1>4, SocketInvHolds, PTL DEF Spec

\* A connection that is idle has nothing of an earlier request on the wire: the
\* next request reads its own answer, as tds_process_cancel's comment has it, as
\* long as cancels come from the thread that uses the connection.
THEOREM IdleIsQuiet == Spec => []QuietWhenIdle
<1>1. DialogInv => QuietWhenIdle
  <2>1. SUFFICES ASSUME DialogInv, state = "IDLE", ~stray PROVE Quiet
    BY DEF QuietWhenIdle, Quiet
  <2>2. srv.alive \in BOOLEAN
    BY <2>1 DEF DialogInv, SocketInv, Shapes, ServerRecords
  <2>3. srv.alive
    BY <2>1, <2>2 DEF DialogInv, Places
  <2>4. QED BY <2>1, <2>3 DEF DialogInv, Dialog
<1>2. QED BY <1>1, DialogInvHolds, PTL

\* What tds_process_tokens returns while no cancel was asked for is the answer
\* to the request sent last, however many were cancelled before.
THEOREM AnswersAreOwn == Spec => []OwnAnswer
<1>1. DialogInv => OwnAnswer
  <2>1. SUFFICES ASSUME DialogInv, app.at = "read", ~stray, in_cancel = 0,
                        down # <<>>
                 PROVE  Head(down).n = app.n
    BY DEF OwnAnswer
  <2>2. Answering(app.n)
    <3>1. srv.alive
      BY <2>1 DEF DialogInv, Places
    <3>2. QED BY <2>1, <3>1 DEF DialogInv, Dialog
  <2>3. RunsFor(app.n) \/ AnsweredTo(app.n)
    BY <2>1, <2>2 DEF Answering, AskedOf
  <2>4. down \in Seq(Tokens)
    BY <2>1 DEF DialogInv, SocketInv, Shapes
  <2>5. 1 \in DOMAIN down /\ Head(down) = down[1]
    BY <2>1, <2>4, TailSeq
  <2>6. QED BY <2>3, <2>5 DEF RunsFor, AnsweredTo, Own
<1>2. QED BY <1>1, DialogInvHolds, PTL
=============================================================================
