------------------------ MODULE ClientLibraryProofs ------------------------
(***************************************************************************)
(* Proofs about two of the client libraries of FreeTDS:                    *)
(*                                                                         *)
(*   db-lib   the row buffer for every capacity, every answer and every    *)
(*            sequence of calls: its rows are the last ones received, in   *)
(*            order, and each reads its own values; the result sets are    *)
(*            announced and the procedures sent once;                      *)
(*   ct-lib   the commands of a connection, for any number of them and     *)
(*            answers and requests of any length.                          *)
(*                                                                         *)
(* A program uses one library, so the two parts share nothing.             *)
(***************************************************************************)
EXTENDS DbProcess, CtCommand, Integers, SequenceTheorems, TLAPS

---------------------------------------------------------------------------
(* db-lib.                                                                 *)

Slots(buf) == 0..(buf.capacity - 1)

RowBuffers(n) ==
  [head : 0..(n - 1), tail : 0..n, current : 0..n, capacity : {n},
   received : Nat, allocated : BOOLEAN,
   rows : [0..(n - 1) -> [row : Nat, data : Nat]]]

BufferOK(buf) == buf.capacity \in Nat \ {0} /\ buf \in RowBuffers(buf.capacity)

\* how many rows were added to the buffer before slot i's
Age(buf, i) == IF i >= buf.tail THEN i - buf.tail
               ELSE i + buf.capacity - buf.tail

RingOf(buf) ==
  LET n == buffer_count(buf)
  IN  /\ n = 0 <=> buf.tail = buf.capacity
      /\ n <= buf.received
      /\ \A i \in Slots(buf) :
           buf.rows[i].row =
             IF n # 0 /\ Age(buf, i) < n THEN buf.received - n + Age(buf, i) + 1
             ELSE 0

\* the slot of the row read last
LastSlot(buf) == IF buf.head = 0 THEN buf.capacity - 1 ELSE buf.head - 1

\* every row but the last has its values saved, the last one may
Kept(buf, skipped) ==
  \A i \in Filled(buf) :
    /\ i # LastSlot(buf) => buf.rows[i].data # 0
    /\ ~skipped /\ buf.rows[i].data # 0 =>
         buf.rows[i].data = buf.rows[i].row

\* where dbnextrow goes on: at the row after at_row, when it is buffered, or
\* with the next row of the server
Placed(buf, at_row) ==
  \/ at_row = Cleared
  \/ at_row = buf.received /\ ~HasCurrent(buf)
  \/ /\ buf.capacity > 1 /\ buf.current \in Filled(buf)
     /\ buf.rows[buf.current].row = at_row + 1

---------------------------------------------------------------------------
(* What the operations of the buffer preserve.                             *)

LEMMA EmptiedRing ==
  ASSUME NEW buf, BufferOK(buf)
  PROVE  /\ BufferOK(Emptied(buf)) /\ RingOf(Emptied(buf))
         /\ Filled(Emptied(buf)) = {}
         /\ Emptied(buf).received = 0
<1> DEFINE e == Emptied(buf)
           n == buf.capacity
           none == [i \in 0..(n - 1) |-> NoRow]
<1>1. none \in [0..(n - 1) -> [row : Nat, data : Nat]]
  BY DEF NoRow
<1>2. e = [head |-> 0, tail |-> n, current |-> n, capacity |-> n,
           received |-> 0, allocated |-> TRUE, rows |-> none]
  <2> HIDE DEF none
  <2>1. e = [buf EXCEPT !.head = 0, !.tail = n, !.current = n,
                        !.received = 0, !.allocated = TRUE, !.rows = none]
    BY DEF Emptied, none
  <2>2. QED BY <2>1 DEF BufferOK, RowBuffers
<1>3. BufferOK(e)
  <2> HIDE DEF e, none
  <2>1. QED BY <1>1, <1>2 DEF BufferOK, RowBuffers
<1>4. RingOf(e) /\ Filled(e) = {} /\ e.received = 0
  <2> HIDE DEF e
  <2>1. \A i \in 0..(n - 1) : e.rows[i].row = 0
    BY <1>2 DEF NoRow
  <2>2. e.head = 0 /\ e.tail = n /\ e.capacity = n /\ e.received = 0
    BY <1>2
  <2>3. n \in Nat \ {0}
    BY DEF BufferOK
  <2> HIDE DEF n, none
  <2>4. QED BY <2>1, <2>2, <2>3 DEF RingOf, buffer_count, Slots, Age, Filled
<1>5. QED BY <1>3, <1>4

LEMMA SteppedRing ==
  ASSUME NEW buf, BufferOK(buf)
  PROVE  /\ BufferOK(Stepped(buf))
         /\ RingOf(buf) => RingOf(Stepped(buf))
         /\ Filled(Stepped(buf)) = Filled(buf)
         /\ \A f \in {"head", "tail", "capacity", "rows", "received", "allocated"} :
              Stepped(buf)[f] = buf[f]
<1>1. BufferOK(Stepped(buf))
  BY DEF BufferOK, RowBuffers, Stepped, buffer_idx_increment
<1>2. \A f \in {"head", "tail", "capacity", "rows", "received", "allocated"} :
        Stepped(buf)[f] = buf[f]
  BY DEF BufferOK, RowBuffers, Stepped
<1>3. Filled(Stepped(buf)) = Filled(buf)
  BY <1>2 DEF Filled
<1>4. RingOf(buf) => RingOf(Stepped(buf))
  BY <1>2 DEF RingOf, buffer_count, Slots, Age
<1>5. QED BY <1>1, <1>2, <1>3, <1>4

LEMMA SavedRing ==
  ASSUME NEW buf, BufferOK(buf), NEW read \in Nat
  PROVE  /\ BufferOK(Saved(buf, read))
         /\ RingOf(buf) => RingOf(Saved(buf, read))
         /\ \A f \in {"head", "tail", "capacity", "received", "allocated"} :
              Saved(buf, read)[f] = buf[f]
         /\ \A i \in Slots(buf) :
              /\ Saved(buf, read).rows[i].row = buf.rows[i].row
              /\ Saved(buf, read).rows[i].data =
                   IF /\ buf.capacity > 1 /\ i = LastSlot(buf)
                      /\ buf.rows[i].row # 0 /\ buf.rows[i].data = 0
                   THEN read ELSE buf.rows[i].data
<1> DEFINE s == Saved(buf, read)
           idx == LastSlot(buf)
           slot == [buf.rows[idx] EXCEPT !.data =
                      IF buf.rows[idx].row # 0 /\ @ = 0 THEN read ELSE @]
<1>1. CASE buf.capacity <= 1
  BY <1>1 DEF Saved, BufferOK
<1>2. CASE buf.capacity > 1
  <2>1. idx \in Slots(buf)
    BY <1>2 DEF LastSlot, Slots, BufferOK, RowBuffers
  <2>2. buf.rows \in [Slots(buf) -> [row : Nat, data : Nat]]
    BY DEF BufferOK, RowBuffers, Slots
  <2>3. /\ slot \in [row : Nat, data : Nat]
        /\ slot.row = buf.rows[idx].row
        /\ slot.data = IF buf.rows[idx].row # 0 /\ buf.rows[idx].data = 0
                       THEN read ELSE buf.rows[idx].data
    BY <2>1, <2>2
  <2>4. s = [buf EXCEPT !.rows = [buf.rows EXCEPT ![idx] = slot]]
    BY <1>2 DEF Saved, LastSlot, BufferOK
  <2> HIDE DEF s, slot, idx
  <2> DEFINE rows == [buf.rows EXCEPT ![idx] = slot]
  <2>5. rows \in [Slots(buf) -> [row : Nat, data : Nat]]
    BY <2>1, <2>2, <2>3
  <2>6. \A i \in Slots(buf) : rows[i] = IF i = idx THEN slot ELSE buf.rows[i]
    BY <2>1, <2>2
  <2> HIDE DEF rows
  <2>7. BufferOK(s) /\ s.rows = rows
    BY <2>4, <2>5 DEF BufferOK, RowBuffers, Slots, rows
  <2>8. \A f \in {"head", "tail", "capacity", "received", "allocated"} :
          s[f] = buf[f]
    BY <2>4 DEF BufferOK, RowBuffers
  <2>9. \A i \in Slots(buf) :
          /\ s.rows[i].row = buf.rows[i].row
          /\ s.rows[i].data = IF /\ i = idx /\ buf.rows[i].row # 0
                                 /\ buf.rows[i].data = 0
                              THEN read ELSE buf.rows[i].data
    BY <2>3, <2>6, <2>7
  <2>10. RingOf(buf) => RingOf(s)
    BY <2>8, <2>9 DEF RingOf, buffer_count, Slots, Age
  <2>11. QED BY <1>2, <2>7, <2>8, <2>9, <2>10 DEF idx, s
<1>3. QED BY <1>1, <1>2 DEF BufferOK

LEMMA AddedRing ==
  ASSUME NEW buf, BufferOK(buf), RingOf(buf), ~buffer_is_full(buf)
  PROVE  /\ BufferOK(Added(buf)) /\ RingOf(Added(buf))
         /\ Added(buf).received = buf.received + 1
         /\ Added(buf).allocated = buf.allocated
         /\ Added(buf).current = buf.head
         /\ Added(buf).capacity = buf.capacity
         /\ Added(buf).rows[buf.head] = [row |-> buf.received + 1, data |-> 0]
         /\ \A i \in Filled(Added(buf)) \ {buf.head} :
              i \in Filled(buf) /\ Added(buf).rows[i] = buf.rows[i]
         /\ LastSlot(Added(buf)) = buf.head
<1> DEFINE b == Added(buf)
           new == [row |-> buf.received + 1, data |-> 0]
           rows == [buf.rows EXCEPT ![buf.head] = new]
           tail == IF buf.tail = buf.capacity THEN 0 ELSE buf.tail
           head == buffer_idx_increment(buf, buf.head)
<1>1. /\ buf.capacity \in Nat \ {0} /\ buf.head \in 0..(buf.capacity - 1)
      /\ buf.tail \in 0..buf.capacity /\ buf.received \in Nat
      /\ buf.rows \in [Slots(buf) -> [row : Nat, data : Nat]]
  BY DEF BufferOK, RowBuffers, Slots
<1>2. /\ head \in 0..(buf.capacity - 1) /\ tail \in 0..(buf.capacity - 1)
      /\ head = IF buf.head + 1 = buf.capacity THEN 0 ELSE buf.head + 1
  BY <1>1 DEF buffer_idx_increment
<1>3. /\ rows \in [Slots(buf) -> [row : Nat, data : Nat]]
      /\ \A i \in Slots(buf) :
           rows[i] = IF i = buf.head THEN new ELSE buf.rows[i]
  BY <1>1 DEF Slots
<1>4. b = [buf EXCEPT !.rows = rows, !.received = buf.received + 1,
                      !.tail = tail, !.current = buf.head, !.head = head]
  BY DEF Added, buffer_idx_increment
<1> HIDE DEF b, rows, tail, head
<1>5. /\ b = [head |-> head, tail |-> tail, current |-> buf.head,
              capacity |-> buf.capacity, received |-> buf.received + 1,
              allocated |-> buf.allocated, rows |-> rows]
      /\ buf.allocated \in BOOLEAN
  BY <1>4 DEF BufferOK, RowBuffers
<1>6. BufferOK(b)
  <2>1. b \in RowBuffers(buf.capacity)
    <3>1. buf.head \in 0..buf.capacity /\ tail \in 0..buf.capacity
      BY <1>1, <1>2
    <3>2. buf.received + 1 \in Nat
      BY <1>1
    <3>3. rows \in [0..(buf.capacity - 1) -> [row : Nat, data : Nat]]
      BY <1>3 DEF Slots
    <3>4. QED BY <1>2, <1>5, <3>1, <3>2, <3>3 DEF RowBuffers
  <2>2. b.capacity = buf.capacity
    BY <1>5
  <2>3. QED BY <2>1, <2>2, <1>1 DEF BufferOK
<1>7. /\ b.head = head /\ b.tail = tail /\ b.capacity = buf.capacity
      /\ b.received = buf.received + 1 /\ b.rows = rows
      /\ b.current = buf.head /\ b.allocated = buf.allocated
  BY <1>5
<1>8. \A i \in Slots(buf) :
        b.rows[i].row = IF i = buf.head THEN buf.received + 1 ELSE buf.rows[i].row
  BY <1>3, <1>7
<1>9. RingOf(b)
  <2> DEFINE m == buffer_count(buf)
             n == buffer_count(b)
  <2>1. /\ m \in 0..buf.capacity /\ n \in 1..buf.capacity
        /\ n = IF buf.capacity = 1 THEN 1 ELSE m + 1
        /\ n <= b.received /\ b.tail # b.capacity
    <3>1. /\ m = 0 <=> buf.tail = buf.capacity
          /\ m <= buf.received /\ (m # buf.capacity \/ buf.capacity <= 1)
      BY <1>1 DEF RingOf, buffer_is_full
    <3>2. m \in 0..buf.capacity
      BY <1>1 DEF buffer_count
    <3>3. m = IF buf.head > buf.tail THEN buf.head - buf.tail
              ELSE buf.capacity - (buf.tail - buf.head)
      BY DEF buffer_count
    <3>4. n = IF b.head > b.tail THEN b.head - b.tail
              ELSE b.capacity - (b.tail - b.head)
      BY DEF buffer_count
    <3> HIDE DEF m, n
    <3>5. CASE buf.tail = buf.capacity
      BY <3>1, <3>2, <3>3, <3>4, <3>5, <1>1, <1>2, <1>7 DEF tail
    <3>6. CASE buf.tail # buf.capacity
      <4>1. m > 0 /\ tail = buf.tail
        BY <3>1, <3>2, <3>6 DEF tail
      <4>2. CASE buf.capacity = 1
        <5>1. b.tail = 0 /\ b.head = 0 /\ b.capacity = 1
          BY <4>1, <4>2, <3>6, <1>1, <1>2, <1>7
        <5>2. n = 1
          BY <5>1, <3>4
        <5>3. QED BY <5>1, <5>2, <4>2, <3>2, <1>1, <1>7
      <4>3. CASE buf.capacity # 1
        <5>1. n = m + 1
          BY <4>1, <4>3, <3>1, <3>3, <3>4, <3>6, <1>1, <1>2, <1>7
        <5>2. QED BY <5>1, <4>1, <4>3, <3>1, <3>2, <3>6, <1>1, <1>7
      <4>4. QED BY <4>2, <4>3
    <3>7. QED BY <3>5, <3>6
  <2>2. ASSUME NEW i \in Slots(buf)
        PROVE  b.rows[i].row = IF Age(b, i) < n
                               THEN b.received - n + Age(b, i) + 1 ELSE 0
    <3>1. /\ i \in Int /\ 0 <= i /\ i < buf.capacity
          /\ buf.rows[i].row = IF m # 0 /\ Age(buf, i) < m
                               THEN buf.received - m + Age(buf, i) + 1 ELSE 0
      BY <1>1 DEF RingOf, Slots
    <3>2. CASE buf.tail = buf.capacity
      <4>1. m = 0 /\ buf.head = 0
        BY <3>2, <1>1, <2>1 DEF RingOf, buffer_count
      <4>2. b.tail = 0 /\ n = 1
        BY <3>2, <4>1, <1>7, <2>1 DEF tail
      <4>3. QED BY <4>1, <4>2, <3>1, <1>1, <1>7, <1>8 DEF Age
    <3>3. CASE buf.tail # buf.capacity /\ buf.capacity = 1
      BY <3>1, <3>3, <1>1, <1>7, <1>8, <2>1 DEF Age, tail
    <3>4. CASE buf.tail # buf.capacity /\ buf.capacity # 1
      <4>1. b.tail = buf.tail /\ Age(b, i) = Age(buf, i) /\ n = m + 1
        BY <3>4, <1>1, <1>7, <2>1 DEF Age, tail
      <4>2. m # 0 /\ Age(buf, i) \in Nat
        BY <3>1, <3>4, <1>1 DEF RingOf, Age
      <4>3. i = buf.head <=> Age(buf, i) = m
        BY <3>1, <3>4, <1>1, <2>1 DEF Age, buffer_count, buffer_is_full
      <4>4. QED BY <4>1, <4>2, <4>3, <3>1, <1>1, <1>7, <1>8, <2>1
    <3>5. QED BY <3>2, <3>3, <3>4
  <2>3. QED BY <2>1, <2>2, <1>7 DEF RingOf, Slots
<1>10. ASSUME NEW i \in Filled(b) \ {buf.head}
       PROVE  i \in Filled(buf) /\ i \in Slots(buf)
  <2>1. CASE buf.tail = buf.capacity
    <3>1. buf.head = 0
      BY <2>1, <1>1 DEF RingOf, buffer_count
    <3>2. QED BY <2>1, <3>1, <1>1, <1>2, <1>7 DEF Filled, tail
  <2>2. CASE buf.tail # buf.capacity
    BY <2>2, <1>1, <1>2, <1>7 DEF Filled, tail, Slots, buffer_is_full, buffer_count
  <2>3. QED BY <2>1, <2>2
<1>12. LastSlot(b) = buf.head
  BY <1>1, <1>2, <1>7 DEF LastSlot
<1>11. QED BY <1>1, <1>3, <1>6, <1>7, <1>9, <1>10, <1>12 DEF b, Slots

\* a slot that holds a row is between tail and head
LEMMA RowsAreFilled ==
  ASSUME NEW buf, BufferOK(buf), RingOf(buf), NEW i \in Slots(buf),
         buf.rows[i].row # 0
  PROVE  i \in Filled(buf)
<1> DEFINE n == buffer_count(buf)
<1>1. /\ buf.capacity \in Nat \ {0} /\ buf.head \in 0..(buf.capacity - 1)
      /\ buf.tail \in 0..buf.capacity /\ i \in 0..(buf.capacity - 1)
  BY DEF BufferOK, RowBuffers, Slots
<1>2. /\ n # 0 /\ buf.tail # buf.capacity /\ Age(buf, i) < n
  BY DEF RingOf
<1>3. n = IF buf.head > buf.tail THEN buf.head - buf.tail
          ELSE buf.capacity - (buf.tail - buf.head)
  BY DEF buffer_count
<1>4. Age(buf, i) = IF i >= buf.tail THEN i - buf.tail
                    ELSE i + buf.capacity - buf.tail
  BY DEF Age
<1> HIDE DEF n
<1>5. CASE buf.tail < buf.head
  BY <1>1, <1>2, <1>3, <1>4, <1>5 DEF Filled
<1>6. CASE buf.tail >= buf.head
  <2>1. buf.tail <= i \/ i < buf.head
    BY <1>1, <1>2, <1>3, <1>4, <1>6
  <2>2. QED BY <1>1, <1>2, <1>6, <2>1 DEF Filled
<1>7. QED BY <1>1, <1>5, <1>6

LEMMA DeletedRing ==
  ASSUME NEW buf, BufferOK(buf), RingOf(buf),
         NEW n \in Nat, n < buffer_count(buf)
  PROVE  /\ BufferOK(Deleted(buf, n)) /\ RingOf(Deleted(buf, n))
         /\ Deleted(buf, n).received = buf.received
         /\ Deleted(buf, n).allocated = buf.allocated
         /\ LastSlot(Deleted(buf, n)) = LastSlot(buf)
         /\ \A i \in Filled(Deleted(buf, n)) :
              i \in Filled(buf) /\ Deleted(buf, n).rows[i] = buf.rows[i]
         /\ \A i \in Filled(buf) :
              buf.rows[i].row > buf.received - buffer_count(buf) + n
                => i \in Filled(Deleted(buf, n))
<1> DEFINE d == Deleted(buf, n)
           past == buf.tail + n
           gone(i) == \/ buf.tail <= i /\ i < past
                      \/ i + buf.capacity < past
           rows == [i \in Slots(buf) |-> IF gone(i) THEN NoRow ELSE buf.rows[i]]
           tail == IF past >= buf.capacity THEN past - buf.capacity ELSE past
<1>1. /\ buf.capacity \in Nat \ {0} /\ buf.head \in 0..(buf.capacity - 1)
      /\ buf.tail \in 0..buf.capacity /\ buf.received \in Nat
      /\ buf.current \in 0..buf.capacity /\ buf.allocated \in BOOLEAN
      /\ buf.rows \in [Slots(buf) -> [row : Nat, data : Nat]]
  BY DEF BufferOK, RowBuffers, Slots
<1>2. buf.tail < buf.capacity /\ tail \in 0..(buf.capacity - 1)
  BY <1>1 DEF RingOf, buffer_count
<1>3. /\ rows \in [Slots(buf) -> [row : Nat, data : Nat]]
      /\ \A i \in Slots(buf) : rows[i] = IF gone(i) THEN NoRow ELSE buf.rows[i]
  BY <1>1 DEF NoRow
<1>4. d = [buf EXCEPT !.tail = tail, !.rows = rows]
  BY DEF Deleted, Slots
<1> HIDE DEF d, rows, tail
<1>5. d = [head |-> buf.head, tail |-> tail, current |-> buf.current,
           capacity |-> buf.capacity, received |-> buf.received,
           allocated |-> buf.allocated, rows |-> rows]
  BY <1>4 DEF BufferOK, RowBuffers
<1>6. BufferOK(d)
  BY <1>1, <1>2, <1>3, <1>5 DEF BufferOK, RowBuffers, Slots
<1>7. /\ d.head = buf.head /\ d.tail = tail /\ d.capacity = buf.capacity
      /\ d.received = buf.received /\ d.rows = rows
      /\ d.allocated = buf.allocated
  BY <1>5
<1>8. \A i \in Slots(buf) :
        d.rows[i].row = IF gone(i) THEN 0 ELSE buf.rows[i].row
  BY <1>3, <1>7 DEF NoRow
<1>9. RingOf(d)
  <2> DEFINE m == buffer_count(buf)
  <2>1. /\ m \in 1..buf.capacity /\ buffer_count(d) = m - n
        /\ m <= buf.received
    BY <1>1, <1>2, <1>7 DEF RingOf, buffer_count, tail
  <2>2. ASSUME NEW i \in Slots(buf)
        PROVE  d.rows[i].row =
                 IF m - n # 0 /\ Age(d, i) < m - n
                 THEN buf.received - (m - n) + Age(d, i) + 1 ELSE 0
    <3>1. /\ i \in Int /\ 0 <= i /\ i < buf.capacity
          /\ buf.rows[i].row = IF m # 0 /\ Age(buf, i) < m
                               THEN buf.received - m + Age(buf, i) + 1 ELSE 0
      BY <1>1 DEF RingOf, Slots
    <3>2. /\ gone(i) <=> Age(buf, i) < n
          /\ Age(buf, i) \in 0..(buf.capacity - 1)
          /\ Age(d, i) = IF gone(i) THEN Age(buf, i) - n + buf.capacity
                         ELSE Age(buf, i) - n
      BY <3>1, <1>1, <1>2, <1>7, <2>1 DEF Age, tail
    <3>3. n \in Nat /\ n < m /\ buf.capacity \in Nat /\ buf.received \in Nat
      BY <1>1
    <3> HIDE DEF m
    <3>4. CASE gone(i)
      BY <3>1, <3>2, <3>3, <3>4, <1>8, <2>1
    <3>5. CASE ~gone(i)
      BY <3>1, <3>2, <3>3, <3>5, <1>8, <2>1
    <3>6. QED BY <3>4, <3>5
  <2>3. QED BY <2>1, <2>2, <1>1, <1>2, <1>7 DEF RingOf, Slots
<1>10. ASSUME NEW i \in Filled(d)
       PROVE  i \in Filled(buf) /\ i \in Slots(buf) /\ ~gone(i)
  <2>1. n < IF buf.head > buf.tail THEN buf.head - buf.tail
            ELSE buf.capacity - (buf.tail - buf.head)
    BY DEF buffer_count
  <2>2. \/ tail < buf.head /\ i \in Int /\ tail <= i /\ i < buf.head
        \/ /\ tail >= buf.head /\ i \in Int /\ 0 <= i /\ i < buf.capacity
           /\ (tail <= i \/ i < buf.head)
    BY <1>1, <1>2, <1>7 DEF Filled
  <2>3. i \in Slots(buf) /\ ~gone(i)
    <3>1. CASE past >= buf.capacity
      <4>1. buf.head <= buf.tail
        BY <3>1, <2>1, <1>1
      <4>2. tail = past - buf.capacity /\ tail < buf.head
        BY <3>1, <4>1, <2>1, <1>1 DEF tail
      <4>3. i \in Int /\ tail <= i /\ i < buf.head
        BY <4>2, <2>2, <1>1, <1>2
      <4>4. QED BY <4>1, <4>2, <4>3, <1>1, <1>2 DEF Slots
    <3>2. CASE past < buf.capacity
      <4>1. tail = past /\ past \in Int
        BY <3>2, <1>1, <1>2 DEF tail
      <4>2. i \in Int
        BY <2>2, <1>1
      <4>3. buf.tail < buf.head => past < buf.head
        BY <2>1, <1>1
      <4> HIDE DEF past
      <4>4. \/ tail <= i /\ i < buf.capacity
            \/ buf.tail >= buf.head /\ 0 <= i /\ i < buf.head
        BY <3>2, <2>2, <4>1, <4>2, <4>3, <1>1
      <4>5. QED BY <3>2, <2>1, <4>1, <4>2, <4>4, <1>1 DEF past, Slots
    <3>3. QED BY <3>1, <3>2, <1>1
  <2>4. \/ buf.tail < buf.head /\ buf.tail <= i /\ i < buf.head
        \/ buf.tail >= buf.head /\ (buf.tail <= i \/ i < buf.head)
    BY <2>1, <2>2, <1>1, <1>2 DEF tail
  <2>5. QED BY <2>3, <2>4, <1>1, <1>2 DEF Filled, Slots
<1>11. ASSUME NEW i \in Filled(buf),
              buf.rows[i].row > buf.received - buffer_count(buf) + n
       PROVE  i \in Filled(d)
  <2> DEFINE m == buffer_count(buf)
             a == Age(buf, i)
  <2>1. i \in Int /\ 0 <= i /\ i < buf.capacity
    BY <1>1 DEF Filled
  <2>2. /\ m \in Int /\ a = IF i >= buf.tail THEN i - buf.tail
                             ELSE i + buf.capacity - buf.tail
        /\ buf.rows[i].row = IF m # 0 /\ a < m THEN buf.received - m + a + 1
                             ELSE 0
    BY <1>1, <2>1 DEF RingOf, Age, buffer_count, Slots
  <2>3. m <= buf.received
    BY DEF RingOf
  <2>4. a \in Int /\ a >= n
    <3> HIDE DEF m, a
    <3>1. buf.rows[i].row > buf.received - m + n
      BY <1>11 DEF m
    <3>2. QED BY <3>1, <2>1, <2>2, <2>3, <1>1
  <2>5. ~gone(i) /\ buf.rows[i].row # 0
    <3>1. buf.rows[i].row > buf.received - m + n
      BY <1>11
    <3> HIDE DEF m, a
    <3>2. QED BY <3>1, <2>1, <2>2, <2>3, <2>4, <1>1, <1>2
  <2>6. i \in Slots(buf) /\ i \in Slots(d) /\ d.rows[i].row # 0
    BY <2>1, <2>5, <1>1, <1>7, <1>8 DEF Slots
  <2>7. QED BY <2>6, <1>6, <1>9, RowsAreFilled
<1>12. QED BY <1>3, <1>6, <1>7, <1>9, <1>10, <1>11 DEF d, LastSlot

\* the rows of a ring, and where the next one and the last one are
LEMMA FilledRows ==
  ASSUME NEW buf, BufferOK(buf), RingOf(buf), NEW i \in Filled(buf)
  PROVE  /\ i \in Slots(buf)
         /\ buf.rows[i].row \in 1..buf.received
         /\ i = LastSlot(buf) <=> buf.rows[i].row = buf.received
         /\ i # LastSlot(buf) =>
              /\ buffer_idx_increment(buf, i) \in Filled(buf)
              /\ buf.rows[buffer_idx_increment(buf, i)].row = buf.rows[i].row + 1
         /\ i = buf.head /\ buf.capacity > 1 => buffer_is_full(buf)
<1> DEFINE n == buffer_count(buf)
           c == buf.capacity
           h == buf.head
           t == buf.tail
           next == buffer_idx_increment(buf, i)
<1>1. /\ c \in Nat \ {0} /\ h \in Int /\ 0 <= h /\ h < c
      /\ t \in Int /\ 0 <= t /\ t <= c /\ buf.received \in Nat
  BY DEF BufferOK, RowBuffers
<1>2. /\ t < c /\ i \in Int /\ 0 <= i /\ i < c
      /\ \/ t < h /\ t <= i /\ i < h
         \/ t >= h /\ (t <= i \/ i < h)
  BY <1>1 DEF Filled
<1>3. /\ n = IF h > t THEN h - t ELSE c - (t - h)
      /\ n \in Int /\ 0 < n /\ n <= c /\ n <= buf.received
  BY <1>1, <1>2 DEF buffer_count, RingOf
<1>4. \A j \in Slots(buf) :
        buf.rows[j].row = IF Age(buf, j) < n
                          THEN buf.received - n + Age(buf, j) + 1 ELSE 0
  BY <1>3 DEF RingOf
<1>5. \A j \in Slots(buf) : Age(buf, j) = IF j >= t THEN j - t ELSE j + c - t
  BY DEF Age
<1>6. i \in Slots(buf) /\ next \in Slots(buf)
  BY <1>1, <1>2 DEF Slots, buffer_idx_increment
<1>7. next = IF i + 1 = c THEN 0 ELSE i + 1
  BY <1>1, <1>2 DEF buffer_idx_increment
<1> DEFINE a == Age(buf, i)
<1>8. a \in Int /\ 0 <= a /\ a < n
  <2>1. a = IF i >= t THEN i - t ELSE i + c - t
    BY <1>5, <1>6
  <2> HIDE DEF a, n, c, h, t
  <2>2. QED BY <2>1, <1>1, <1>2, <1>3
<1>9. i = LastSlot(buf) <=> a = n - 1
  <2>1. a = IF i >= t THEN i - t ELSE i + c - t
    BY <1>5, <1>6
  <2>2. LastSlot(buf) = IF h = 0 THEN c - 1 ELSE h - 1
    BY DEF LastSlot
  <2> HIDE DEF a, n, c, h, t
  <2>3. CASE t < h
    BY <2>1, <2>2, <2>3, <1>1, <1>2, <1>3
  <2>4. CASE t >= h
    BY <2>1, <2>2, <2>4, <1>1, <1>2, <1>3
  <2>5. QED BY <2>3, <2>4, <1>1
<1>10. ASSUME i # LastSlot(buf)
       PROVE  next \in Filled(buf) /\ Age(buf, next) = a + 1
  <2>1. /\ a = IF i >= t THEN i - t ELSE i + c - t
        /\ Age(buf, next) = IF next >= t THEN next - t ELSE next + c - t
    BY <1>5, <1>6
  <2>2. i # IF h = 0 THEN c - 1 ELSE h - 1
    BY <1>10 DEF LastSlot
  <2>3. /\ next \in Int /\ 0 <= next /\ next < c
        /\ \/ t < h /\ t <= next /\ next < h
           \/ t >= h /\ (t <= next \/ next < h)
    <3> HIDE DEF a, n, c, h, t, next
    <3>1. QED BY <2>2, <1>1, <1>2, <1>7
  <2>4. Age(buf, next) = a + 1
    <3> HIDE DEF a, n, c, h, t, next
    <3>1. QED BY <2>1, <2>2, <2>3, <1>1, <1>2, <1>7
  <2>5. next \in Filled(buf)
    BY <2>3, <1>1, <1>2 DEF Filled
  <2>6. QED BY <2>4, <2>5
<1>11. buf.rows[i].row = buf.received - n + a + 1
  BY <1>4, <1>6, <1>8
<1>12. i # LastSlot(buf) => buf.rows[next].row = buf.received - n + a + 2
  <2> SUFFICES ASSUME i # LastSlot(buf)
               PROVE  buf.rows[next].row = buf.received - n + a + 2
    OBVIOUS
  <2>1. Age(buf, next) = a + 1 /\ a + 1 < n
    BY <1>8, <1>9, <1>10, <1>3
  <2>2. buf.rows[next].row = buf.received - n + (a + 1) + 1
    BY <2>1, <1>4, <1>6
  <2> HIDE DEF a, n
  <2>3. QED BY <2>2, <1>1, <1>3, <1>8
<1>13. i = h /\ c > 1 => n = c
  BY <1>1, <1>2, <1>3
<1>14. buffer_is_full(buf) <=> n = c /\ c > 1
  BY <1>1, <1>3 DEF buffer_is_full
<1> HIDE DEF a, n, c, h, t
<1>15. QED
  <2>1. /\ buf.rows[i].row \in 1..buf.received
        /\ i = LastSlot(buf) <=> buf.rows[i].row = buf.received
    BY <1>1, <1>3, <1>8, <1>9, <1>11
  <2>2. i # LastSlot(buf) => buf.rows[next].row = buf.rows[i].row + 1
    BY <1>1, <1>3, <1>8, <1>11, <1>12
  <2>3. QED BY <2>1, <2>2, <1>6, <1>10, <1>13, <1>14 DEF c, h

\* the row read last is where its number says
ReadLast(buf, skipped, read) ==
  /\ read \in Nat /\ read >= buf.received
  /\ ~skipped => read = buf.received

LEMMA SavedKept ==
  ASSUME NEW buf, BufferOK(buf), RingOf(buf), NEW skipped \in BOOLEAN,
         Kept(buf, skipped), NEW read, ReadLast(buf, skipped, read)
  PROVE  /\ Kept(Saved(buf, read), skipped)
         /\ Filled(Saved(buf, read)) = Filled(buf)
         /\ buf.capacity > 1 =>
              \A i \in Filled(buf) : Saved(buf, read).rows[i].data # 0
         /\ buffer_is_full(Saved(buf, read)) <=> buffer_is_full(buf)
<1> DEFINE s == Saved(buf, read)
<1>1. /\ \A f \in {"head", "tail", "capacity", "received", "allocated"} :
           s[f] = buf[f]
      /\ \A i \in Slots(buf) :
           /\ s.rows[i].row = buf.rows[i].row
           /\ s.rows[i].data = IF /\ buf.capacity > 1 /\ i = LastSlot(buf)
                                  /\ buf.rows[i].row # 0 /\ buf.rows[i].data = 0
                               THEN read ELSE buf.rows[i].data
  BY SavedRing DEF ReadLast
<1> HIDE DEF s
<1>2. Filled(s) = Filled(buf) /\ LastSlot(s) = LastSlot(buf)
  BY <1>1 DEF Filled, LastSlot
<1>3. ASSUME NEW i \in Filled(buf)
      PROVE  /\ i # LastSlot(s) => s.rows[i].data # 0
             /\ ~skipped /\ s.rows[i].data # 0 => s.rows[i].data = s.rows[i].row
             /\ buf.capacity > 1 => s.rows[i].data # 0
  <2>1. /\ i \in Slots(buf) /\ buf.rows[i].row \in 1..buf.received
        /\ i = LastSlot(buf) <=> buf.rows[i].row = buf.received
    BY FilledRows
  <2>2. buf.received \in Nat /\ read \in Nat /\ read # 0
    BY <2>1 DEF BufferOK, RowBuffers, ReadLast
  <2>3. QED BY <1>1, <1>2, <2>1, <2>2 DEF Kept, ReadLast
<1>4. buffer_is_full(s) <=> buffer_is_full(buf)
  BY <1>1 DEF buffer_is_full, buffer_count
<1>5. QED BY <1>2, <1>3, <1>4 DEF Kept, s

\* dbnextrow reads a row: the buffer keeps the others' values and goes on
\* after the new row
LEMMA ReadRow ==
  ASSUME NEW old, BufferOK(old), RingOf(old), NEW skipped \in BOOLEAN,
         Kept(old, skipped), NEW read, ReadLast(old, skipped, read),
         ~buffer_is_full(old),
         NEW b, b = Added(Saved(old, read))
  PROVE  /\ BufferOK(b) /\ RingOf(b) /\ Kept(b, skipped)
         /\ ReadLast(b, skipped, read + 1)
         /\ b.received = old.received + 1 /\ b.allocated = old.allocated
         /\ b.current \in Filled(b)
         /\ b.rows[b.current] = [row |-> b.received, data |-> 0]
<1> DEFINE s == Saved(old, read)
<1>1. /\ BufferOK(s) /\ RingOf(s) /\ Kept(s, skipped) /\ ~buffer_is_full(s)
      /\ s.received = old.received /\ s.capacity = old.capacity
      /\ s.allocated = old.allocated /\ Filled(s) = Filled(old)
      /\ s.capacity > 1 => \A i \in Filled(s) : s.rows[i].data # 0
  BY SavedRing, SavedKept DEF ReadLast
<1> HIDE DEF s
<1>2. /\ BufferOK(b) /\ RingOf(b) /\ b.received = s.received + 1
      /\ b.allocated = s.allocated /\ b.current = s.head
      /\ b.capacity = s.capacity
      /\ b.rows[s.head] = [row |-> s.received + 1, data |-> 0]
      /\ \A i \in Filled(b) \ {s.head} :
           i \in Filled(s) /\ b.rows[i] = s.rows[i]
      /\ LastSlot(b) = s.head
  BY <1>1, AddedRing DEF s
<1>3. Kept(b, skipped)
  <2>1. CASE s.capacity > 1
    BY <2>1, <1>1, <1>2 DEF Kept
  <2>2. CASE s.capacity <= 1
    <3>1. \A i \in Slots(s) : i = s.head
      <4>1. s.capacity \in Nat \ {0} /\ s.head \in 0..(s.capacity - 1)
        BY <1>1 DEF BufferOK, RowBuffers
      <4>2. QED BY <4>1, <2>2 DEF Slots
    <3>2. \A i \in Filled(b) : i \in Slots(s)
      BY <1>2, FilledRows DEF Slots
    <3>3. QED BY <3>1, <3>2, <1>2 DEF Kept
  <2>3. QED BY <2>1, <2>2, <1>1 DEF BufferOK
<1>4. ReadLast(b, skipped, read + 1)
  <2>1. old.received \in Nat
    BY DEF BufferOK, RowBuffers
  <2>2. QED BY <2>1, <1>1, <1>2 DEF ReadLast
<1>5. b.current \in Filled(b)
  <2>1. /\ s.capacity \in Nat \ {0} /\ s.head \in 0..(s.capacity - 1)
        /\ s.tail \in 0..s.capacity
    BY <1>1 DEF BufferOK, RowBuffers
  <2>2. b.received \in Nat /\ b.rows[s.head].row # 0 /\ s.head \in Slots(b)
    BY <1>1, <1>2, <2>1 DEF BufferOK, RowBuffers, Slots
  <2>3. b.tail # b.capacity
    BY <2>2, <1>2 DEF RingOf
  <2>4. /\ b.capacity \in Nat \ {0} /\ b.head \in 0..(b.capacity - 1)
        /\ b.tail \in 0..b.capacity /\ s.head \in 0..(b.capacity - 1)
    BY <1>2, <2>1 DEF BufferOK, RowBuffers
  <2>5. s.head = IF b.head = 0 THEN b.capacity - 1 ELSE b.head - 1
    BY <1>2 DEF LastSlot
  <2> QED BY <1>2, <2>3, <2>4, <2>5 DEF Filled
<1>6. QED BY <1>1, <1>2, <1>3, <1>4, <1>5

LEMMA MovedTo ==
  ASSUME NEW buf, BufferOK(buf), NEW i \in Slots(buf),
         NEW m, m = [buf EXCEPT !.current = i]
  PROVE  /\ BufferOK(m) /\ m.current = i
         /\ \A f \in {"head", "tail", "capacity", "rows", "received", "allocated"} :
              m[f] = buf[f]
<1>1. /\ m.current = i
      /\ \A f \in {"head", "tail", "capacity", "rows", "received", "allocated"} :
           m[f] = buf[f]
  BY DEF BufferOK, RowBuffers
<1>2. m \in RowBuffers(buf.capacity)
  <2>1. i \in 0..buf.capacity
    BY DEF BufferOK, Slots
  <2>2. QED BY <2>1 DEF BufferOK, RowBuffers
<1>3. QED BY <1>1, <1>2 DEF BufferOK

\* after the row at slot i was transferred
LEMMA SteppedPlaced ==
  ASSUME NEW buf, BufferOK(buf), RingOf(buf), NEW i \in Filled(buf),
         NEW b, b = Stepped([buf EXCEPT !.current = i])
  PROVE  /\ BufferOK(b) /\ RingOf(b) /\ Filled(b) = Filled(buf)
         /\ \A f \in {"head", "tail", "capacity", "rows", "received", "allocated"} :
              b[f] = buf[f]
         /\ Placed(b, buf.rows[i].row)
<1> DEFINE m == [buf EXCEPT !.current = i]
<1>1. i \in Slots(buf)
  BY FilledRows
<1>2. /\ BufferOK(m) /\ m.current = i
      /\ \A f \in {"head", "tail", "capacity", "rows", "received", "allocated"} :
           m[f] = buf[f]
  BY <1>1, MovedTo
<1>3. RingOf(m) /\ Filled(m) = Filled(buf)
  BY <1>2 DEF RingOf, buffer_count, Slots, Age, Filled
<1>4. b.current = buffer_idx_increment(buf, i)
  BY <1>2 DEF Stepped, buffer_idx_increment, BufferOK, RowBuffers
<1>5. /\ BufferOK(b) /\ RingOf(b) /\ Filled(b) = Filled(buf)
      /\ \A f \in {"head", "tail", "capacity", "rows", "received", "allocated"} :
           b[f] = buf[f]
  BY <1>2, <1>3, SteppedRing DEF m
<1>6. Placed(b, buf.rows[i].row)
  <2>1. CASE i = LastSlot(buf)
    <3>1. buffer_idx_increment(buf, i) = buf.head
      BY <2>1 DEF LastSlot, buffer_idx_increment, BufferOK, RowBuffers
    <3>2. ~HasCurrent(b) /\ buf.rows[i].row = b.received
      BY <2>1, <3>1, <1>4, <1>5, FilledRows DEF HasCurrent
    <3>3. QED BY <3>2 DEF Placed
  <2>2. CASE i # LastSlot(buf)
    <3>1. /\ b.current \in Filled(b)
          /\ b.rows[b.current].row = buf.rows[i].row + 1
      BY <2>2, <1>4, <1>5, FilledRows
    <3>2. buf.capacity > 1
      BY <2>2, <1>1 DEF LastSlot, Slots, BufferOK, RowBuffers
    <3>3. QED BY <3>1, <3>2, <1>5 DEF Placed
  <2>3. QED BY <2>1, <2>2
<1>7. QED BY <1>5, <1>6

---------------------------------------------------------------------------
(* The invariant.                                                          *)

Transfers == [row : Int, data : Int, want : Int]
Counts == [Procs -> Int]
AppStates ==
  [at_row : Int, got : Transfers, skipped : BOOLEAN, untold : Int,
   sent : Counts, muddled : BOOLEAN, owes : BOOLEAN, left : Int,
   fault : {"none", "assert", "null"}]

DbTyped ==
  /\ BufferOK(row_buf) /\ current_row \in Nat /\ app \in AppStates
  /\ rpc \in Seq(Procs)

\* what is true of the buffer once it has storage
Stored ==
  /\ row_buf.allocated =>
       /\ RingOf(row_buf) /\ Kept(row_buf, app.skipped)
       /\ ReadLast(row_buf, app.skipped, current_row)
       /\ Placed(row_buf, app.at_row)
  /\ ~row_buf.allocated => row_buf.current = row_buf.head

DbInv == DbTyped /\ Stored /\ RowsInOrder

\* a record of a's fields, some of them replaced
AppWith(at_row, got, skipped, untold, sent, muddled, owes, left, fault) ==
  [at_row |-> at_row, got |-> got, skipped |-> skipped, untold |-> untold,
   sent |-> sent, muddled |-> muddled, owes |-> owes, left |-> left,
   fault |-> fault]

LEMMA AppFields ==
  ASSUME NEW a \in AppStates
  PROVE  /\ a.at_row \in Int /\ a.got \in Transfers /\ a.skipped \in BOOLEAN
         /\ a.untold \in Int /\ a.sent \in Counts /\ a.muddled \in BOOLEAN
         /\ a.owes \in BOOLEAN /\ a.left \in Int
         /\ a.fault \in {"none", "assert", "null"}
BY DEF AppStates

\* steps that leave the buffer and what was read of it alone
LEMMA Aside ==
  ASSUME DbInv, app' \in AppStates, rpc' \in Seq(Procs),
         row_buf' = row_buf, current_row' = current_row,
         app'.at_row = app.at_row, app'.got = app.got,
         app'.skipped = app.skipped
  PROVE  DbInv'
BY DEF DbInv, DbTyped, Stored, RowsInOrder

\* a new result set
LEMMA Opening ==
  ASSUME DbInv, OpenResultSet, app' = Opened, rpc' = rpc
  PROVE  DbInv'
<1>1. /\ BufferOK(row_buf') /\ RingOf(row_buf') /\ Filled(row_buf') = {}
      /\ row_buf'.received = 0 /\ current_row' = 0
  BY EmptiedRing DEF OpenResultSet, DbInv, DbTyped
<1>2. /\ app' \in AppStates /\ app'.at_row = 0 /\ app'.skipped = FALSE
      /\ app'.got = app.got
  <2>1. app \in AppStates /\ app.untold + 1 \in Int
    BY DEF DbInv, DbTyped, AppStates
  <2>2. app' = [app EXCEPT !.at_row = 0, !.skipped = FALSE,
                           !.untold = app.untold + 1]
    BY DEF Opened
  <2>3. app' = AppWith(0, app.got, FALSE, app.untold + 1, app.sent,
                       app.muddled, app.owes, app.left, app.fault)
    BY <2>1, <2>2 DEF AppStates, AppWith
  <2>4. app' \in AppStates
    <3>1. /\ app.got \in Transfers /\ app.sent \in Counts
          /\ app.muddled \in BOOLEAN /\ app.owes \in BOOLEAN
          /\ app.left \in Int /\ app.fault \in {"none", "assert", "null"}
      BY <2>1, AppFields
    <3>2. AppWith(0, app.got, FALSE, app.untold + 1, app.sent,
                  app.muddled, app.owes, app.left, app.fault) \in AppStates
      BY <2>1, <3>1 DEF AppWith, AppStates
    <3>3. QED BY <2>3, <3>2
  <2>5. QED BY <2>3, <2>4 DEF AppWith
<1>3. row_buf'.allocated /\ ~HasCurrent(row_buf')
  BY DEF OpenResultSet, Emptied, HasCurrent, DbInv, DbTyped, BufferOK, RowBuffers
<1>4. rpc' \in Seq(Procs) /\ (app.got.want # 0 => app.got.row = app.got.want)
  BY DEF DbInv, DbTyped, RowsInOrder
<1>5. Kept(row_buf', app'.skipped) /\ ReadLast(row_buf', app'.skipped, 0)
  BY <1>1, <1>2 DEF Kept, ReadLast
<1>6. Placed(row_buf', app'.at_row)
  BY <1>1, <1>2, <1>3 DEF Placed
<1>7. QED BY <1>1, <1>2, <1>3, <1>4, <1>5, <1>6
     DEF DbInv, DbTyped, Stored, RowsInOrder

\* the last row's values are saved, or the connection breaks first
LEMMA Saving ==
  ASSUME DbInv, row_buf' = Saved(row_buf, current_row),
         UNCHANGED <<rpc, current_row, app>>
  PROVE  DbInv'
<1>1. /\ BufferOK(row_buf')
      /\ \A f \in {"head", "tail", "capacity", "received", "allocated"} :
           row_buf'[f] = row_buf[f]
      /\ row_buf'.current = row_buf.current
  <2>1. row_buf'.current = row_buf.current
    BY DEF Saved, DbInv, DbTyped, BufferOK, RowBuffers
  <2>2. QED BY <2>1, SavedRing DEF DbInv, DbTyped
<1>2. CASE ~row_buf.allocated
  BY <1>1, <1>2 DEF DbInv, DbTyped, Stored, RowsInOrder
<1>3. CASE row_buf.allocated
  <2>1. app.skipped \in BOOLEAN
    BY DEF DbInv, DbTyped, AppStates
  <2>2. /\ RingOf(row_buf') /\ Kept(row_buf', app.skipped)
        /\ Filled(row_buf') = Filled(row_buf)
    BY <1>3, <2>1, SavedRing, SavedKept DEF DbInv, DbTyped, Stored
  <2>4. \A i \in Filled(row_buf) : row_buf'.rows[i].row = row_buf.rows[i].row
    <3>1. \A i \in Filled(row_buf) : i \in Slots(row_buf)
      BY <1>3, FilledRows DEF DbInv, DbTyped, Stored
    <3>2. \A i \in Slots(row_buf) : row_buf'.rows[i].row = row_buf.rows[i].row
      BY SavedRing DEF DbInv, DbTyped
    <3>3. QED BY <3>1, <3>2
  <2>5. Placed(row_buf', app.at_row)
    BY <1>1, <1>3, <2>2, <2>4 DEF DbInv, Stored, Placed, HasCurrent
  <2>6. ReadLast(row_buf', app.skipped, current_row)
    BY <1>1, <1>3 DEF DbInv, Stored, ReadLast
  <2>7. QED BY <1>1, <2>2, <2>5, <2>6
       DEF DbInv, DbTyped, Stored, RowsInOrder
<1>4. QED BY <1>2, <1>3

\* a row of the ring is transferred
LEMMA Transferring ==
  ASSUME DbInv, row_buf.allocated, NEW i \in Filled(row_buf),
         row_buf' = Stepped([row_buf EXCEPT !.current = i]),
         NEW data \in Int, NEW want \in Int,
         want # 0 => want = row_buf.rows[i].row,
         app' = [app EXCEPT !.at_row = row_buf.rows[i].row,
                   !.got = [row |-> row_buf.rows[i].row, data |-> data,
                            want |-> want]],
         UNCHANGED <<rpc, current_row>>
  PROVE  DbInv'
<1>1. /\ BufferOK(row_buf') /\ RingOf(row_buf')
      /\ Filled(row_buf') = Filled(row_buf)
      /\ \A f \in {"head", "tail", "capacity", "rows", "received", "allocated"} :
           row_buf'[f] = row_buf[f]
      /\ Placed(row_buf', row_buf.rows[i].row)
      /\ row_buf.rows[i].row \in Int
  BY SteppedPlaced, FilledRows DEF DbInv, DbTyped, Stored
<1>2. /\ app' \in AppStates /\ app'.at_row = row_buf.rows[i].row
      /\ app'.skipped = app.skipped
      /\ app'.got = [row |-> row_buf.rows[i].row, data |-> data, want |-> want]
  BY <1>1 DEF DbInv, DbTyped, AppStates, Transfers
<1>3. Kept(row_buf', app.skipped)
  BY <1>1 DEF DbInv, Stored, Kept, LastSlot
<1>4. ReadLast(row_buf', app.skipped, current_row)
  BY <1>1 DEF DbInv, Stored, ReadLast
<1>5. QED BY <1>1, <1>2, <1>3, <1>4 DEF DbInv, DbTyped, Stored, RowsInOrder

---------------------------------------------------------------------------
(* Its steps.                                                              *)

LEMMA NextRowReadStep == ASSUME DbInv, NextRowRead PROVE DbInv'
<1>1. CASE ~row_buf.allocated
  BY <1>1, Aside DEF NextRowRead, Crash, DbInv, DbTyped, AppStates
<1>2. CASE row_buf.allocated
  <2> DEFINE b == Added(Saved(row_buf, current_row))
  <2>1. /\ BufferOK(row_buf) /\ RingOf(row_buf) /\ app \in AppStates
        /\ app.skipped \in BOOLEAN /\ Kept(row_buf, app.skipped)
        /\ ReadLast(row_buf, app.skipped, current_row)
        /\ ~buffer_is_full(row_buf) /\ Placed(row_buf, app.at_row)
        /\ rpc' = rpc /\ current_row' = current_row + 1 /\ rpc \in Seq(Procs)
        /\ Transfer(b, b.current, current_row + 1)
    BY <1>2 DEF NextRowRead, DbInv, DbTyped, Stored, AppStates
  <2>2. /\ BufferOK(b) /\ RingOf(b) /\ Kept(b, app.skipped)
        /\ ReadLast(b, app.skipped, current_row + 1)
        /\ b.received = row_buf.received + 1
        /\ b.allocated = row_buf.allocated
        /\ b.current \in Filled(b)
        /\ b.rows[b.current] = [row |-> b.received, data |-> 0]
    BY <2>1, ReadRow
  <2>3. app.at_row # Cleared => app.at_row = row_buf.received
    <3>1. /\ row_buf.current \in Filled(row_buf) /\ row_buf.capacity > 1
             => HasCurrent(row_buf)
      BY <2>1, FilledRows DEF HasCurrent, Slots, BufferOK, RowBuffers
    <3>2. ~HasCurrent(row_buf)
      BY DEF NextRowRead
    <3>3. QED BY <2>1, <3>1, <3>2 DEF Placed
  <2> HIDE DEF b
  <2>4. b = [b EXCEPT !.current = b.current]
    BY <2>2 DEF BufferOK, RowBuffers
  <2>5. /\ row_buf' = Stepped(b)
        /\ app' = [app EXCEPT !.at_row = b.received,
                     !.got = [row |-> b.received, data |-> current_row + 1,
                              want |-> app.at_row + 1]]
    BY <2>1, <2>2 DEF Transfer, DataOf
  <2>6. /\ BufferOK(row_buf') /\ RingOf(row_buf')
        /\ Filled(row_buf') = Filled(b)
        /\ \A f \in {"head", "tail", "capacity", "rows", "received", "allocated"} :
             row_buf'[f] = b[f]
        /\ Placed(row_buf', b.received)
    <3>1. row_buf' = Stepped([b EXCEPT !.current = b.current])
      BY <2>4, <2>5
    <3>2. QED BY <2>2, <3>1, SteppedPlaced
  <2>7. /\ app' \in AppStates /\ app'.at_row = b.received
        /\ app'.skipped = app.skipped
        /\ app'.got = [row |-> b.received, data |-> current_row + 1,
                       want |-> app.at_row + 1]
        /\ app.at_row \in Int /\ row_buf.received \in Nat
        /\ current_row + 1 \in Nat
    <3>1. b.received \in Int /\ current_row \in Nat /\ app.at_row \in Int
      BY <2>1, <2>2 DEF BufferOK, RowBuffers, ReadLast, AppStates
    <3>2. row_buf.received \in Nat
      BY <2>1 DEF BufferOK, RowBuffers
    <3>3. current_row + 1 \in Nat /\ app.at_row + 1 \in Int
      BY <3>1
    <3>4. app \in AppStates
      BY <2>1
    <3>5. app' = AppWith(b.received,
                    [row |-> b.received, data |-> current_row + 1,
                     want |-> app.at_row + 1],
                    app.skipped, app.untold, app.sent, app.muddled,
                    app.owes, app.left, app.fault)
      BY <2>5, <3>4 DEF AppStates, AppWith
    <3>6. [row |-> b.received, data |-> current_row + 1,
           want |-> app.at_row + 1] \in Transfers
      BY <3>1, <3>3 DEF Transfers
    <3>7. app' \in AppStates
      <4>1. /\ app.skipped \in BOOLEAN /\ app.untold \in Int
            /\ app.sent \in Counts /\ app.muddled \in BOOLEAN
            /\ app.owes \in BOOLEAN /\ app.left \in Int
            /\ app.fault \in {"none", "assert", "null"}
        BY <3>4, AppFields
      <4>2. AppWith(b.received,
                    [row |-> b.received, data |-> current_row + 1,
                     want |-> app.at_row + 1],
                    app.skipped, app.untold, app.sent, app.muddled,
                    app.owes, app.left, app.fault) \in AppStates
        BY <3>1, <3>6, <4>1 DEF AppWith, AppStates
      <4>3. QED BY <3>5, <4>2
    <3>8. QED BY <3>1, <3>2, <3>3, <3>5, <3>7 DEF AppWith
  <2>8. Kept(row_buf', app'.skipped)
    BY <2>2, <2>6, <2>7 DEF Kept, LastSlot
  <2>9. ReadLast(row_buf', app'.skipped, current_row')
    BY <2>1, <2>2, <2>6, <2>7 DEF ReadLast
  <2>10. RowsInOrder'
    BY <2>2, <2>3, <2>7 DEF RowsInOrder, Cleared
  <2>11. DbTyped'
    BY <2>1, <2>6, <2>7 DEF DbTyped
  <2>12. row_buf'.allocated
    BY <1>2, <2>2, <2>6
  <2>13. Stored'
    BY <2>6, <2>7, <2>8, <2>9, <2>12 DEF Stored
  <2>14. QED BY <2>10, <2>11, <2>13 DEF DbInv
<1>3. QED BY <1>1, <1>2

LEMMA NextRowBufferedStep == ASSUME DbInv, NextRowBuffered PROVE DbInv'
<1>1. CASE ~(CurrentAsserted(row_buf) /\ row_buf.rows[row_buf.current].row # 0)
  BY <1>1, Aside DEF NextRowBuffered, Crash, DbInv, DbTyped, AppStates
<1>2. CASE CurrentAsserted(row_buf) /\ row_buf.rows[row_buf.current].row # 0
  <2> DEFINE i == row_buf.current
  <2>1. /\ Transfer(row_buf, i, current_row) /\ HasCurrent(row_buf)
        /\ UNCHANGED <<rpc, current_row>>
    BY <1>2 DEF NextRowBuffered
  <2>2. i \in Slots(row_buf)
    BY <2>1 DEF HasCurrent, DbInv, DbTyped, BufferOK, RowBuffers, Slots
  <2>3. row_buf = [row_buf EXCEPT !.current = i]
    BY DEF DbInv, DbTyped, BufferOK, RowBuffers
  <2>4. /\ row_buf.rows[i].row \in Nat /\ row_buf.rows[i].data \in Nat
        /\ current_row \in Nat /\ app \in AppStates /\ app.at_row \in Int
    BY <2>2 DEF DbInv, DbTyped, BufferOK, RowBuffers, Slots, AppStates
  <2>5. row_buf.allocated
    BY <2>1 DEF HasCurrent, DbInv, Stored
  <2>6. i \in Filled(row_buf) /\ RingOf(row_buf)
    BY <1>2, <2>2, <2>5, RowsAreFilled DEF DbInv, DbTyped, Stored
  <2>7. app.at_row + 1 # 0 => app.at_row + 1 = row_buf.rows[i].row
    <3>1. row_buf.received \in Nat /\ row_buf.head \in Slots(row_buf)
      BY DEF DbInv, DbTyped, BufferOK, RowBuffers, Slots
    <3>2. Placed(row_buf, app.at_row)
      BY <2>5 DEF DbInv, Stored
    <3>3. CASE app.at_row = Cleared
      BY <3>3 DEF Cleared
    <3>4. CASE app.at_row = row_buf.received
      BY <2>1, <3>2, <3>4 DEF Placed, Cleared
    <3>5. CASE row_buf.rows[i].row = app.at_row + 1
      BY <3>5
    <3>6. QED BY <3>2, <3>3, <3>4, <3>5 DEF Placed
  <2>8. DataOf(row_buf, i, current_row) \in Int /\ app.at_row + 1 \in Int
    BY <2>4 DEF DataOf
  <2>9. /\ row_buf' = Stepped([row_buf EXCEPT !.current = i])
        /\ app' = [app EXCEPT !.at_row = row_buf.rows[i].row,
                     !.got = [row |-> row_buf.rows[i].row,
                              data |-> DataOf(row_buf, i, current_row),
                              want |-> app.at_row + 1]]
    BY <2>1, <2>3 DEF Transfer
  <2>10. QED BY <2>1, <2>5, <2>6, <2>7, <2>8, <2>9, Transferring
<1>3. QED BY <1>1, <1>2

LEMMA MovingStep == ASSUME DbInv, Moving PROVE DbInv'
<1>0. app \in AppStates /\ BufferOK(row_buf) /\ rpc \in Seq(Procs)
  BY DEF DbInv, DbTyped
<1>1. ASSUME NEW row \in 1..(row_buf.received + 1), GetRow(row)
      PROVE  DbInv'
  <2>1. CASE ~row_buf.allocated
    BY <1>1, <2>1, Aside DEF GetRow, Crash, DbInv, DbTyped, AppStates
  <2>2. CASE row_buf.allocated
    <3>1. PICK idx \in RowIndices(row_buf, row) :
            /\ row_buf' = Stepped([row_buf EXCEPT !.current = idx])
            /\ app' = [app EXCEPT !.at_row = row,
                         !.got = [row |-> row, want |-> row,
                                  data |-> DataOf(row_buf, idx, current_row)]]
            /\ UNCHANGED <<rpc, current_row>>
      BY <1>1, <2>2 DEF GetRow
    <3>2. idx \in Filled(row_buf) /\ row_buf.rows[idx].row = row
      BY DEF RowIndices
    <3>3. idx \in Slots(row_buf)
      BY <2>2, <3>2, FilledRows DEF DbInv, DbTyped, Stored
    <3>4. /\ DataOf(row_buf, idx, current_row) \in Int
          /\ row_buf.received \in Nat
      BY <3>3 DEF DataOf, DbInv, DbTyped, BufferOK, RowBuffers, Slots
    <3>5. row \in Int
      BY <3>4
    <3>6. [row |-> row, want |-> row, data |-> DataOf(row_buf, idx, current_row)]
          = [row |-> row, data |-> DataOf(row_buf, idx, current_row), want |-> row]
      OBVIOUS
    <3>7. QED BY <2>2, <3>1, <3>2, <3>4, <3>5, Transferring
  <2>3. QED BY <2>1, <2>2
<1>2. ASSUME NEW row \in 1..(row_buf.received + 1), SetRow(row)
      PROVE  DbInv'
  <2>1. CASE ~row_buf.allocated
    BY <1>2, <2>1, Aside DEF SetRow, Crash, DbInv, DbTyped, AppStates
  <2>2. CASE row_buf.allocated
    <3>1. PICK idx \in RowIndices(row_buf, row) :
            /\ row_buf' = [row_buf EXCEPT !.current = idx]
            /\ app' = IF row_buf.capacity > 1
                      THEN [app EXCEPT !.at_row = row - 1] ELSE app
            /\ UNCHANGED <<rpc, current_row>>
      BY <1>2, <2>2 DEF SetRow
    <3>2. idx \in Filled(row_buf) /\ row_buf.rows[idx].row = row
      BY DEF RowIndices
    <3>3. idx \in Slots(row_buf)
      BY <2>2, <3>2, FilledRows DEF DbInv, DbTyped, Stored
    <3>4. /\ BufferOK(row_buf') /\ row_buf'.current = idx
          /\ \A f \in {"head", "tail", "capacity", "rows", "received", "allocated"} :
               row_buf'[f] = row_buf[f]
      <4>1. row_buf' = [row_buf EXCEPT !.current = idx]
        BY <3>1
      <4>2. QED BY <1>0, <3>3, <4>1, MovedTo
    <3>5. /\ RingOf(row_buf) /\ Kept(row_buf, app.skipped)
          /\ ReadLast(row_buf, app.skipped, current_row)
          /\ Placed(row_buf, app.at_row)
      BY <2>2 DEF DbInv, Stored
    <3>6. /\ RingOf(row_buf') /\ Filled(row_buf') = Filled(row_buf)
          /\ Kept(row_buf', app.skipped)
          /\ ReadLast(row_buf', app.skipped, current_row)
      BY <3>4, <3>5 DEF RingOf, buffer_count, Slots, Age, Filled, Kept,
                        LastSlot, ReadLast
    <3>7. row \in Int /\ row_buf.capacity \in Nat \ {0}
      BY <1>0 DEF BufferOK, RowBuffers
    <3>8. CASE row_buf.capacity > 1
      <4>1. /\ app' \in AppStates /\ app'.at_row = row - 1
            /\ app'.got = app.got /\ app'.skipped = app.skipped
        <5>1. row - 1 \in Int
          BY <3>7
        <5>2. app' = [app EXCEPT !.at_row = row - 1]
          BY <3>1, <3>8
        <5>3. QED BY <1>0, <5>1, <5>2 DEF AppStates
      <4>2. Placed(row_buf', row - 1)
        BY <3>2, <3>4, <3>6, <3>7, <3>8 DEF Placed
      <4>3. QED BY <1>0, <2>2, <3>1, <3>4, <3>6, <4>1, <4>2
           DEF DbInv, DbTyped, Stored, RowsInOrder
    <3>9. CASE row_buf.capacity <= 1
      <4>1. app' = app
        BY <3>1, <3>7, <3>9
      <4>2. Placed(row_buf', app.at_row)
        BY <3>4, <3>5, <3>7, <3>9 DEF Placed, HasCurrent
      <4>3. QED BY <1>0, <2>2, <3>1, <3>4, <3>6, <4>1, <4>2
           DEF DbInv, DbTyped, Stored, RowsInOrder
    <3>10. QED BY <3>7, <3>8, <3>9
  <2>3. QED BY <2>1, <2>2
<1>3. ASSUME NEW n \in 1..row_buf.capacity, ClrBuf(n)
      PROVE  DbInv'
  <2> DEFINE count == buffer_count(row_buf)
             gone == IF n >= count THEN count - 1 ELSE n
             read == row_buf.received - count + gone
  <2>1. CASE ~row_buf.allocated
    BY <1>3, <2>1, Aside DEF ClrBuf, Crash, DbInv, DbTyped, AppStates
  <2>2. CASE row_buf.allocated
    <3>1. /\ row_buf' = Deleted(row_buf, gone) /\ gone > 0
          /\ app' = IF app.at_row < read
                    THEN [app EXCEPT !.at_row = Cleared] ELSE app
          /\ UNCHANGED <<rpc, current_row>>
      BY <1>3, <2>2 DEF ClrBuf
    <3>2. /\ row_buf.capacity \in Nat \ {0} /\ row_buf.received \in Nat
          /\ row_buf.head \in 0..(row_buf.capacity - 1)
          /\ row_buf.tail \in 0..row_buf.capacity
      BY <1>0 DEF BufferOK, RowBuffers
    <3>3. count \in Int /\ n \in Int
      BY <3>2 DEF buffer_count
    <3>4. gone \in Nat /\ gone < count
      <4> HIDE DEF count
      <4> QED BY <3>1, <3>3
    <3>5. RingOf(row_buf) /\ Placed(row_buf, app.at_row)
      BY <2>2 DEF DbInv, Stored
    <3> HIDE DEF gone
    <3>6. /\ BufferOK(row_buf') /\ RingOf(row_buf')
          /\ row_buf'.received = row_buf.received
          /\ row_buf'.allocated = row_buf.allocated
          /\ LastSlot(row_buf') = LastSlot(row_buf)
          /\ \A i \in Filled(row_buf') :
               i \in Filled(row_buf) /\ row_buf'.rows[i] = row_buf.rows[i]
          /\ \A i \in Filled(row_buf) :
               row_buf.rows[i].row > read => i \in Filled(row_buf')
      BY <1>0, <3>1, <3>4, <3>5, DeletedRing
    <3>7. /\ row_buf'.current = row_buf.current
          /\ row_buf'.capacity = row_buf.capacity
          /\ row_buf'.head = row_buf.head
      BY <1>0, <3>1 DEF Deleted, BufferOK, RowBuffers
    <3>8. /\ Kept(row_buf', app.skipped)
          /\ ReadLast(row_buf', app.skipped, current_row)
      BY <2>2, <3>6 DEF DbInv, Stored, Kept, ReadLast
    <3>9. /\ app' \in AppStates /\ app'.got = app.got
          /\ app'.skipped = app.skipped
          /\ app'.at_row = IF app.at_row < read THEN Cleared ELSE app.at_row
      BY <1>0, <3>1 DEF AppStates, Cleared
    <3>10. Placed(row_buf', app'.at_row)
      <4>1. CASE app.at_row < read
        BY <3>9, <4>1 DEF Placed
      <4>2. CASE ~(app.at_row < read)
        <5>1. app'.at_row = app.at_row /\ app.at_row \in Int
          BY <1>0, <3>9, <4>2 DEF AppStates
        <5>2. CASE app.at_row = Cleared
          BY <5>1, <5>2 DEF Placed
        <5>3. CASE app.at_row = row_buf.received /\ ~HasCurrent(row_buf)
          BY <3>6, <3>7, <5>1, <5>3 DEF Placed, HasCurrent
        <5>4. CASE /\ row_buf.capacity > 1
                   /\ row_buf.current \in Filled(row_buf)
                   /\ row_buf.rows[row_buf.current].row = app.at_row + 1
          <6>1. row_buf.current \in Filled(row_buf')
            <7>1. read \in Int
              BY <3>2, <3>3, <3>4
            <7> HIDE DEF read
            <7>2. app.at_row + 1 > read
              BY <4>2, <5>1, <7>1
            <7>3. QED BY <7>2, <5>4, <3>6
          <6>2. QED BY <3>6, <3>7, <5>1, <5>4, <6>1 DEF Placed
        <5>5. QED BY <3>5, <5>2, <5>3, <5>4 DEF Placed
      <4>3. QED BY <4>1, <4>2
    <3>11. QED BY <1>0, <2>2, <3>1, <3>6, <3>8, <3>9, <3>10
          DEF DbInv, DbTyped, Stored, RowsInOrder
  <2>3. QED BY <2>1, <2>2
<1>4. ASSUME NEW n \in Capacities \cup {1}, row_buf' = WithCapacity(n),
             UNCHANGED <<rpc, current_row, app>>
      PROVE  DbInv'
  <2>1. /\ BufferOK(row_buf') /\ ~row_buf'.allocated
        /\ row_buf'.current = row_buf'.head
    BY <1>4, DbAssumption DEF WithCapacity, BufferOK, RowBuffers, NoRow
  <2>2. QED BY <1>0, <1>4, <2>1 DEF DbInv, DbTyped, Stored, RowsInOrder
<1>5. QED BY <1>1, <1>2, <1>3, <1>4 DEF Moving, SetBuffer, ClrBuffer

\* an EXCEPT of the history that leaves what was read alone
LEMMA AppSame ==
  ASSUME NEW a \in AppStates, NEW b,
         NEW u \in Int, NEW n \in Counts, NEW m \in BOOLEAN, NEW o \in BOOLEAN,
         NEW l \in Int,
         b = AppWith(a.at_row, a.got, a.skipped, u, n, m, o, l, a.fault)
  PROVE  /\ b \in AppStates /\ b.at_row = a.at_row /\ b.got = a.got
         /\ b.skipped = a.skipped
<1>1. /\ a.at_row \in Int /\ a.got \in Transfers /\ a.skipped \in BOOLEAN
      /\ a.fault \in {"none", "assert", "null"}
  BY AppFields
<1>2. b \in AppStates
  BY <1>1 DEF AppWith, AppStates
<1>3. QED BY <1>2 DEF AppWith

LEMMA SentNowSame ==
  ASSUME app \in AppStates, NEW b,
         \/ b = SentNow(1)
         \/ \E p \in Procs : b = [SentNow(1) EXCEPT !.sent[p] = @ + 1]
  PROVE  /\ b \in AppStates /\ b.at_row = app.at_row /\ b.got = app.got
         /\ b.skipped = app.skipped /\ b.untold = 0
<1>1. /\ app.left - 1 \in Int /\ app.sent \in Counts /\ 0 \in Int
      /\ TRUE \in BOOLEAN /\ FALSE \in BOOLEAN
  BY DEF AppStates
<1>2. CASE b = SentNow(1)
  <2>1. b = AppWith(app.at_row, app.got, app.skipped, 0, app.sent, FALSE, TRUE,
                    app.left - 1, app.fault)
    BY <1>2 DEF SentNow, AppStates, AppWith
  <2>2. b.untold = 0
    BY <2>1 DEF AppWith
  <2>3. QED BY <1>1, <2>1, <2>2, AppSame
<1>3. ASSUME NEW p \in Procs, b = [SentNow(1) EXCEPT !.sent[p] = @ + 1]
      PROVE  /\ b \in AppStates /\ b.at_row = app.at_row /\ b.got = app.got
             /\ b.skipped = app.skipped /\ b.untold = 0
  <2>1. PICK n : n = [app.sent EXCEPT ![p] = @ + 1]
    OBVIOUS
  <2>2. n \in Counts
    BY <1>1, <2>1 DEF Counts
  <2>3. b = AppWith(app.at_row, app.got, app.skipped, 0, n, FALSE, TRUE,
                    app.left - 1, app.fault)
    BY <1>3, <2>1 DEF SentNow, AppStates, AppWith
  <2>4. b.untold = 0
    BY <2>3 DEF AppWith
  <2>5. QED BY <1>1, <2>2, <2>3, <2>4, AppSame
<1>4. QED BY <1>2, <1>3

LEMMA SendingStep == ASSUME DbInv, Sending PROVE DbInv'
<1>0. app \in AppStates /\ rpc \in Seq(Procs)
  BY DEF DbInv, DbTyped
<1>1. ASSUME SqlSend \/ SqlSendTrailing \/ SqlOkInProc \/ SqlOkDone \/ SqlOkEnd
      PROVE  DbInv'
  BY <1>0, <1>1, Aside
     DEF SqlSend, SqlSendTrailing, SqlOkInProc, SqlOkDone, SqlOkEnd
<1>2. ASSUME SqlSendPending \/ SqlOk
      PROVE  DbInv'
  <2>1. /\ app' \in AppStates /\ app'.at_row = app.at_row
        /\ app'.got = app.got /\ app'.skipped = app.skipped
    BY <1>0, <1>2 DEF SqlSendPending, SqlOk, AppStates
  <2>2. QED BY <1>0, <1>2, <2>1, Aside DEF SqlSendPending, SqlOk
<1>3. CASE SqlSendQuery
  BY <1>0, <1>3, SentNowSame, Aside DEF SqlSendQuery
<1>4. ASSUME NEW p \in Procs, RpcInit(p)
      PROVE  DbInv'
  <2>1. PICK n : n = [app.sent EXCEPT ![p] = 0]
    OBVIOUS
  <2>2. n \in Counts /\ app' = [app EXCEPT !.sent = n]
    BY <1>0, <1>4, <2>1 DEF RpcInit, AppStates, Counts
  <2>3. /\ app' \in AppStates /\ app'.at_row = app.at_row
        /\ app'.got = app.got /\ app'.skipped = app.skipped
    BY <1>0, <2>2 DEF AppStates
  <2>4. rpc' \in Seq(Procs) /\ row_buf' = row_buf /\ current_row' = current_row
    BY <1>0, <1>4 DEF RpcInit
  <2>5. QED BY <2>3, <2>4, Aside
<1>5. CASE RpcReset
  <2>1. rpc' \in Seq(Procs)
    BY <1>5 DEF RpcReset
  <2>2. QED BY <1>0, <1>5, <2>1, Aside DEF RpcReset
<1>6. CASE RpcSend
  <2>1. /\ rpc' \in Seq(Procs) /\ row_buf' = row_buf
        /\ current_row' = current_row /\ rpc[1] \in Procs
    <3>1. rpc' \in {<<>>, rpc} /\ rpc # <<>>
      BY <1>6 DEF RpcSend
    <3>2. rpc[1] \in Procs
      <4>1. Head(rpc) \in Procs
        BY <1>0, <3>1, HeadTailProperties
      <4>2. QED BY <4>1, <1>0, <3>1
    <3>3. rpc' \in Seq(Procs)
      BY <1>0, <3>1, EmptySeq
    <3>4. QED BY <1>6, <3>2, <3>3 DEF RpcSend
  <2>2. CASE pending
    <3>1. app' = [app EXCEPT !.muddled = TRUE]
      BY <1>6, <2>2 DEF RpcSend
    <3>2. /\ app' \in AppStates /\ app'.at_row = app.at_row
          /\ app'.got = app.got /\ app'.skipped = app.skipped
      BY <1>0, <3>1 DEF AppStates
    <3>3. QED BY <2>1, <3>2, Aside
  <2>3. CASE ~pending
    <3>1. \E p \in Procs : app' = [SentNow(1) EXCEPT !.sent[p] = @ + 1]
      BY <1>6, <2>1, <2>3 DEF RpcSend
    <3>2. QED BY <1>0, <2>1, <3>1, SentNowSame, Aside
  <2>4. QED BY <2>2, <2>3
<1>7. CASE SqlOkRowFmt
  BY <1>7, Opening DEF SqlOkRowFmt
<1>8. QED BY <1>1, <1>2, <1>3, <1>4, <1>5, <1>6, <1>7 DEF Sending

\* rows are read and thrown away
LEMMA Skipping ==
  ASSUME DbInv, app' \in AppStates, row_buf' = row_buf, rpc' = rpc,
         app'.at_row = app.at_row, app'.got = app.got,
         \/ current_row' = current_row + 1 /\ app'.skipped = TRUE
         \/ current_row' = current_row /\ app'.skipped = app.skipped
  PROVE  DbInv'
<1>1. CASE current_row' = current_row /\ app'.skipped = app.skipped
  BY <1>1 DEF DbInv, DbTyped, Stored, RowsInOrder
<1>2. CASE current_row' = current_row + 1 /\ app'.skipped = TRUE
  <2>1. row_buf.received \in Nat /\ current_row \in Nat
    BY DEF DbInv, DbTyped, BufferOK, RowBuffers
  <2>2. row_buf.allocated =>
          /\ Kept(row_buf, TRUE) /\ ReadLast(row_buf, TRUE, current_row')
    BY <1>2, <2>1 DEF DbInv, Stored, Kept, ReadLast
  <2>3. DbTyped'
    BY <1>2, <2>1 DEF DbInv, DbTyped
  <2>4. Stored'
    BY <1>2, <2>2 DEF DbInv, Stored
  <2>5. QED BY <2>3, <2>4 DEF DbInv, RowsInOrder
<1>3. QED BY <1>1, <1>2

LEMMA ReadingStep == ASSUME DbInv, Reading PROVE DbInv'
<1>0. app \in AppStates /\ rpc \in Seq(Procs) /\ app.untold \in Int
  BY DEF DbInv, DbTyped, AppStates
<1>1. ASSUME Results \/ ResultsEnd \/ CanQuery \/ ReadFails
      PROVE  DbInv'
  BY <1>0, <1>1, Aside DEF Results, ResultsEnd, CanQuery, ReadFails
<1>2. ASSUME ResultsRow \/ ResultsDone \/ CanQueryEnd
      PROVE  DbInv'
  <2>1. app' = app \/ app' = [app EXCEPT !.untold = 0]
    BY <1>2 DEF ResultsRow, ResultsDone, CanQueryEnd, Announced
  <2>2. /\ app' \in AppStates /\ app'.at_row = app.at_row
        /\ app'.got = app.got /\ app'.skipped = app.skipped
    BY <1>0, <2>1 DEF AppStates
  <2>3. QED BY <1>0, <1>2, <2>2, Aside DEF ResultsRow, ResultsDone, CanQueryEnd
<1>3. CASE ResultsRowFmt
  BY <1>3, Opening DEF ResultsRowFmt
<1>4. CASE NextRowEnd \/ NextRowFails
  BY <1>4, Saving DEF NextRowEnd, NextRowFails
<1>5. CASE CanQueryRow
  <2>1. app' = [app EXCEPT !.skipped = TRUE]
    BY <1>5 DEF CanQueryRow
  <2>2. /\ app' \in AppStates /\ app'.at_row = app.at_row
        /\ app'.got = app.got /\ app'.skipped = TRUE
    BY <1>0, <2>1 DEF AppStates
  <2>3. QED BY <1>5, <2>2, Skipping DEF CanQueryRow
<1>6. CASE Cancel
  <2> DEFINE threw == stream.tok.kind = "row"
  <2>1. PICK s \in BOOLEAN : s = (app.skipped \/ threw)
    OBVIOUS
  <2>2. app' = [app EXCEPT !.skipped = s, !.untold = 0]
    BY <1>0, <1>6, <2>1 DEF Cancel, AppStates
  <2>3. app' = AppWith(app.at_row, app.got, s, 0, app.sent, app.muddled,
                       app.owes, app.left, app.fault)
    BY <1>0, <2>2 DEF AppStates, AppWith
  <2>4. app' \in AppStates
    <3>1. /\ app.at_row \in Int /\ app.got \in Transfers
          /\ app.sent \in Counts /\ app.muddled \in BOOLEAN
          /\ app.owes \in BOOLEAN /\ app.left \in Int
          /\ app.fault \in {"none", "assert", "null"}
      BY <1>0, AppFields
    <3>2. QED BY <2>3, <3>1 DEF AppWith, AppStates
  <2>5. /\ app'.at_row = app.at_row /\ app'.got = app.got
        /\ app'.skipped = s
    BY <2>3 DEF AppWith
  <2>6. CASE threw
    BY <1>6, <2>1, <2>4, <2>5, <2>6, Skipping DEF Cancel
  <2>7. CASE ~threw
    <3>1. s = app.skipped
      BY <1>0, <2>1, <2>7 DEF AppStates
    <3>2. QED BY <1>6, <2>4, <2>5, <2>7, <3>1, Skipping DEF Cancel
  <2>8. QED BY <2>6, <2>7
<1>7. QED BY <1>1, <1>2, <1>3, <1>4, <1>5, <1>6, NextRowReadStep,
            NextRowBufferedStep DEF Reading

LEMMA DbInvInit == DbInit => DbInv
<1> SUFFICES ASSUME DbInit PROVE DbInv
  OBVIOUS
<1>1. /\ BufferOK(row_buf) /\ ~row_buf.allocated
      /\ row_buf.current = row_buf.head
  BY DEF DbInit, WithCapacity, BufferOK, RowBuffers, NoRow
<1>2. /\ MaxSends \in Int /\ [p \in Procs |-> 0] \in Counts
      /\ NoTransfer \in Transfers
  BY DbAssumption DEF Counts, NoTransfer, Transfers
<1>3. app \in AppStates /\ app.got = NoTransfer
  BY <1>2 DEF DbInit, AppStates
<1>4. current_row \in Nat /\ rpc \in Seq(Procs)
  BY DEF DbInit
<1>5. QED BY <1>1, <1>3, <1>4
     DEF DbInv, DbTyped, Stored, RowsInOrder, NoTransfer

LEMMA DbInvNext == DbInv /\ [DbNext]_dbvars => DbInv'
<1> SUFFICES ASSUME DbInv, [DbNext]_dbvars PROVE DbInv'
  OBVIOUS
<1>1. CASE Sending
  BY <1>1, SendingStep
<1>2. CASE Reading
  BY <1>2, ReadingStep
<1>3. CASE Moving
  BY <1>3, MovingStep
<1>4. CASE UNCHANGED dbvars
  BY <1>4 DEF dbvars, DbInv, DbTyped, Stored, RowsInOrder
<1>5. QED BY <1>1, <1>2, <1>3, <1>4 DEF DbNext

LEMMA DbInvHolds == DbSpec => []DbInv
BY DbInvInit, DbInvNext, PTL DEF DbSpec

---------------------------------------------------------------------------
(* The result sets and the procedures.                                     *)

\* While a result set is not announced, the calls that would leave it behind
\* are not possible: dbsqlok is not due, dbresults and dbcanquery are inside
\* it, and a send either fails or has read it away.
Announcing ==
  ~app.muddled =>
    /\ app.untold \in {0, 1}
    /\ at = "sqlok" => ~app.owes
    /\ app.untold = 1 =>
         /\ at # "sqlok"
         /\ at = "out" => ~app.owes
         /\ at \in {"out", "results", "canquery"} =>
              /\ dbresults_state = "RESULTSET_EMPTY"
              /\ stream.tok.kind \in {"row", "done", "inproc"}
         /\ dbresults_state \notin {"NEXT_RESULT", "NO_MORE_RESULTS"}

\* what follows the format of a result set, or a row
LEMMA InsideResultSet ==
  ASSUME Consume, stream.tok.kind \in {"rowfmt", "row"}
  PROVE  stream'.tok.kind \in {"row", "done", "inproc"}
<1>1. PICK next \in After(stream.tok, stream.left) : stream'.tok = next
  BY DEF Consume
<1>2. next \in Inside(stream.left)
  BY <1>1 DEF After
<1>3. CASE next \in Dones("done", stream.left)
  BY <1>1, <1>3 DEF Dones, Token
<1>4. CASE next \in {InProc, Row}
  BY <1>1, <1>4 DEF InProc, Row, Token
<1>5. QED BY <1>2, <1>3, <1>4 DEF Inside, Ends, If

\* a result set is announced, or the answer thrown away
LEMMA AllAnnounced ==
  ASSUME app'.untold = 0, at' # "sqlok"
  PROVE  Announcing'
BY DEF Announcing

LEMMA AnnouncingSending == ASSUME DbInv, Announcing, Sending PROVE Announcing'
<1>0. app \in AppStates /\ rpc \in Seq(Procs)
  BY DEF DbInv, DbTyped
<1>1. ASSUME SqlSend \/ SqlSendTrailing
      PROVE  Announcing'
  <2>1. /\ app' = app /\ at' = "sqlsend" /\ dbresults_state' = dbresults_state
    BY <1>1 DEF SqlSend, SqlSendTrailing
  <2>2. QED BY <2>1 DEF Announcing
<1>2. ASSUME app' = [app EXCEPT !.muddled = TRUE]
      PROVE  Announcing'
  BY <1>0, <1>2 DEF Announcing, AppStates
<1>3. CASE SqlSendPending
  BY <1>2, <1>3 DEF SqlSendPending
<1>4. CASE SqlSendQuery
  BY <1>0, <1>4, SentNowSame, AllAnnounced DEF SqlSendQuery
<1>5. ASSUME NEW p \in Procs, RpcInit(p)
      PROVE  Announcing'
  <2>1. /\ app'.untold = app.untold /\ app'.muddled = app.muddled
        /\ app'.owes = app.owes
    BY <1>0, <1>5 DEF RpcInit, AppStates
  <2>2. QED BY <1>5, <2>1 DEF RpcInit, Announcing
<1>6. CASE RpcReset
  BY <1>6 DEF RpcReset, Announcing
<1>7. CASE RpcSend
  <2>1. CASE pending
    BY <1>2, <1>7, <2>1 DEF RpcSend
  <2>2. CASE ~pending
    <3>1. rpc # <<>>
      BY <1>7 DEF RpcSend
    <3>2. rpc[1] \in Procs
      <4>1. Head(rpc) \in Procs
        BY <1>0, <3>1, HeadTailProperties
      <4>2. QED BY <4>1, <1>0, <3>1
    <3>3. \E p \in Procs : app' = [SentNow(1) EXCEPT !.sent[p] = @ + 1]
      BY <1>7, <2>2, <3>2 DEF RpcSend
    <3>4. app'.untold = 0 /\ at' = at /\ at = "out"
      BY <1>0, <1>7, <3>3, SentNowSame DEF RpcSend
    <3>5. QED BY <3>4, AllAnnounced
  <2>3. QED BY <2>1, <2>2
<1>8. CASE SqlOk
  <2>1. /\ app'.untold = app.untold /\ app'.muddled = app.muddled
        /\ at = "out" /\ app.owes /\ ~app'.owes
    BY <1>0, <1>8 DEF SqlOk, AppStates
  <2>2. app.muddled \/ app.untold = 0
    BY <2>1 DEF Announcing
  <2>3. QED BY <2>1, <2>2 DEF Announcing
<1>9. CASE SqlOkRowFmt
  <2>1. /\ app'.untold = app.untold + 1 /\ app'.muddled = app.muddled
        /\ app'.owes = app.owes
    BY <1>0, <1>9 DEF SqlOkRowFmt, Opened, AppStates
  <2>2. /\ at = "sqlok" /\ at' = "out"
        /\ dbresults_state' = "RESULTSET_EMPTY"
        /\ stream'.tok.kind \in {"row", "done", "inproc"}
    BY <1>9, InsideResultSet DEF SqlOkRowFmt, OpenResultSet
  <2>3. QED BY <2>1, <2>2 DEF Announcing
<1>10. ASSUME SqlOkInProc \/ SqlOkDone \/ SqlOkEnd
       PROVE  Announcing'
  <2>1. app' = app /\ at = "sqlok"
    BY <1>10 DEF SqlOkInProc, SqlOkDone, SqlOkEnd
  <2>2. QED BY <2>1 DEF Announcing
<1>11. QED BY <1>1, <1>3, <1>4, <1>5, <1>6, <1>7, <1>8, <1>9, <1>10 DEF Sending

LEMMA AnnouncingReading == ASSUME DbInv, Announcing, Reading PROVE Announcing'
<1>0. app \in AppStates
  BY DEF DbInv, DbTyped
<1>1. CASE Results
  <2>1. app' = app /\ stream' = stream /\ at = "out"
    BY <1>1 DEF Results
  <2>2. \/ at' = "results" /\ dbresults_state' = dbresults_state
        \/ dbresults_state = "SUCCEED" /\ at' = at
    BY <1>1 DEF Results
  <2>3. QED BY <2>1, <2>2 DEF Announcing
<1>2. CASE ResultsRowFmt
  <2>1. /\ app'.untold = app.untold + 1 /\ app'.muddled = app.muddled
    BY <1>0, <1>2 DEF ResultsRowFmt, Opened, AppStates
  <2>2. /\ at = "results" /\ at' = "results" /\ stream.tok.kind = "rowfmt"
        /\ dbresults_state' = "RESULTSET_EMPTY"
        /\ stream'.tok.kind \in {"row", "done", "inproc"}
    BY <1>2, InsideResultSet DEF ResultsRowFmt, OpenResultSet
  <2>3. QED BY <2>1, <2>2 DEF Announcing
<1>3. ASSUME app' = Announced, at' # "sqlok"
      PROVE  Announcing'
  BY <1>0, <1>3, AllAnnounced DEF Announced, AppStates
<1>4. ASSUME ResultsRow \/ CanQueryEnd
      PROVE  Announcing'
  BY <1>3, <1>4 DEF ResultsRow, CanQueryEnd
<1>5. CASE ResultsDone
  <2>1. CASE dbresults_state = "RESULTSET_EMPTY"
    BY <1>3, <1>5, <2>1 DEF ResultsDone
  <2>2. CASE dbresults_state # "RESULTSET_EMPTY"
    BY <1>5, <2>2 DEF ResultsDone, Announcing
  <2>3. QED BY <2>1, <2>2
<1>6. CASE ResultsEnd
  <2>1. /\ at = "results" /\ at' = "out" /\ stream.tok.kind = "none"
        /\ app' = app
    BY <1>6 DEF ResultsEnd, pending
  <2>2. QED BY <2>1 DEF Announcing
<1>7. ASSUME UNCHANGED dbresults_state, at' = "dead",
             app'.untold = app.untold, app'.muddled = app.muddled
      PROVE  Announcing'
  BY <1>7 DEF Announcing
<1>8. ASSUME NEW how \in {"assert", "null"}, Crash(how)
      PROVE  Announcing'
  BY <1>0, <1>7, <1>8 DEF Crash, AppStates
<1>9. ASSUME dbresults_state = "RESULTSET_ROWS", at = "out", at' # "sqlok",
             app'.untold = app.untold, app'.muddled = app.muddled
      PROVE  Announcing'
  BY <1>9 DEF Announcing
<1>10. ASSUME NEW buf, NEW idx, NEW read, Transfer(buf, idx, read)
       PROVE  app'.untold = app.untold /\ app'.muddled = app.muddled
  BY <1>0, <1>10 DEF Transfer, AppStates
<1>11. CASE NextRowBuffered
  BY <1>8, <1>9, <1>10, <1>11 DEF NextRowBuffered
<1>12. CASE NextRowRead
  BY <1>8, <1>9, <1>10, <1>12 DEF NextRowRead
<1>13. ASSUME NextRowEnd \/ NextRowFails
       PROVE  Announcing'
  BY <1>9, <1>13 DEF NextRowEnd, NextRowFails
<1>14. CASE CanQuery
  BY <1>14 DEF CanQuery, Announcing
<1>15. CASE CanQueryRow
  <2>1. app'.untold = app.untold /\ app'.muddled = app.muddled
    BY <1>0, <1>15 DEF CanQueryRow, AppStates
  <2>2. /\ at = "canquery" /\ at' = "canquery"
        /\ dbresults_state' = dbresults_state
        /\ stream'.tok.kind \in {"row", "done", "inproc"}
    BY <1>15, InsideResultSet DEF CanQueryRow
  <2>3. QED BY <2>1, <2>2 DEF Announcing
<1>16. CASE Cancel
  BY <1>0, <1>16, AllAnnounced DEF Cancel, AppStates
<1>17. CASE ReadFails
  <2>1. /\ app' = app /\ at' = "closed"
        /\ dbresults_state' \in {dbresults_state, "INIT"}
    BY <1>17 DEF ReadFails
  <2>2. QED BY <2>1 DEF Announcing
<1>18. QED BY <1>1, <1>2, <1>4, <1>5, <1>6, <1>11, <1>12, <1>13, <1>14, <1>15,
              <1>16, <1>17 DEF Reading

\* the calls that move in the row buffer announce nothing
LEMMA AnnouncingMoving == ASSUME DbInv, Announcing, Moving PROVE Announcing'
<1>0. app \in AppStates
  BY DEF DbInv, DbTyped
<1> DEFINE Unmoved ==
             /\ dbresults_state' = dbresults_state /\ stream' = stream
             /\ at' \in {at, "dead"}
             /\ app'.untold = app.untold /\ app'.muddled = app.muddled
             /\ app'.owes = app.owes
<1>1. Unmoved
  <2>1. ASSUME NEW row, GetRow(row) \/ SetRow(row)
        PROVE  Unmoved
    BY <1>0, <2>1 DEF GetRow, SetRow, Crash, AppStates
  <2>2. ASSUME NEW n, ClrBuf(n)
        PROVE  Unmoved
    BY <1>0, <2>2 DEF ClrBuf, Crash, AppStates
  <2>3. ASSUME (\E n \in Capacities : SetBuffer(n)) \/ ClrBuffer
        PROVE  Unmoved
    BY <2>3 DEF SetBuffer, ClrBuffer
  <2>4. QED BY <2>1, <2>2, <2>3 DEF Moving
<1>2. QED BY <1>1 DEF Announcing

\* while one procedure is in the list it has not been sent
LEMMA SentOnceStep ==
  ASSUME DbInv, SentOnce, DbNext
  PROVE  SentOnce'
<1>0. app \in AppStates /\ rpc \in Seq(Procs) /\ app.sent \in [Procs -> Int]
  BY DEF DbInv, DbTyped, AppStates, Counts
<1>1. ASSUME rpc' = rpc, app'.sent = app.sent
      PROVE  SentOnce'
  BY <1>1 DEF SentOnce
<1>2. ASSUME NEW p \in Procs, RpcInit(p)
      PROVE  SentOnce'
  <2>1. rpc' = Append(rpc, p) /\ app'.sent = [app.sent EXCEPT ![p] = 0]
    BY <1>0, <1>2 DEF RpcInit, AppStates
  <2>2. ASSUME Len(rpc') = 1
        PROVE  rpc'[1] = p
    BY <1>0, <2>1, <2>2
  <2>3. app'.sent[p] = 0
    BY <1>0, <2>1
  <2>4. QED BY <2>2, <2>3 DEF SentOnce
<1>3. CASE RpcReset
  BY <1>3 DEF RpcReset, SentOnce
<1>4. CASE RpcSend
  <2>1. CASE pending
    BY <1>0, <1>1, <1>4, <2>1 DEF RpcSend, AppStates
  <2>2. CASE ~pending
    <3>1. rpc' = IF Len(rpc) = 1 THEN <<>> ELSE rpc
      BY <1>4, <2>2 DEF RpcSend
    <3>2. Len(rpc') # 1
      BY <3>1
    <3>3. QED BY <3>2 DEF SentOnce
  <2>3. QED BY <2>1, <2>2
<1>5. ASSUME Sending, ~(\E p \in Procs : RpcInit(p)), ~RpcReset, ~RpcSend
      PROVE  SentOnce'
  <2>1. rpc' = rpc
    BY <1>5 DEF Sending, SqlSend, SqlSendTrailing, SqlSendPending, SqlSendQuery,
       SqlOk, SqlOkRowFmt, SqlOkInProc, SqlOkDone, SqlOkEnd
  <2>2. app'.sent = app.sent
    <3>1. \/ app' = app \/ app' = [app EXCEPT !.muddled = TRUE]
          \/ app' = SentNow(1) \/ app' = [app EXCEPT !.owes = FALSE]
          \/ app' = Opened
      BY <1>5 DEF Sending, SqlSend, SqlSendTrailing, SqlSendPending,
         SqlSendQuery, SqlOk, SqlOkRowFmt, SqlOkInProc, SqlOkDone, SqlOkEnd
    <3>2. QED BY <1>0, <3>1 DEF SentNow, Opened, AppStates
  <2>3. QED BY <1>1, <2>1, <2>2
<1>6. CASE Reading
  <2>1. rpc' = rpc
    BY <1>6 DEF Reading, Results, ResultsRowFmt, ResultsRow, ResultsDone,
       ResultsEnd, NextRowBuffered, NextRowRead, NextRowEnd, CanQuery,
       CanQueryRow, CanQueryEnd, Cancel, ReadFails, NextRowFails, Crash
  <2>2. ASSUME NEW buf, NEW idx, NEW read, Transfer(buf, idx, read)
        PROVE  app'.sent = app.sent
    BY <1>0, <2>2 DEF Transfer, AppStates
  <2>3. ASSUME NEW how, Crash(how)
        PROVE  app'.sent = app.sent
    BY <1>0, <2>3 DEF Crash, AppStates
  <2>4. ASSUME NextRowBuffered \/ NextRowRead
        PROVE  app'.sent = app.sent
    BY <2>2, <2>3, <2>4 DEF NextRowBuffered, NextRowRead
  <2>5. ASSUME ResultsRowFmt \/ ResultsRow \/ ResultsDone \/ CanQueryRow
               \/ CanQueryEnd \/ Cancel
        PROVE  app'.sent = app.sent
    BY <1>0, <2>5 DEF ResultsRowFmt, ResultsRow, ResultsDone, CanQueryRow,
       CanQueryEnd, Cancel, Opened, Announced, AppStates
  <2>6. ASSUME Results \/ ResultsEnd \/ NextRowEnd \/ CanQuery \/ ReadFails
               \/ NextRowFails
        PROVE  app' = app
    BY <2>6 DEF Results, ResultsEnd, NextRowEnd, CanQuery, ReadFails,
       NextRowFails
  <2>7. app'.sent = app.sent
    BY <1>6, <2>4, <2>5, <2>6 DEF Reading
  <2>8. QED BY <1>1, <2>1, <2>7
<1>7. CASE Moving
  <2>1. ASSUME NEW row, GetRow(row) \/ SetRow(row)
        PROVE  rpc' = rpc /\ app'.sent = app.sent
    BY <1>0, <2>1 DEF GetRow, SetRow, Crash, AppStates
  <2>2. ASSUME NEW n, ClrBuf(n)
        PROVE  rpc' = rpc /\ app'.sent = app.sent
    BY <1>0, <2>2 DEF ClrBuf, Crash, AppStates
  <2>3. ASSUME (\E n \in Capacities : SetBuffer(n)) \/ ClrBuffer
        PROVE  rpc' = rpc /\ app'.sent = app.sent
    BY <2>3 DEF SetBuffer, ClrBuffer
  <2>4. QED BY <1>1, <1>7, <2>1, <2>2, <2>3 DEF Moving
<1>8. QED BY <1>2, <1>3, <1>4, <1>5, <1>6, <1>7 DEF DbNext

LEMMA AnnouncingHolds == DbSpec => []Announcing
<1>1. DbInit => Announcing
  BY DEF DbInit, Announcing
<1>2. DbInv /\ Announcing /\ [DbNext]_dbvars => Announcing'
  <2> SUFFICES ASSUME DbInv, Announcing, [DbNext]_dbvars PROVE Announcing'
    OBVIOUS
  <2>1. CASE UNCHANGED dbvars
    BY <2>1 DEF dbvars, Announcing
  <2>2. QED BY <2>1, AnnouncingSending, AnnouncingReading, AnnouncingMoving
        DEF DbNext
<1>3. QED BY <1>1, <1>2, DbInvHolds, PTL DEF DbSpec

---------------------------------------------------------------------------
(* The shape of the state: the loops, the states of dbresults, and a       *)
(* buffer whose capacity is one it was given.                              *)

Loops == {"out", "sqlsend", "sqlok", "results", "canquery", "closed", "dead"}

DbShape ==
  /\ dbresults_state \in ResultStates /\ at \in Loops
  /\ row_buf.capacity \in Capacities \cup {1}

LEMMA ShapeSending == ASSUME DbInv, DbShape, Sending PROVE DbShape'
<1>1. /\ dbresults_state' \in ResultStates /\ at' \in Loops
      /\ row_buf' = row_buf \/ row_buf' = Emptied(row_buf)
  BY DEF Sending, SqlSend, SqlSendTrailing, SqlSendPending, SqlSendQuery,
     RpcInit, RpcReset, RpcSend, SqlOk, SqlOkRowFmt, SqlOkInProc, SqlOkDone,
     SqlOkEnd, OpenResultSet, DbShape, ResultStates, Loops
<1>2. Emptied(row_buf).capacity = row_buf.capacity
  BY DEF Emptied, DbInv, DbTyped, BufferOK, RowBuffers
<1>3. QED BY <1>1, <1>2 DEF DbShape

LEMMA ShapeReading == ASSUME DbInv, DbShape, Reading PROVE DbShape'
<1>0. BufferOK(row_buf) /\ current_row \in Nat
  BY DEF DbInv, DbTyped
<1>1. dbresults_state' \in ResultStates /\ at' \in Loops
  BY DEF Reading, Results, ResultsRowFmt, ResultsRow, ResultsDone, ResultsEnd,
     NextRowBuffered, NextRowRead, NextRowEnd, CanQuery, CanQueryRow,
     CanQueryEnd, Cancel, ReadFails, NextRowFails, OpenResultSet, Crash,
     DbShape, ResultStates, Loops
<1>2. /\ Emptied(row_buf).capacity = row_buf.capacity
      /\ Stepped(row_buf).capacity = row_buf.capacity
      /\ Saved(row_buf, current_row).capacity = row_buf.capacity
  BY <1>0, SteppedRing, SavedRing DEF Emptied, BufferOK, RowBuffers
<1>3. Stepped(Added(Saved(row_buf, current_row))).capacity = row_buf.capacity
  <2> DEFINE saved == Saved(row_buf, current_row)
  <2>1. saved.capacity = row_buf.capacity /\ BufferOK(saved)
    BY <1>0, SavedRing
  <2> HIDE DEF saved
  <2>2. Stepped(Added(saved)).capacity = saved.capacity
    BY <2>1 DEF Stepped, Added, BufferOK, RowBuffers
  <2>3. QED BY <2>1, <2>2 DEF saved
<1>4. ASSUME NextRowBuffered \/ NextRowRead
      PROVE  row_buf'.capacity = row_buf.capacity
  BY <1>2, <1>3, <1>4 DEF NextRowBuffered, NextRowRead, Transfer, Crash
<1>5. ASSUME Reading, ~NextRowBuffered, ~NextRowRead
      PROVE  row_buf'.capacity = row_buf.capacity
  BY <1>2, <1>5 DEF Reading, Results, ResultsRowFmt, ResultsRow, ResultsDone,
     ResultsEnd, NextRowEnd, CanQuery, CanQueryRow, CanQueryEnd, Cancel,
     ReadFails, NextRowFails, OpenResultSet
<1>6. QED BY <1>1, <1>4, <1>5 DEF DbShape

LEMMA ShapeMoving == ASSUME DbInv, DbShape, Moving PROVE DbShape'
<1>1. dbresults_state' = dbresults_state /\ at' \in Loops
  BY DEF Moving, GetRow, SetRow, ClrBuf, SetBuffer, ClrBuffer, Crash, DbShape,
     Loops
<1>2. ASSUME NEW idx
      PROVE  /\ [row_buf EXCEPT !.current = idx].capacity = row_buf.capacity
             /\ Stepped([row_buf EXCEPT !.current = idx]).capacity
                  = row_buf.capacity
  BY DEF Stepped, DbInv, DbTyped, BufferOK, RowBuffers
<1>3. ASSUME NEW n PROVE Deleted(row_buf, n).capacity = row_buf.capacity
  BY DEF Deleted, DbInv, DbTyped, BufferOK, RowBuffers
<1>4. ASSUME NEW row, GetRow(row) \/ SetRow(row)
      PROVE  row_buf'.capacity = row_buf.capacity
  <2>1. \/ row_buf' = row_buf
        \/ \E idx : \/ row_buf' = Stepped([row_buf EXCEPT !.current = idx])
                    \/ row_buf' = [row_buf EXCEPT !.current = idx]
    BY <1>4 DEF GetRow, SetRow, Crash
  <2>2. ASSUME NEW idx, \/ row_buf' = Stepped([row_buf EXCEPT !.current = idx])
                        \/ row_buf' = [row_buf EXCEPT !.current = idx]
        PROVE  row_buf'.capacity = row_buf.capacity
    <3>1. /\ [row_buf EXCEPT !.current = idx].capacity = row_buf.capacity
          /\ Stepped([row_buf EXCEPT !.current = idx]).capacity
               = row_buf.capacity
      BY <1>2
    <3>2. QED BY <2>2, <3>1
  <2>3. QED BY <2>1, <2>2
<1>5. ASSUME NEW n, ClrBuf(n)
      PROVE  row_buf'.capacity = row_buf.capacity
  <2>1. row_buf' = row_buf \/ \E gone : row_buf' = Deleted(row_buf, gone)
    BY <1>5 DEF ClrBuf, Crash
  <2>2. QED BY <1>3, <2>1
<1>6. ASSUME (\E n \in Capacities : SetBuffer(n)) \/ ClrBuffer
      PROVE  row_buf'.capacity \in Capacities \cup {1}
  BY <1>6 DEF SetBuffer, ClrBuffer, WithCapacity
<1>7. row_buf'.capacity \in Capacities \cup {1}
  BY <1>4, <1>5, <1>6 DEF Moving, DbShape
<1>8. QED BY <1>1, <1>7 DEF DbShape

LEMMA DbShapeHolds == DbSpec => []DbShape
<1>1. DbInit => DbShape
  BY DEF DbInit, DbShape, WithCapacity, ResultStates, Loops
<1>2. DbInv /\ DbShape /\ [DbNext]_dbvars => DbShape'
  <2> SUFFICES ASSUME DbInv, DbShape, [DbNext]_dbvars PROVE DbShape'
    OBVIOUS
  <2>1. CASE UNCHANGED dbvars
    BY <2>1 DEF dbvars, DbShape
  <2>2. QED BY <2>1, ShapeSending, ShapeReading, ShapeMoving DEF DbNext
<1>3. QED BY <1>1, <1>2, DbInvHolds, PTL DEF DbSpec

---------------------------------------------------------------------------
(* The theorems.                                                           *)

(* Whatever capacities the buffer is given and however it is moved in, its *)
(* head stays inside it and its tail and current row at most one past it,  *)
(* which every index into dbproc->row_buf.rows relies on                   *)
(* (buffering.h:201, 214, 401).                                            *)
THEOREM DbTypes == DbSpec => []DbTypeOK
<1>1. DbInv /\ DbShape => DbTypeOK
  BY DEF DbInv, DbTyped, BufferOK, RowBuffers, DbShape, Loops, DbTypeOK
<1>2. QED BY <1>1, DbInvHolds, DbShapeHolds, PTL

(* However often the ring wraps, is cleared or is moved in, for any        *)
(* capacity: the slots between tail and head, and no others, hold          *)
(* consecutive rows, the last of them the last received (buffering.h).     *)
THEOREM RingHolds == DbSpec => []Ring
<1>1. DbInv => Ring
  <2> SUFFICES ASSUME DbInv, row_buf.allocated PROVE RingOf(row_buf)
    BY DEF Ring, RingOf, Slots, Age
  <2> QED BY DEF DbInv, Stored
<1>2. QED BY <1>1, DbInvHolds, PTL

(* dbnextrow, whether it reads a row or returns a buffered one, transfers  *)
(* the row after the one before, and dbgetrow the row asked for            *)
(* (dblib.c:1891, 2056-2104).                                              *)
THEOREM RowsComeInOrder == DbSpec => []RowsInOrder
BY DbInvHolds, PTL DEF DbInv

(* A buffered row reads the values the server sent with it, although the   *)
(* connection has only one row to read into, unless rows were read away by *)
(* dbcanquery or dbcancel (buffering.h:525).                               *)
THEOREM RowsReadThemselves == DbSpec => []RowIsItself
<1>1. DbInv => RowIsItself
  <2> SUFFICES ASSUME DbInv, ~app.skipped, NEW i \in Filled(row_buf),
                      row_buf.allocated
               PROVE  DataOf(row_buf, i, current_row) = row_buf.rows[i].row
    BY DEF RowIsItself
  <2>1. /\ BufferOK(row_buf) /\ RingOf(row_buf)
        /\ Kept(row_buf, app.skipped)
        /\ ReadLast(row_buf, app.skipped, current_row)
    BY DEF DbInv, DbTyped, Stored
  <2>2. CASE row_buf.rows[i].data # 0
    BY <2>1, <2>2 DEF DataOf, Kept
  <2>3. CASE row_buf.rows[i].data = 0
    BY <2>1, <2>3, FilledRows DEF DataOf, Kept, ReadLast
  <2>4. QED BY <2>2, <2>3
<1>2. QED BY <1>1, DbInvHolds, PTL

(* The row the application gets is the one that is due and reads the       *)
(* values it came with, however the buffer wraps or is moved in            *)
(* (dbnextrow, dbgetrow, dbsetrow).                                        *)
THEOREM RowsAreAsReceived == DbSpec => []RowsAsReceived
<1>1. RowsInOrder /\ RowIsItself => RowsAsReceived
  BY DEF RowsAsReceived
<1>2. QED BY <1>1, RowsComeInOrder, RowsReadThemselves, PTL

(* A result set, an empty one too, that dbsqlok or dbresults has opened is *)
(* announced by one SUCCEED of dbresults before the next one is opened or  *)
(* the end is reported, unless a send failed on pending results            *)
(* (dblib.c:1626-1770).                                                    *)
THEOREM ResultSetsAnnounced == DbSpec => []EachAnnounced
<1>1. Announcing => EachAnnounced
  BY DEF Announcing, EachAnnounced
<1>2. QED BY <1>1, AnnouncingHolds, PTL

(* A procedure that is alone in the list has not been sent, so that a      *)
(* second dbrpcsend cannot run it again (rpc.c:200-240).                   *)
THEOREM ProceduresSentOnce == DbSpec => []SentOnce
<1>1. DbInit => SentOnce
  BY DEF DbInit, SentOnce
<1>2. DbInv /\ SentOnce /\ [DbNext]_dbvars => SentOnce'
  <2> SUFFICES ASSUME DbInv, SentOnce, [DbNext]_dbvars PROVE SentOnce'
    OBVIOUS
  <2>1. CASE UNCHANGED dbvars
    BY <2>1 DEF dbvars, SentOnce
  <2>2. QED BY <2>1, SentOnceStep
<1>3. QED BY <1>1, <1>2, DbInvHolds, PTL DEF DbSpec

---------------------------------------------------------------------------
(* ct-lib.                                                                 *)

Kinds == {"none", "row", "rowfmt", "status", "done", "inproc", "doneproc"}
TokenRecords == [kind : Kinds, more : BOOLEAN, err : BOOLEAN]

States == {"IDLE", "BUILDING", "READY", "SENT"}
Stages == {"NONE", "INIT", "RESULTSET_EMPTY", "RESULTSET_ROWS", "STATUS", "CMD_DONE"}
Currents == {"none", "row", "status", "done"}
CmdRecords == [state : States, results : Stages, cancel : BOOLEAN,
               cur : Currents, fetched : BOOLEAN]
WireRecords == [owner : Cmds \cup {"none"}, tok : TokenRecords, left : Int,
                set : BOOLEAN, in_cancel : BOOLEAN]
AtRecords == [call : {"out", "results", "fetch", "current", "hung"},
              cmd : Cmds \cup {"none"}, stop : BOOLEAN]
Rights == {"build", "results", "fetch", "dropped"}
AppRecords == [right : [Cmds -> Rights], ends : Nat, dones : Nat,
               ended : BOOLEAN, asked : SUBSET Cmds, unasked : BOOLEAN,
               foreign : BOOLEAN, crossed : BOOLEAN, left : Int]

CtTyped ==
  /\ ct_cmd \in [Cmds -> CmdRecords] /\ ct_wire \in WireRecords
  /\ ct_at \in AtRecords /\ ct_app \in AppRecords

\* the command has an answer to read
Live(c) == ct_app.right[c] \in {"results", "fetch"}

---------------------------------------------------------------------------
(* What may follow a token.                                                *)

LEMMA SingleTokens ==
  /\ Row \in TokenRecords /\ Row.kind = "row"
  /\ RowFmt \in TokenRecords /\ RowFmt.kind = "rowfmt"
  /\ Status \in TokenRecords /\ Status.kind = "status"
  /\ InProc \in TokenRecords /\ InProc.kind = "inproc"
  /\ Nothing \in TokenRecords /\ Nothing.kind = "none"
<1>1. ASSUME NEW kind \in Kinds, NEW more \in BOOLEAN
      PROVE  /\ Token(kind, more, FALSE) \in TokenRecords
             /\ Token(kind, more, FALSE).kind = kind
  BY <1>1 DEF Token, TokenRecords
<1>2. /\ "row" \in Kinds /\ "rowfmt" \in Kinds /\ "status" \in Kinds
      /\ "inproc" \in Kinds /\ "none" \in Kinds
  BY DEF Kinds
<1>3. QED BY <1>1, <1>2, Zenon DEF Row, RowFmt, Status, InProc, Nothing

LEMMA EndTokens ==
  ASSUME NEW left, NEW t
  PROVE  /\ t \in Dones("done", left) => t \in TokenRecords /\ t.kind = "done"
         /\ t \in Dones("doneproc", left) =>
              t \in TokenRecords /\ t.kind = "doneproc"
         /\ t \in Ends(left) =>
              t \in TokenRecords /\ t.kind \in {"done", "inproc"}
<1>1. ASSUME NEW kind \in Kinds, t \in Dones(kind, left)
      PROVE  t \in TokenRecords /\ t.kind = kind
  BY <1>1 DEF Dones, Token, TokenRecords
<1>2. t \in If(left > 1, InProc) => t \in TokenRecords /\ t.kind = "inproc"
  BY SingleTokens DEF If
<1>3. "done" \in Kinds /\ "doneproc" \in Kinds
  BY DEF Kinds
<1>4. QED BY <1>1, <1>2, <1>3 DEF Ends

LEMMA FirstTokens ==
  ASSUME NEW left, NEW t \in ProcStarts(left)
  PROVE  t \in TokenRecords /\ t.kind \in {"done", "inproc", "rowfmt", "status"}
<1>1. t \in If(left > 1, RowFmt) => t \in TokenRecords /\ t.kind = "rowfmt"
  BY SingleTokens DEF If
<1>2. t \in If(left > 1, Status) => t \in TokenRecords /\ t.kind = "status"
  BY SingleTokens DEF If
<1>3. QED BY <1>1, <1>2, EndTokens DEF ProcStarts, Starts

LEMMA NextTokens ==
  ASSUME NEW token \in TokenRecords, NEW left, NEW t \in ProcAfter(token, left)
  PROVE  /\ t \in TokenRecords
         /\ token.kind \in {"row", "rowfmt"} =>
              t.kind \in {"row", "done", "inproc"}
         /\ token.kind = "status" => t.kind = "doneproc"
         /\ token.kind \notin {"row", "rowfmt", "status"} =>
              \/ t = Nothing
              \/ t.kind \in {"done", "inproc", "rowfmt", "status"}
<1>1. CASE token.kind \in {"row", "rowfmt"}
  <2>1. t \in Inside(left)
    BY <1>1 DEF ProcAfter
  <2>2. t \in If(left > 1, Row) => t \in TokenRecords /\ t.kind = "row"
    BY SingleTokens DEF If
  <2>3. QED BY <1>1, <2>1, <2>2, EndTokens DEF Inside
<1>2. CASE token.kind = "status"
  <2>1. t \in Dones("doneproc", left)
    BY <1>2 DEF ProcAfter
  <2>2. QED BY <1>2, <2>1, EndTokens
<1>3. CASE token.kind \notin {"row", "rowfmt", "status"}
  <2>1. t \in ProcStarts(left) \/ t = Nothing
    BY <1>3 DEF ProcAfter
  <2>2. Nothing \in TokenRecords
    BY DEF Nothing, Token, TokenRecords, Kinds
  <2>3. QED BY <1>3, <2>1, <2>2, FirstTokens
<1>4. QED BY <1>1, <1>2, <1>3

\* What Read does to the connection.
LEMMA ReadsOn ==
  ASSUME ct_wire \in WireRecords, Read
  PROVE  /\ ct_wire' \in WireRecords
         /\ \/ ct_wire' = NoAnswer /\ ct_wire.tok.kind \notin {"row", "rowfmt", "status"}
            \/ /\ ct_wire'.owner = ct_wire.owner
               /\ ct_wire'.in_cancel = ct_wire.in_cancel
               /\ ct_wire'.tok \in ProcAfter(ct_wire.tok, ct_wire.left) \ {Nothing}
               /\ ct_wire'.set <=> ct_wire.tok.kind \in {"row", "rowfmt"}
<1>1. PICK next \in ProcAfter(ct_wire.tok, ct_wire.left) :
        ct_wire' = IF next = Nothing THEN NoAnswer
                   ELSE [ct_wire EXCEPT !.tok = next, !.left = @ - 1,
                           !.set = \/ ct_wire.tok.kind = "rowfmt"
                                   \/ ct_wire.tok.kind = "row"]
  BY DEF Read
<1>2. next \in TokenRecords /\ ct_wire.tok \in TokenRecords
  BY NextTokens DEF WireRecords
<1>3. CASE next = Nothing
  <2>1. ct_wire' = NoAnswer
    BY <1>1, <1>3
  <2>2. ct_wire.tok.kind \notin {"row", "rowfmt", "status"}
    BY <1>2, <1>3, NextTokens DEF Nothing, Token
  <2>3. NoAnswer \in WireRecords
    BY DEF NoAnswer, WireRecords, Nothing, Token, TokenRecords, Kinds
  <2>4. QED BY <2>1, <2>2, <2>3
<1>4. CASE next # Nothing
  <2>1. PICK set \in BOOLEAN : set = (\/ ct_wire.tok.kind = "rowfmt"
                                      \/ ct_wire.tok.kind = "row")
    OBVIOUS
  <2>2. ct_wire' = [owner |-> ct_wire.owner, tok |-> next,
                    left |-> ct_wire.left - 1, set |-> set,
                    in_cancel |-> ct_wire.in_cancel]
    BY <1>1, <1>4, <2>1 DEF WireRecords
  <2>3. /\ ct_wire.owner \in Cmds \cup {"none"} /\ ct_wire.left - 1 \in Int
        /\ ct_wire.in_cancel \in BOOLEAN
    BY DEF WireRecords
  <2>4. ct_wire' \in WireRecords
    BY <1>2, <2>1, <2>2, <2>3 DEF WireRecords
  <2>5. QED BY <1>1, <1>4, <2>1, <2>2, <2>4
<1>5. QED BY <1>3, <1>4

---------------------------------------------------------------------------
(* The invariant.                                                          *)

\* an answer belongs to a command until its last token is read
Joined ==
  /\ ct_wire.owner = "none" => ct_wire = NoAnswer
  /\ ct_wire.tok.kind = "none" => ct_wire.owner = "none"
  /\ ct_wire.in_cancel => ct_wire.owner \in Cmds

\* a call reads for a live command without a cancel
Looping ==
  /\ ct_at.cmd = "none" <=> ct_at.call = "out"
  /\ ct_at.cmd # "none" => Live(ct_at.cmd) /\ ~ct_cmd[ct_at.cmd].cancel
  /\ ct_at.call = "results" => ct_cmd[ct_at.cmd].results \notin {"NONE", "CMD_DONE"}

Sent == \A c \in Cmds : Live(c) => ct_cmd[c].state = "SENT"

Cancels ==
  \A c \in Cmds : ct_cmd[c].cancel =>
    /\ c \in ct_app.asked
    /\ ct_wire.owner = c => ct_wire.in_cancel

Told == OwnResults /\ CanceledMeansAsked

\* Unless commands were crossed: at most one is live, and a cancel on the
\* connection is its own.
Alone ==
  ~ct_app.crossed =>
    /\ \A c, d \in Cmds : Live(c) /\ Live(d) => c = d
    /\ ct_wire.in_cancel => ct_cmd[ct_wire.owner].cancel

\* where in its answer a command is, by its result state
AtStage(c) ==
  LET kind == ct_wire.tok.kind
      results == ct_cmd[c].results
  IN  /\ results \in {"NONE", "INIT", "CMD_DONE"} =>
           kind # "row" /\ ~ct_wire.set
      /\ results = "RESULTSET_EMPTY" =>
           /\ kind \in {"row", "done", "inproc"} /\ ct_wire.set
           /\ ct_at.cmd = c /\ ct_at.call = "results" /\ ct_at.stop
      /\ results = "RESULTSET_ROWS" =>
           kind \in {"row", "done", "inproc"} /\ ct_wire.set
      /\ results = "STATUS" => kind = "doneproc"

\* what was read of the answer is what was returned, but for a CS_CMD_DONE
\* that the next call returns
Counted(c) ==
  ct_app.ends = IF ct_cmd[c].results = "CMD_DONE" THEN ct_app.dones + 1
                                                 ELSE ct_app.dones

CtReading ==
  ~ct_app.crossed =>
    \A c \in Cmds : Live(c) =>
      ~ct_app.ended /\ (~ct_cmd[c].cancel => AtStage(c) /\ Counted(c))

CtInv ==
  /\ CtTyped /\ Joined /\ Looping /\ Sent /\ Cancels /\ Told
  /\ Alone /\ CtReading /\ OverMeansQuiet /\ EachCommandDone

---------------------------------------------------------------------------
(* The steps of a command that reads its answer.                           *)

LEMMA LiveFacts ==
  ASSUME CtInv, NEW c \in Cmds, Live(c), ~ct_cmd[c].cancel, ~ct_app.crossed
  PROVE  /\ AtStage(c) /\ Counted(c) /\ ~ct_app.ended
         /\ ct_wire.owner \in {c, "none"} /\ ~ct_wire.in_cancel
         /\ \A d \in Cmds \ {c} : ~Live(d)
<1>1. AtStage(c) /\ Counted(c) /\ ~ct_app.ended
  BY DEF CtInv, CtReading
<1>2. \A d \in Cmds \ {c} : ~Live(d)
  BY DEF CtInv, Alone
<1>3. ct_wire.owner \in {c, "none"}
  <2>1. ct_wire.owner \in Cmds => Live(ct_wire.owner)
    BY DEF CtInv, OverMeansQuiet, Live, CtTyped, AppRecords, Rights
  <2>2. ct_wire.owner \in Cmds \cup {"none"}
    BY DEF CtInv, CtTyped, WireRecords
  <2>3. QED BY <1>2, <2>1, <2>2
<1>4. ~ct_wire.in_cancel
  BY <1>3, CtAssumption DEF CtInv, Joined, Alone
<1>5. QED BY <1>1, <1>2, <1>3, <1>4

\* A step of command c that keeps it live keeps the invariant, once c is again
\* at a stage of its answer and its results are counted.
LEMMA LiveStep ==
  ASSUME CtInv, NEW c \in Cmds, Live(c), ~ct_cmd[c].cancel,
         CtTyped', Looping',
         \/ UNCHANGED ct_wire /\ ct_app'.foreign = ct_app.foreign
         \/ /\ Read /\ ct_wire.tok.kind # "none"
            /\ ct_app'.foreign => ct_app.foreign \/ ct_wire.owner # c,
         ct_app'.asked = ct_app.asked, ct_app'.unasked = ct_app.unasked,
         ct_app'.ended = ct_app.ended, ct_app'.crossed = ct_app.crossed,
         \A d \in Cmds \ {c} : /\ ct_cmd'[d] = ct_cmd[d]
                               /\ ct_app'.right[d] = ct_app.right[d],
         Live(c)', ct_cmd'[c].state = ct_cmd[c].state, ~ct_cmd'[c].cancel,
         ~ct_app.crossed => AtStage(c)' /\ Counted(c)'
  PROVE  CtInv'
<1>0. /\ CtTyped /\ Joined /\ Sent /\ Cancels /\ Told /\ Alone /\ OverMeansQuiet
      /\ "none" \notin Cmds
  BY CtAssumption DEF CtInv
<1>1. /\ ct_wire'.owner \in {ct_wire.owner, "none"}
      /\ ct_wire'.owner = "none" => ct_wire' = NoAnswer \/ ct_wire' = ct_wire
      /\ ct_wire'.tok.kind = "none" => ct_wire'.owner = "none"
      /\ ct_wire'.in_cancel => ct_wire.in_cancel /\ ct_wire'.owner = ct_wire.owner
      /\ ct_wire'.owner # "none" => ct_wire'.in_cancel = ct_wire.in_cancel
  <2>1. CASE UNCHANGED ct_wire
    BY <1>0, <2>1 DEF Joined
  <2>2. CASE Read /\ ct_wire.tok.kind # "none"
    <3>1. \/ ct_wire' = NoAnswer
          \/ /\ ct_wire'.owner = ct_wire.owner
             /\ ct_wire'.in_cancel = ct_wire.in_cancel
             /\ ct_wire'.tok \in ProcAfter(ct_wire.tok, ct_wire.left) \ {Nothing}
      BY <1>0, <2>2, ReadsOn DEF CtTyped
    <3>2. CASE ct_wire' = NoAnswer
      BY <3>2, SingleTokens DEF NoAnswer
    <3>3. CASE /\ ct_wire'.owner = ct_wire.owner
               /\ ct_wire'.in_cancel = ct_wire.in_cancel
               /\ ct_wire'.tok \in ProcAfter(ct_wire.tok, ct_wire.left) \ {Nothing}
      <4>1. ct_wire'.tok.kind # "none"
        BY <1>0, <2>2, <3>3, NextTokens DEF CtTyped, WireRecords, TokenRecords, Kinds
      <4>2. ct_wire.owner # "none"
        <5>1. ct_wire.owner = "none" => ct_wire.tok.kind = "none"
          BY <1>0, SingleTokens DEF Joined, NoAnswer
        <5>2. QED BY <2>2, <5>1
      <4>3. QED BY <3>3, <4>1, <4>2
    <3>4. QED BY <3>1, <3>2, <3>3
  <2>3. QED BY <2>1, <2>2
<1>2. Joined' /\ Sent' /\ Cancels'
  <2>1. Joined'
    BY <1>0, <1>1 DEF Joined
  <2>2. Sent'
    BY <1>0 DEF Sent, Live
  <2>3. Cancels'
    BY <1>0, <1>1 DEF Cancels
  <2>4. QED BY <2>1, <2>2, <2>3
<1>3. Told'
  <2>1. ct_app'.foreign => ct_app'.crossed
    <3>1. CASE ct_app'.foreign => ct_app.foreign
      BY <1>0, <3>1 DEF Told, OwnResults
    <3>2. CASE ct_wire.owner # c /\ ct_wire.tok.kind # "none"
      <4>1. ct_wire.owner # "none"
        <5>1. ct_wire.owner = "none" => ct_wire.tok.kind = "none"
          BY <1>0, SingleTokens DEF Joined, NoAnswer
        <5>2. QED BY <3>2, <5>1
      <4>2. ct_app.crossed
        BY <3>2, <4>1, LiveFacts
      <4>3. QED BY <4>2
    <3>3. QED BY <3>1, <3>2
  <2>2. QED BY <1>0, <2>1 DEF Told, OwnResults, CanceledMeansAsked
<1>4. Alone'
  BY <1>0, <1>1, LiveFacts DEF Alone, Live
<1>5. CtReading'
  <2>1. ASSUME ~ct_app.crossed, NEW d \in Cmds, Live(d)'
        PROVE  d = c
    BY <2>1, LiveFacts DEF Live
  <2>2. ~ct_app.crossed => ~ct_app.ended
    BY LiveFacts
  <2>3. QED BY <2>1, <2>2 DEF CtReading
<1>6. OverMeansQuiet'
  <2>1. ASSUME NEW d \in Cmds, ct_app'.right[d] \in {"build", "dropped"}
        PROVE  ct_wire'.owner # d
    BY <1>0, <1>1, <2>1 DEF OverMeansQuiet, Live
  <2>2. QED BY <2>1 DEF OverMeansQuiet
<1>7. EachCommandDone'
  BY LiveFacts DEF EachCommandDone
<1>8. QED BY <1>2, <1>3, <1>4, <1>5, <1>6, <1>7 DEF CtInv

---------------------------------------------------------------------------
(* Calls that begin to read, or answer at once.                            *)

LEMMA OutsideTyped == Outside \in AtRecords
BY DEF Outside, AtRecords

LEMMA ResultsCalled ==
  ASSUME CtInv, NEW c \in Cmds, ct_results(c)
  PROVE  CtInv'
<1>0. /\ CtTyped /\ ct_cmd \in [Cmds -> CmdRecords]
      /\ ct_app.right[c] = "results" /\ ~ct_cmd[c].cancel
      /\ ct_cmd[c].results # "CMD_DONE" /\ ct_at = Outside
  BY DEF CtInv, CtTyped, ct_results
<1>1. /\ UNCHANGED <<ct_wire, ct_app>>
      /\ ct_at' = [call |-> "results", cmd |-> c, stop |-> FALSE]
      /\ ct_cmd' = [ct_cmd EXCEPT ![c].fetched = FALSE,
                      ![c].results = IF @ = "NONE" THEN "INIT" ELSE @]
  BY DEF ct_results
<1>2. /\ ct_cmd' \in [Cmds -> CmdRecords]
      /\ \A d \in Cmds \ {c} : ct_cmd'[d] = ct_cmd[d]
      /\ ct_cmd'[c].cancel = ct_cmd[c].cancel /\ ct_cmd'[c].state = ct_cmd[c].state
      /\ ct_cmd'[c].results = IF ct_cmd[c].results = "NONE" THEN "INIT"
                              ELSE ct_cmd[c].results
  BY <1>0, <1>1 DEF CmdRecords, Stages
<1>3. CtTyped' /\ Looping'
  BY <1>0, <1>1, <1>2, CtAssumption DEF CtTyped, AtRecords, Looping, Live
<1>4. ~ct_app.crossed => AtStage(c)' /\ Counted(c)'
  BY <1>0, <1>1, <1>2, LiveFacts, CtAssumption
     DEF AtStage, Counted, Live, Outside
<1>5. QED BY <1>0, <1>1, <1>2, <1>3, <1>4, LiveStep DEF Live

LEMMA ResultsAnswered ==
  ASSUME CtInv, NEW c \in Cmds, ResultsKnown(c)
  PROVE  CtInv'
<1>0. /\ CtTyped /\ ct_cmd \in [Cmds -> CmdRecords] /\ ct_app \in AppRecords
      /\ ct_app.right[c] = "results" /\ ~ct_cmd[c].cancel
      /\ ct_cmd[c].results = "CMD_DONE" /\ ct_at = Outside
  BY DEF CtInv, CtTyped, ResultsKnown
<1>1. /\ UNCHANGED <<ct_wire, ct_at>>
      /\ ct_cmd' = [ct_cmd EXCEPT ![c].results = "INIT", ![c].fetched = FALSE]
      /\ ct_app' = [ct_app EXCEPT !.dones = @ + 1]
  BY DEF ResultsKnown
<1>2. /\ ct_cmd' \in [Cmds -> CmdRecords]
      /\ \A d \in Cmds \ {c} : ct_cmd'[d] = ct_cmd[d]
      /\ ct_cmd'[c].cancel = ct_cmd[c].cancel /\ ct_cmd'[c].state = ct_cmd[c].state
      /\ ct_cmd'[c].results = "INIT"
  BY <1>0, <1>1 DEF CmdRecords, Stages
<1>3. /\ ct_app' \in AppRecords /\ ct_app'.dones = ct_app.dones + 1
      /\ ct_app'.right = ct_app.right /\ ct_app'.ends = ct_app.ends
      /\ ct_app'.asked = ct_app.asked /\ ct_app'.unasked = ct_app.unasked
      /\ ct_app'.ended = ct_app.ended /\ ct_app'.crossed = ct_app.crossed
      /\ ct_app'.foreign = ct_app.foreign
  BY <1>0, <1>1 DEF AppRecords
<1>4. CtTyped' /\ Looping'
  BY <1>0, <1>1, <1>2, <1>3, CtAssumption DEF CtTyped, Looping, Outside
<1>5. ~ct_app.crossed => AtStage(c)' /\ Counted(c)'
  BY <1>0, <1>1, <1>2, <1>3, LiveFacts DEF AtStage, Counted, Live
<1>6. QED BY <1>0, <1>1, <1>2, <1>3, <1>4, <1>5, LiveStep DEF Live

LEMMA FetchCalled ==
  ASSUME CtInv, NEW c \in Cmds, ct_fetch(c) \/ CancelCurrent(c)
  PROVE  CtInv'
<1>0. CtTyped /\ Live(c) /\ ~ct_cmd[c].cancel /\ ct_at = Outside
  BY DEF CtInv, ct_fetch, CancelCurrent, Live
<1>1. /\ UNCHANGED <<ct_cmd, ct_wire, ct_app>>
      /\ ct_at'.cmd = c /\ ct_at'.call \in {"fetch", "current"}
      /\ ct_at' \in AtRecords
  <2>1. PICK call \in {"fetch", "current"} :
          /\ ct_at' = [call |-> call, cmd |-> c, stop |-> TRUE]
          /\ UNCHANGED <<ct_cmd, ct_wire, ct_app>>
    BY DEF ct_fetch, CancelCurrent
  <2>2. QED BY <2>1 DEF AtRecords
<1>2. CtTyped' /\ Looping'
  BY <1>0, <1>1, CtAssumption DEF CtTyped, Looping, Live
<1>3. ~ct_app.crossed => AtStage(c)' /\ Counted(c)'
  BY <1>0, <1>1, LiveFacts, CtAssumption DEF AtStage, Counted, Outside
<1>4. QED BY <1>0, <1>1, <1>2, <1>3, LiveStep DEF Live

---------------------------------------------------------------------------
(* The tokens ct_results handles.                                          *)

\* What a command meets in the loop.
LEMMA InLoop ==
  ASSUME CtInv, NEW c \in Cmds, NEW kinds \in SUBSET Kinds, Meets(c, kinds)
  PROVE  /\ CtTyped /\ ct_at.cmd = c /\ ct_at.call = "results"
         /\ ct_wire.tok.kind \in kinds
         /\ Live(c) /\ ~ct_cmd[c].cancel
         /\ ct_cmd[c].results \notin {"NONE", "CMD_DONE"}
         /\ ct_cmd \in [Cmds -> CmdRecords] /\ ct_app \in AppRecords
         /\ ct_wire \in WireRecords /\ ct_at \in AtRecords
         /\ ct_app.right[c] \in Rights
BY CtAssumption DEF CtInv, Meets, Looping, CtTyped, AppRecords

\* The history has a token read by command c more, which may do r now.
SeenBy(c, r) ==
  /\ ct_app' \in AppRecords
  /\ ct_app'.right[c] = r
  /\ \A d \in Cmds \ {c} : ct_app'.right[d] = ct_app.right[d]
  /\ ct_app'.foreign => ct_app.foreign \/ ct_wire.owner # c
  /\ ct_app'.ends = IF EndsResult(ct_wire) THEN ct_app.ends + 1
                                           ELSE ct_app.ends
  /\ ct_app'.dones = ct_app.dones
  /\ ct_app'.asked = ct_app.asked /\ ct_app'.unasked = ct_app.unasked
  /\ ct_app'.ended = ct_app.ended /\ ct_app'.crossed = ct_app.crossed

LEMMA SeenFields ==
  ASSUME ct_app \in AppRecords, NEW c \in Cmds, NEW r \in Rights
  PROVE  /\ ct_app' = Seen(c) => SeenBy(c, ct_app.right[c])
         /\ ct_app' = [Seen(c) EXCEPT !.right[c] = r] => SeenBy(c, r)
<1> DEFINE s == Seen(c)
           f == ct_app.foreign \/ ct_wire.owner # c
           n == IF EndsResult(ct_wire) THEN ct_app.ends + 1 ELSE ct_app.ends
<1>1. s = [ct_app EXCEPT !.foreign = f, !.ends = n]
  BY DEF Seen
<1>2. f \in BOOLEAN /\ n \in Nat
  BY DEF AppRecords
<1> HIDE DEF f, n
<1>3. s = [right |-> ct_app.right, ends |-> n, dones |-> ct_app.dones,
           ended |-> ct_app.ended, asked |-> ct_app.asked,
           unasked |-> ct_app.unasked, foreign |-> f,
           crossed |-> ct_app.crossed, left |-> ct_app.left]
  BY <1>1 DEF AppRecords
<1> HIDE DEF s
<1>4. /\ s \in AppRecords /\ s.right = ct_app.right /\ s.ends = n
      /\ s.dones = ct_app.dones /\ s.asked = ct_app.asked
      /\ s.unasked = ct_app.unasked /\ s.ended = ct_app.ended
      /\ s.crossed = ct_app.crossed /\ s.foreign = f
  BY <1>2, <1>3 DEF AppRecords
<1>5. ASSUME ct_app' = s PROVE SeenBy(c, ct_app.right[c])
  BY <1>4, <1>5 DEF SeenBy, f, n
<1>6. ASSUME ct_app' = [s EXCEPT !.right[c] = r] PROVE SeenBy(c, r)
  <2>1. /\ ct_app' \in AppRecords /\ ct_app'.right[c] = r
        /\ \A d \in Cmds \ {c} : ct_app'.right[d] = ct_app.right[d]
        /\ ct_app'.ends = n /\ ct_app'.dones = ct_app.dones
        /\ ct_app'.asked = ct_app.asked
        /\ ct_app'.unasked = ct_app.unasked /\ ct_app'.ended = ct_app.ended
        /\ ct_app'.crossed = ct_app.crossed /\ ct_app'.foreign = f
    BY <1>4, <1>6 DEF AppRecords
  <2>2. QED BY <2>1 DEF SeenBy, f, n
<1>7. QED BY <1>5, <1>6 DEF s

\* Command c is at a stage of its answer, and keeps its state and cancel.
Staged(c, stage) ==
  /\ ct_cmd' \in [Cmds -> CmdRecords]
  /\ \A d \in Cmds \ {c} : ct_cmd'[d] = ct_cmd[d]
  /\ ct_cmd'[c].cancel = ct_cmd[c].cancel
  /\ ct_cmd'[c].state = ct_cmd[c].state
  /\ ct_cmd'[c].results = stage

LEMMA StageFields ==
  ASSUME ct_cmd \in [Cmds -> CmdRecords], NEW c \in Cmds, NEW cur \in Currents,
         NEW stage \in Stages
  PROVE  /\ ct_cmd' = [ct_cmd EXCEPT ![c].cur = cur, ![c].results = stage]
              => Staged(c, stage)
         /\ ct_cmd' = [ct_cmd EXCEPT ![c].cur = cur, ![c].results = stage,
                                     ![c].fetched = TRUE]
              => Staged(c, stage)
         /\ ct_cmd' = [ct_cmd EXCEPT ![c].cur = cur]
              => Staged(c, ct_cmd[c].results)
<1>1. ASSUME ct_cmd' = [ct_cmd EXCEPT ![c].cur = cur, ![c].results = stage]
      PROVE  Staged(c, stage)
  BY <1>1 DEF Staged, CmdRecords
<1>2. ASSUME ct_cmd' = [ct_cmd EXCEPT ![c].cur = cur, ![c].results = stage,
                                      ![c].fetched = TRUE]
      PROVE  Staged(c, stage)
  BY <1>2 DEF Staged, CmdRecords
<1>3. ASSUME ct_cmd' = [ct_cmd EXCEPT ![c].cur = cur]
      PROVE  Staged(c, ct_cmd[c].results)
  BY <1>3 DEF Staged, CmdRecords
<1>4. QED BY <1>1, <1>2, <1>3

\* What is next on the connection after a token of each kind was read.
LEMMA ReadKinds ==
  ASSUME ct_wire \in WireRecords, Read
  PROVE  /\ ct_wire' \in WireRecords
         /\ ct_wire.tok.kind \in {"row", "rowfmt"} =>
              ct_wire'.tok.kind \in {"row", "done", "inproc"} /\ ct_wire'.set
         /\ ct_wire.tok.kind = "status" =>
              ct_wire'.tok.kind = "doneproc" /\ ~ct_wire'.set
         /\ ct_wire.tok.kind \notin {"row", "rowfmt", "status"} =>
              ct_wire'.tok.kind # "row" /\ ~ct_wire'.set
<1>1. ct_wire.tok \in TokenRecords
  BY DEF WireRecords
<1>2. CASE ct_wire' = NoAnswer
  <2>1. ct_wire.tok.kind \notin {"row", "rowfmt", "status"}
    <3>1. CASE ct_wire.tok.kind \in {"row", "rowfmt", "status"}
      <4>1. /\ ct_wire'.tok \in ProcAfter(ct_wire.tok, ct_wire.left) \ {Nothing}
        BY <3>1, ReadsOn
      <4>2. QED BY <1>2, <4>1, SingleTokens DEF NoAnswer
    <3>2. QED BY <3>1
  <2>2. ct_wire'.tok.kind # "row" /\ ~ct_wire'.set
    BY <1>2, SingleTokens DEF NoAnswer
  <2>3. QED BY <2>1, <2>2, ReadsOn
<1>3. CASE ct_wire' # NoAnswer
  <2>1. /\ ct_wire' \in WireRecords
        /\ ct_wire'.tok \in ProcAfter(ct_wire.tok, ct_wire.left) \ {Nothing}
        /\ ct_wire'.set <=> ct_wire.tok.kind \in {"row", "rowfmt"}
    BY <1>3, ReadsOn
  <2>2. QED BY <1>1, <2>1, NextTokens
<1>4. QED BY <1>2, <1>3

\* A token that ct_results reads: r and stage are what the application may do
\* next and the stage it leaves the command at.
LEMMA TokenStep ==
  ASSUME CtInv, NEW c \in Cmds, NEW kinds \in SUBSET Kinds,
         "none" \notin kinds, Meets(c, kinds), Read,
         NEW r \in {"results", "fetch"}, NEW stage \in Stages,
         SeenBy(c, r), Staged(c, stage), ct_at' \in AtRecords,
         \/ ct_at' = Outside
         \/ /\ ct_at'.cmd = c /\ ct_at'.call = "results"
            /\ stage \notin {"NONE", "CMD_DONE"},
         ~ct_app.crossed =>
           AtStage(c)' /\ (stage = "CMD_DONE" <=> EndsResult(ct_wire))
  PROVE  CtInv'
<1>0. /\ CtTyped /\ ct_at.cmd = c /\ ct_at.call = "results"
      /\ ct_wire.tok.kind # "none"
      /\ Live(c) /\ ~ct_cmd[c].cancel
      /\ ct_cmd[c].results \notin {"NONE", "CMD_DONE"}
      /\ ct_app \in AppRecords /\ ct_wire \in WireRecords
  BY InLoop
<1>1. CtTyped'
  BY <1>0, ReadKinds DEF CtTyped, SeenBy, Staged
<1>2. Live(c)' /\ ct_cmd'[c].results = stage /\ ~ct_cmd'[c].cancel
  BY <1>0 DEF Live, SeenBy, Staged
<1>3. Looping'
  BY <1>0, <1>2, CtAssumption DEF Looping, Outside
<1>4. ~ct_app.crossed => Counted(c)'
  <2>1. SUFFICES ASSUME ~ct_app.crossed PROVE Counted(c)'
    OBVIOUS
  <2>2. ct_app.ends = ct_app.dones /\ ct_app.dones \in Nat
    BY <1>0, <2>1, LiveFacts DEF Counted, AppRecords
  <2>3. QED BY <1>2, <2>1, <2>2 DEF Counted, SeenBy
<1>5. QED BY <1>0, <1>1, <1>2, <1>3, <1>4, LiveStep DEF SeenBy, Staged

LEMMA ReadingTokens ==
  ASSUME CtInv, NEW c \in Cmds,
         \/ ResultsFormat(c) \/ ResultsCmdDone(c) \/ ResultsDoneProc(c)
         \/ ResultsInProc(c) \/ ResultsStatus(c)
  PROVE  CtInv'
<1>1. CASE ResultsFormat(c)
  <2>1. /\ Meets(c, {"rowfmt"}) /\ Read /\ ct_app' = Seen(c)
        /\ ct_cmd' = [ct_cmd EXCEPT ![c].cur = "row", ![c].results = "RESULTSET_EMPTY"]
        /\ ct_at' = [ct_at EXCEPT !.stop = TRUE]
    BY <1>1 DEF ResultsFormat
  <2>2. /\ {"rowfmt"} \in SUBSET Kinds /\ "row" \in Currents
        /\ "RESULTSET_EMPTY" \in Stages
    BY DEF Kinds, Currents, Stages
  <2>3. /\ ct_at.cmd = c /\ ct_at.call = "results" /\ ct_at \in AtRecords
        /\ ct_wire.tok.kind = "rowfmt" /\ ct_wire \in WireRecords
        /\ ct_app.right[c] \in {"results", "fetch"}
        /\ ct_cmd \in [Cmds -> CmdRecords]
        /\ ct_app \in AppRecords
    BY <2>1, <2>2, InLoop DEF Live
  <2>4. ct_wire'.tok.kind \in {"row", "done", "inproc"} /\ ct_wire'.set
    BY <2>1, <2>3, ReadKinds
  <2>5. Staged(c, "RESULTSET_EMPTY") /\ SeenBy(c, ct_app.right[c])
    BY <2>1, <2>2, <2>3, StageFields, SeenFields DEF Rights
  <2>6. /\ ct_at' \in AtRecords
        /\ ct_at'.cmd = c /\ ct_at'.call = "results" /\ ct_at'.stop
    BY <2>1, <2>3 DEF AtRecords
  <2>7. AtStage(c)'
    BY <2>4, <2>5, <2>6 DEF AtStage, Staged
  <2>8. ~EndsResult(ct_wire)
    BY <2>3 DEF EndsResult
  <2>9. QED BY <2>1, <2>2, <2>3, <2>5, <2>6, <2>7, <2>8, TokenStep
<1>2. CASE ResultsCmdDone(c) \/ ResultsDoneProc(c)
  <2>1. PICK kind \in {"done", "doneproc"} : Meets(c, {kind}) /\ CommandDone(c)
    BY <1>2 DEF ResultsCmdDone, ResultsDoneProc
  <2>2. /\ {kind} \in SUBSET Kinds /\ "done" \in Currents
        /\ "CMD_DONE" \in Stages
    BY <2>1 DEF Kinds, Currents, Stages
  <2>3. /\ Read /\ ct_at' = Outside
        /\ ct_app' = [Seen(c) EXCEPT !.right[c] = "results"]
        /\ ct_cmd' = [ct_cmd EXCEPT ![c].cur = "done", ![c].results = "CMD_DONE"]
    BY <2>1 DEF CommandDone, Returns
  <2>4. /\ ct_wire.tok.kind \in {"done", "doneproc"} /\ ct_wire \in WireRecords
        /\ ct_cmd \in [Cmds -> CmdRecords] /\ ct_app \in AppRecords
    BY <2>1, <2>2, InLoop
  <2>5. ct_wire'.tok.kind # "row" /\ ~ct_wire'.set
    BY <2>3, <2>4, ReadKinds
  <2>6. Staged(c, "CMD_DONE") /\ SeenBy(c, "results")
    BY <2>2, <2>3, <2>4, StageFields, SeenFields DEF Rights
  <2>7. AtStage(c)'
    BY <2>5, <2>6 DEF AtStage, Staged
  <2>8. EndsResult(ct_wire)
    BY <2>4 DEF EndsResult
  <2>9. Outside \in AtRecords
    BY DEF Outside, AtRecords
  <2>10. QED BY <2>1, <2>2, <2>3, <2>6, <2>7, <2>8, <2>9, TokenStep
<1>3. CASE ResultsInProc(c)
  <2>1. /\ Meets(c, {"inproc"}) /\ Read /\ ct_app' = Seen(c)
        /\ ct_cmd' = [ct_cmd EXCEPT ![c].cur = "done"]
        /\ ct_cmd[c].results \in {"INIT", "STATUS"}
        /\ UNCHANGED ct_at
    BY <1>3 DEF ResultsInProc
  <2>2. /\ {"inproc"} \in SUBSET Kinds /\ "done" \in Currents
        /\ ct_cmd[c].results \in Stages
    BY <2>1 DEF Kinds, Currents, Stages
  <2>3. /\ ct_wire.tok.kind = "inproc" /\ ct_wire \in WireRecords
        /\ Live(c) /\ ~ct_cmd[c].cancel /\ ct_cmd \in [Cmds -> CmdRecords]
        /\ ct_at.cmd = c /\ ct_at.call = "results" /\ ct_at \in AtRecords
        /\ ct_app.right[c] \in {"results", "fetch"} /\ ct_app \in AppRecords
    BY <2>1, <2>2, InLoop DEF Live
  <2>4. ct_wire'.tok.kind # "row" /\ ~ct_wire'.set
    BY <2>1, <2>3, ReadKinds
  <2>5. Staged(c, ct_cmd[c].results) /\ SeenBy(c, ct_app.right[c])
    BY <2>1, <2>2, <2>3, StageFields, SeenFields DEF Rights
  <2>6. ASSUME ~ct_app.crossed
        PROVE  AtStage(c)' /\ ~EndsResult(ct_wire)
    <3>1. AtStage(c)
      BY <2>3, <2>6, LiveFacts
    <3>2. ct_cmd[c].results = "INIT" /\ ~ct_wire.set
      BY <2>1, <2>3, <3>1 DEF AtStage
    <3>3. QED BY <2>3, <2>4, <2>5, <3>2 DEF AtStage, EndsResult, Staged
  <2>7. QED BY <2>1, <2>2, <2>3, <2>5, <2>6, TokenStep
<1>4. CASE ResultsStatus(c)
  <2>1. /\ Meets(c, {"status"}) /\ Read /\ ct_at' = Outside
        /\ ct_cmd' = [ct_cmd EXCEPT ![c].cur = "status", ![c].results = "STATUS",
                                    ![c].fetched = TRUE]
        /\ ct_app' = [Seen(c) EXCEPT !.right[c] = "fetch"]
    BY <1>4 DEF ResultsStatus, Returns
  <2>2. /\ {"status"} \in SUBSET Kinds /\ "status" \in Currents
        /\ "STATUS" \in Stages
    BY DEF Kinds, Currents, Stages
  <2>3. /\ ct_wire.tok.kind = "status" /\ ct_wire \in WireRecords
        /\ ct_cmd \in [Cmds -> CmdRecords] /\ ct_app \in AppRecords
    BY <2>1, <2>2, InLoop
  <2>4. ct_wire'.tok.kind = "doneproc"
    BY <2>1, <2>3, ReadKinds
  <2>5. Staged(c, "STATUS") /\ SeenBy(c, "fetch")
    BY <2>1, <2>2, <2>3, StageFields, SeenFields DEF Rights
  <2>6. AtStage(c)'
    BY <2>4, <2>5 DEF AtStage, Staged
  <2>7. ~EndsResult(ct_wire)
    BY <2>3 DEF EndsResult
  <2>8. Outside \in AtRecords
    BY DEF Outside, AtRecords
  <2>9. QED BY <2>1, <2>2, <2>5, <2>6, <2>7, <2>8, TokenStep
<1>5. QED BY <1>1, <1>2, <1>3, <1>4

\* Only what the application may do with command c changes.
RightGiven(c, r) ==
  /\ ct_app' \in AppRecords
  /\ ct_app'.right[c] = r
  /\ \A d \in Cmds \ {c} : ct_app'.right[d] = ct_app.right[d]
  /\ ct_app'.foreign = ct_app.foreign
  /\ ct_app'.ends = ct_app.ends /\ ct_app'.dones = ct_app.dones
  /\ ct_app'.asked = ct_app.asked /\ ct_app'.unasked = ct_app.unasked
  /\ ct_app'.ended = ct_app.ended /\ ct_app'.crossed = ct_app.crossed

LEMMA RightFields ==
  ASSUME ct_app \in AppRecords, NEW c \in Cmds, NEW r \in Rights,
         ct_app' = [ct_app EXCEPT !.right[c] = r]
  PROVE  RightGiven(c, r)
BY DEF RightGiven, AppRecords

\* A step that reads nothing and lets the application go on.
LEMMA UnreadStep ==
  ASSUME CtInv, NEW c \in Cmds, Live(c), ~ct_cmd[c].cancel, UNCHANGED ct_wire,
         NEW r \in {"results", "fetch"}, NEW stage \in Stages,
         RightGiven(c, r), Staged(c, stage), ct_at' = Outside,
         ~ct_app.crossed =>
           AtStage(c)' /\ (stage = "CMD_DONE" <=> ct_cmd[c].results = "CMD_DONE")
  PROVE  CtInv'
<1>1. CtTyped'
  BY DEF CtInv, CtTyped, RightGiven, Staged, Outside, AtRecords
<1>2. Looping'
  BY CtAssumption DEF Looping, Outside
<1>3. ~ct_app.crossed => Counted(c)'
  BY LiveFacts DEF Counted, RightGiven, Staged
<1>4. Live(c)' /\ ~ct_cmd'[c].cancel
  BY DEF Live, RightGiven, Staged
<1>5. QED BY <1>1, <1>2, <1>3, <1>4, LiveStep DEF RightGiven, Staged

LEMMA RowsAnnounced ==
  ASSUME CtInv, NEW c \in Cmds, ResultsRows(c)
  PROVE  CtInv'
<1>1. /\ Meets(c, {"row"}) /\ ct_at' = Outside /\ UNCHANGED ct_wire
      /\ ct_cmd' = [ct_cmd EXCEPT ![c].cur = "row", ![c].results = "RESULTSET_ROWS"]
      /\ ct_app' = [ct_app EXCEPT !.right[c] = "fetch"]
  BY DEF ResultsRows
<1>2. /\ {"row"} \in SUBSET Kinds /\ "row" \in Currents
      /\ "RESULTSET_ROWS" \in Stages /\ "fetch" \in Rights
  BY DEF Kinds, Currents, Stages, Rights
<1>3. /\ ct_wire.tok.kind = "row" /\ Live(c) /\ ~ct_cmd[c].cancel
      /\ ct_cmd \in [Cmds -> CmdRecords] /\ ct_app \in AppRecords
      /\ ct_cmd[c].results \notin {"NONE", "CMD_DONE"}
  BY <1>1, <1>2, InLoop
<1>4. Staged(c, "RESULTSET_ROWS") /\ RightGiven(c, "fetch")
  BY <1>1, <1>2, <1>3, StageFields, RightFields
<1>5. ASSUME ~ct_app.crossed PROVE AtStage(c)'
  <2>1. AtStage(c)
    BY <1>3, <1>5, LiveFacts
  <2>2. ct_cmd[c].results \in Stages
    BY <1>3 DEF CmdRecords
  <2>3. ct_wire.set
    BY <1>3, <2>1, <2>2 DEF AtStage, Stages
  <2>4. QED BY <1>1, <1>3, <1>4, <2>3 DEF AtStage, Staged
<1>6. QED BY <1>1, <1>2, <1>3, <1>4, <1>5, UnreadStep

LEMMA NoRowsAnnounced ==
  ASSUME CtInv, NEW c \in Cmds, ResultsNoRows(c)
  PROVE  CtInv'
<1>1. /\ Meets(c, {"done", "inproc"})
      /\ ct_cmd[c].results = "RESULTSET_EMPTY" /\ ct_at' = Outside
      /\ ct_cmd' = [ct_cmd EXCEPT ![c].cur = "done", ![c].results = "RESULTSET_ROWS"]
      /\ \/ /\ ct_at.stop /\ UNCHANGED ct_wire
            /\ ct_app' = [ct_app EXCEPT !.right[c] = "fetch"]
         \/ /\ ~ct_at.stop /\ Read
            /\ ct_app' = [Seen(c) EXCEPT !.right[c] = "fetch"]
  BY DEF ResultsNoRows, Returns
<1>2. /\ {"done", "inproc"} \in SUBSET Kinds /\ "done" \in Currents
      /\ "RESULTSET_ROWS" \in Stages /\ "fetch" \in Rights
      /\ Outside \in AtRecords
  BY DEF Kinds, Currents, Stages, Rights, Outside, AtRecords
<1>3. /\ ct_wire.tok.kind \in {"done", "inproc"} /\ Live(c) /\ ~ct_cmd[c].cancel
      /\ ct_cmd \in [Cmds -> CmdRecords] /\ ct_app \in AppRecords
  BY <1>1, <1>2, InLoop
<1>4. Staged(c, "RESULTSET_ROWS")
  BY <1>1, <1>2, <1>3, StageFields
<1>5. ~ct_app.crossed => ct_wire.set /\ ct_at.stop
  BY <1>1, <1>3, LiveFacts DEF AtStage
<1>6. CASE /\ ct_at.stop /\ UNCHANGED ct_wire
           /\ ct_app' = [ct_app EXCEPT !.right[c] = "fetch"]
  <2>1. RightGiven(c, "fetch")
    BY <1>2, <1>3, <1>6, RightFields
  <2>2. ~ct_app.crossed => AtStage(c)'
    BY <1>3, <1>4, <1>5, <1>6 DEF AtStage, Staged
  <2>3. QED BY <1>1, <1>2, <1>3, <1>4, <1>6, <2>1, <2>2, UnreadStep
<1>7. CASE /\ ~ct_at.stop /\ Read
           /\ ct_app' = [Seen(c) EXCEPT !.right[c] = "fetch"]
  <2>1. SeenBy(c, "fetch")
    BY <1>2, <1>3, <1>7, SeenFields
  <2>2. ct_app.crossed
    BY <1>5, <1>7
  <2>3. QED BY <1>1, <1>2, <1>4, <1>7, <2>1, <2>2, TokenStep
<1>8. QED BY <1>1, <1>6, <1>7

LEMMA SetEnded ==
  ASSUME CtInv, NEW c \in Cmds, ResultsSetDone(c)
  PROVE  CtInv'
<1>1. /\ Meets(c, {"done", "inproc"}) /\ Read
      /\ ct_cmd[c].results = "RESULTSET_ROWS" /\ ct_at' = Outside
      /\ ct_cmd' = [ct_cmd EXCEPT ![c].cur = "done", ![c].results = "INIT"]
      /\ ct_app' = [Seen(c) EXCEPT !.dones = @ + 1]
  BY DEF ResultsSetDone
<1>2. /\ {"done", "inproc"} \in SUBSET Kinds /\ "done" \in Currents
      /\ "INIT" \in Stages
  BY DEF Kinds, Currents, Stages
<1>3. /\ ct_wire.tok.kind \in {"done", "inproc"} /\ Live(c) /\ ~ct_cmd[c].cancel
      /\ ct_cmd \in [Cmds -> CmdRecords] /\ ct_app \in AppRecords
      /\ ct_wire \in WireRecords /\ CtTyped
  BY <1>1, <1>2, InLoop
<1>4. Staged(c, "INIT")
  BY <1>1, <1>2, <1>3, StageFields
<1>5. /\ ct_app' \in AppRecords /\ ct_app'.right = ct_app.right
      /\ ct_app'.foreign => ct_app.foreign \/ ct_wire.owner # c
      /\ ct_app'.ends = IF EndsResult(ct_wire) THEN ct_app.ends + 1
                                               ELSE ct_app.ends
      /\ ct_app'.dones = ct_app.dones + 1
      /\ ct_app'.asked = ct_app.asked /\ ct_app'.unasked = ct_app.unasked
      /\ ct_app'.ended = ct_app.ended /\ ct_app'.crossed = ct_app.crossed
  <2> DEFINE f == ct_app.foreign \/ ct_wire.owner # c
             n == IF EndsResult(ct_wire) THEN ct_app.ends + 1 ELSE ct_app.ends
  <2>1. f \in BOOLEAN /\ n \in Nat
    BY <1>3 DEF AppRecords
  <2>2. ct_app' = [[ct_app EXCEPT !.foreign = f, !.ends = n] EXCEPT !.dones = @ + 1]
    BY <1>1 DEF Seen
  <2> HIDE DEF f, n
  <2>5. ct_app' = [right |-> ct_app.right, ends |-> n,
                   dones |-> ct_app.dones + 1, ended |-> ct_app.ended,
                   asked |-> ct_app.asked, unasked |-> ct_app.unasked,
                   foreign |-> f, crossed |-> ct_app.crossed,
                   left |-> ct_app.left]
    BY <1>3, <2>2 DEF AppRecords
  <2>6. /\ ct_app.dones + 1 \in Nat /\ ct_app.right \in [Cmds -> Rights]
        /\ ct_app.ended \in BOOLEAN /\ ct_app.asked \in SUBSET Cmds
        /\ ct_app.unasked \in BOOLEAN /\ ct_app.crossed \in BOOLEAN
        /\ ct_app.left \in Int
    BY <1>3 DEF AppRecords
  <2>3. /\ ct_app' \in AppRecords /\ ct_app'.right = ct_app.right
        /\ ct_app'.foreign = f /\ ct_app'.ends = n
        /\ ct_app'.dones = ct_app.dones + 1
        /\ ct_app'.asked = ct_app.asked /\ ct_app'.unasked = ct_app.unasked
        /\ ct_app'.ended = ct_app.ended /\ ct_app'.crossed = ct_app.crossed
    BY <2>1, <2>5, <2>6 DEF AppRecords
  <2>4. QED BY <2>3 DEF f, n
<1>6. CtTyped' /\ Looping'
  BY <1>1, <1>3, <1>4, <1>5, ReadKinds, CtAssumption
     DEF CtTyped, Staged, Looping, Outside, AtRecords
<1>7. ASSUME ~ct_app.crossed PROVE AtStage(c)' /\ Counted(c)'
  <2>1. AtStage(c) /\ Counted(c)
    BY <1>3, <1>7, LiveFacts
  <2>2. EndsResult(ct_wire)
    BY <1>1, <1>3, <2>1 DEF AtStage, EndsResult
  <2>3. ct_wire'.tok.kind # "row" /\ ~ct_wire'.set
    BY <1>1, <1>3, ReadKinds
  <2>4. AtStage(c)'
    BY <1>4, <2>3 DEF AtStage, Staged
  <2>5. ct_app.ends = ct_app.dones
    BY <1>1, <2>1 DEF Counted
  <2>6. Counted(c)'
    BY <1>4, <1>5, <2>2, <2>5 DEF Counted, Staged
  <2>7. QED BY <2>4, <2>6
<1>8. ct_wire.tok.kind # "none"
  BY <1>3
<1>9. QED
  BY <1>1, <1>3, <1>4, <1>5, <1>6, <1>7, <1>8, LiveStep DEF Staged, Live

---------------------------------------------------------------------------
(* ct_fetch.                                                               *)

LEMMA InFetch ==
  ASSUME CtInv, NEW c \in Cmds, Fetching(c)
  PROVE  /\ CtTyped /\ ct_at.cmd = c /\ ct_at.call \in {"fetch", "current"}
         /\ Live(c) /\ ~ct_cmd[c].cancel
         /\ ct_cmd \in [Cmds -> CmdRecords] /\ ct_app \in AppRecords
         /\ ct_wire \in WireRecords /\ ct_at \in AtRecords
BY CtAssumption DEF CtInv, Fetching, Looping, CtTyped

\* A step of ct_fetch that keeps the command at its stage.
LEMMA FetchStep ==
  ASSUME CtInv, NEW c \in Cmds, Fetching(c), CtTyped', Looping',
         \/ UNCHANGED ct_wire /\ ct_app'.foreign = ct_app.foreign
         \/ /\ Read /\ ct_wire.tok.kind # "none"
            /\ ct_app'.foreign => ct_app.foreign \/ ct_wire.owner # c,
         ct_app'.asked = ct_app.asked, ct_app'.unasked = ct_app.unasked,
         ct_app'.ended = ct_app.ended, ct_app'.crossed = ct_app.crossed,
         ct_app'.ends = ct_app.ends, ct_app'.dones = ct_app.dones,
         \A d \in Cmds \ {c} : /\ ct_cmd'[d] = ct_cmd[d]
                               /\ ct_app'.right[d] = ct_app.right[d],
         Live(c)', ct_cmd'[c].state = ct_cmd[c].state,
         ct_cmd'[c].cancel = ct_cmd[c].cancel,
         ct_cmd'[c].results = ct_cmd[c].results,
         ~ct_app.crossed => AtStage(c)'
  PROVE  CtInv'
<1>1. Live(c) /\ ~ct_cmd[c].cancel
  BY InFetch
<1>2. ~ct_app.crossed => Counted(c)'
  BY <1>1, LiveFacts DEF Counted
<1>3. QED BY <1>1, <1>2, LiveStep

LEMMA StoredFetched ==
  ASSUME CtInv, NEW c \in Cmds, FetchStored(c)
  PROVE  CtInv'
<1>1. /\ Fetching(c) /\ UNCHANGED <<ct_wire, ct_app>>
      /\ ct_cmd' = [ct_cmd EXCEPT ![c].fetched = FALSE]
      /\ ct_at' \in {Outside, ct_at}
  BY DEF FetchStored, AfterRow
<1>2. /\ CtTyped /\ ct_at.cmd = c /\ ct_at.call \in {"fetch", "current"}
      /\ Live(c) /\ ~ct_cmd[c].cancel /\ ct_cmd \in [Cmds -> CmdRecords]
  BY <1>1, InFetch
<1>3. /\ ct_cmd' \in [Cmds -> CmdRecords]
      /\ \A d \in Cmds \ {c} : ct_cmd'[d] = ct_cmd[d]
      /\ ct_cmd'[c].cancel = ct_cmd[c].cancel
      /\ ct_cmd'[c].state = ct_cmd[c].state
      /\ ct_cmd'[c].results = ct_cmd[c].results
  BY <1>1, <1>2 DEF CmdRecords
<1>4. CtTyped' /\ Looping' /\ Live(c)'
  <2>1. Live(c)' /\ ct_at' \in AtRecords
    BY <1>1, <1>2, OutsideTyped DEF Live, CtTyped
  <2>2. CtTyped'
    BY <1>1, <1>2, <1>3, <2>1 DEF CtTyped
  <2>3. CASE ct_at' = Outside
    BY <2>1, <2>2, <2>3, CtAssumption DEF Looping, Outside
  <2>4. CASE ct_at' = ct_at
    BY <1>2, <1>3, <2>1, <2>2, <2>4, CtAssumption DEF Looping
  <2>5. QED BY <1>1, <2>1, <2>2, <2>3, <2>4
<1>5. ~ct_app.crossed => AtStage(c)'
  BY <1>1, <1>2, <1>3, LiveFacts DEF AtStage
<1>6. QED BY <1>1, <1>3, <1>4, <1>5, FetchStep

LEMMA RowFetched ==
  ASSUME CtInv, NEW c \in Cmds, FetchRow(c)
  PROVE  CtInv'
<1>1. /\ Fetching(c) /\ Read /\ ct_wire.tok.kind = "row"
      /\ ct_app' = Seen(c) /\ UNCHANGED ct_cmd /\ ct_at' \in {Outside, ct_at}
  BY DEF FetchRow, AfterRow
<1>2. /\ CtTyped /\ ct_at.cmd = c /\ ct_at.call \in {"fetch", "current"}
      /\ Live(c) /\ ~ct_cmd[c].cancel /\ ct_cmd \in [Cmds -> CmdRecords]
      /\ ct_app \in AppRecords /\ ct_wire \in WireRecords
      /\ ct_app.right[c] \in Rights
  BY <1>1, InFetch DEF AppRecords
<1>3. SeenBy(c, ct_app.right[c])
  BY <1>1, <1>2, SeenFields
<1>4. ct_app'.ends = ct_app.ends
  BY <1>1, <1>3 DEF SeenBy, EndsResult
<1>5. Live(c)'
  BY <1>2, <1>3 DEF Live, SeenBy
<1>6. CtTyped' /\ Looping'
  <2>1. ct_at' \in AtRecords
    BY <1>1, <1>2, OutsideTyped DEF CtTyped
  <2>2. CtTyped'
    BY <1>1, <1>2, <1>3, <2>1, ReadKinds DEF CtTyped, SeenBy
  <2>3. CASE ct_at' = Outside
    BY <2>2, <2>3, CtAssumption DEF Looping, Outside
  <2>4. CASE ct_at' = ct_at
    BY <1>1, <1>2, <1>5, <2>2, <2>4, CtAssumption DEF Looping
  <2>5. QED BY <1>1, <2>2, <2>3, <2>4
<1>7. ASSUME ~ct_app.crossed PROVE AtStage(c)'
  <2>1. AtStage(c)
    BY <1>2, <1>7, LiveFacts
  <2>2. ct_cmd[c].results = "RESULTSET_ROWS"
    BY <1>1, <1>2, <2>1 DEF AtStage, CmdRecords, Stages
  <2>3. ct_wire'.tok.kind \in {"row", "done", "inproc"} /\ ct_wire'.set
    BY <1>1, <1>2, ReadKinds
  <2>4. QED BY <1>1, <2>2, <2>3 DEF AtStage
<1>8. QED BY <1>1, <1>3, <1>4, <1>5, <1>6, <1>7, FetchStep DEF SeenBy

LEMMA FetchEnded ==
  ASSUME CtInv, NEW c \in Cmds, FetchEnd(c)
  PROVE  CtInv'
<1>1. /\ Fetching(c) /\ UNCHANGED ct_cmd /\ ct_at' = Outside
      /\ ct_app' = [ct_app EXCEPT !.right[c] = "results"]
      /\ \/ UNCHANGED ct_wire
         \/ ct_wire.tok.kind = "status" /\ Read
  BY DEF FetchEnd
<1>2. /\ CtTyped /\ ct_at.call \in {"fetch", "current"}
      /\ Live(c) /\ ~ct_cmd[c].cancel /\ ct_cmd \in [Cmds -> CmdRecords]
      /\ ct_app \in AppRecords /\ ct_wire \in WireRecords
      /\ ct_cmd[c].results \in Stages
  BY <1>1, InFetch DEF CmdRecords
<1>3. RightGiven(c, "results")
  BY <1>1, <1>2, RightFields DEF Rights
<1>4. Live(c)'
  BY <1>3 DEF Live, RightGiven
<1>5. CtTyped' /\ Looping'
  BY <1>1, <1>2, <1>3, ReadKinds, CtAssumption
     DEF CtTyped, Looping, Outside, AtRecords, RightGiven
<1>6. ASSUME ~ct_app.crossed PROVE AtStage(c)'
  <2>1. AtStage(c)
    BY <1>2, <1>6, LiveFacts
  <2>2. ct_cmd[c].results # "RESULTSET_EMPTY"
    BY <1>2, <2>1 DEF AtStage
  <2>3. CASE UNCHANGED ct_wire
    BY <1>1, <2>1, <2>2, <2>3 DEF AtStage
  <2>4. CASE ct_wire.tok.kind = "status" /\ Read
    <3>1. ct_wire'.tok.kind = "doneproc" /\ ~ct_wire'.set
      BY <1>2, <2>4, ReadKinds
    <3>2. ct_cmd[c].results # "RESULTSET_ROWS"
      BY <2>1, <2>4 DEF AtStage
    <3>3. QED BY <1>1, <2>2, <3>1, <3>2 DEF AtStage
  <2>5. QED BY <1>1, <2>3, <2>4
<1>7. /\ \/ UNCHANGED ct_wire
         \/ Read /\ ct_wire.tok.kind # "none"
      /\ ct_app'.foreign = ct_app.foreign
  BY <1>1, <1>3 DEF RightGiven
<1>8. QED BY <1>1, <1>3, <1>4, <1>5, <1>6, <1>7, FetchStep DEF RightGiven

LEMMA FetchHung ==
  ASSUME CtInv, NEW c \in Cmds, FetchHangs(c)
  PROVE  CtInv'
<1>1. /\ Fetching(c) /\ UNCHANGED <<ct_cmd, ct_wire, ct_app>>
      /\ ct_at' = [call |-> "hung", cmd |-> c, stop |-> TRUE]
  BY DEF FetchHangs
<1>2. /\ CtTyped /\ ct_at.call \in {"fetch", "current"}
      /\ Live(c) /\ ~ct_cmd[c].cancel
  BY <1>1, InFetch
<1>3. CtTyped' /\ Looping' /\ Live(c)'
  BY <1>1, <1>2, CtAssumption DEF CtTyped, Looping, AtRecords, Live
<1>4. ~ct_app.crossed => AtStage(c)'
  BY <1>1, <1>2, LiveFacts DEF AtStage
<1>5. QED BY <1>1, <1>3, <1>4, FetchStep

---------------------------------------------------------------------------
(* Commands that are allocated, built, sent and dropped.                   *)

LEMMA NewCmdTyped == NewCmd \in CmdRecords
BY DEF NewCmd, CmdRecords, States, Stages, Currents

\* A command that is not live stays so, and its fields may change if no cancel
\* is pending then; the connection is untouched.
LEMMA IdleStep ==
  ASSUME CtInv, NEW c \in Cmds, ~Live(c), UNCHANGED <<ct_wire, ct_at>>,
         ct_cmd' \in [Cmds -> CmdRecords], ct_app' \in AppRecords,
         \A d \in Cmds \ {c} : /\ ct_cmd'[d] = ct_cmd[d]
                               /\ ct_app'.right[d] = ct_app.right[d],
         ~Live(c)',
         \/ ~ct_cmd'[c].cancel /\ ct_app'.asked \in {ct_app.asked, ct_app.asked \ {c}}
         \/ ct_cmd'[c].cancel = ct_cmd[c].cancel /\ ct_app'.asked = ct_app.asked,
         ct_app'.foreign = ct_app.foreign, ct_app'.unasked = ct_app.unasked,
         ct_app'.ended = ct_app.ended, ct_app'.crossed = ct_app.crossed,
         ct_app'.ends = ct_app.ends, ct_app'.dones = ct_app.dones
  PROVE  CtInv'
<1>0. /\ CtTyped /\ Joined /\ Looping /\ Sent /\ Cancels /\ Told /\ Alone
      /\ CtReading /\ OverMeansQuiet /\ EachCommandDone /\ "none" \notin Cmds
  BY CtAssumption DEF CtInv
<1>1. ct_wire.owner # c
  BY <1>0 DEF OverMeansQuiet, Live, CtTyped, AppRecords, Rights
<1>2. ct_at.cmd # c
  BY <1>0 DEF Looping
<1>3. CtTyped'
  BY <1>0 DEF CtTyped
<1>4. \A d \in Cmds : Live(d)' <=> Live(d)
  BY DEF Live
<1>5. Joined' /\ Sent'
  BY <1>0, <1>4 DEF Joined, Sent
<1>6. Looping'
  <2>1. ct_at.cmd # "none" => ct_at.cmd \in Cmds \ {c}
    BY <1>0, <1>2 DEF CtTyped, AtRecords
  <2>2. CASE ct_at.cmd = "none"
    <3>1. ct_at.call = "out"
      BY <1>0, <2>2 DEF Looping
    <3>2. QED BY <2>2, <3>1 DEF Looping
  <2>3. CASE ct_at.cmd # "none"
    BY <1>0, <1>4, <2>1, <2>3 DEF Looping
  <2>4. QED BY <2>2, <2>3
<1>7. Cancels'
  BY <1>0, <1>1 DEF Cancels
<1>8. Told'
  BY <1>0 DEF Told, OwnResults, CanceledMeansAsked
<1>9. Alone'
  BY <1>0, <1>1, <1>4 DEF Alone, Joined
<1>10. CtReading'
  BY <1>0, <1>4 DEF CtReading, AtStage, Counted
<1>11. OverMeansQuiet'
  BY <1>0, <1>1 DEF OverMeansQuiet
<1>12. EachCommandDone'
  BY <1>0 DEF EachCommandDone
<1>13. QED
  BY <1>3, <1>5, <1>6, <1>7, <1>8, <1>9, <1>10, <1>11, <1>12 DEF CtInv

LEMMA Allocation ==
  ASSUME CtInv, NEW c \in Cmds,
         \/ ct_cmd_alloc(c) \/ ct_cmd_drop(c)
         \/ ct_command(c, TRUE) \/ ct_command(c, FALSE)
  PROVE  CtInv'
<1>0. ct_cmd \in [Cmds -> CmdRecords] /\ ct_app \in AppRecords
  BY DEF CtInv, CtTyped
<1>1. CASE ct_cmd_alloc(c)
  <2>1. /\ ct_app.right[c] = "dropped" /\ UNCHANGED <<ct_wire, ct_at>>
        /\ ct_cmd' = [ct_cmd EXCEPT ![c] = NewCmd]
        /\ ct_app' = [ct_app EXCEPT !.right[c] = "build"]
    BY <1>1 DEF ct_cmd_alloc
  <2>2. /\ ct_cmd' \in [Cmds -> CmdRecords] /\ ct_cmd'[c] = NewCmd
        /\ \A d \in Cmds \ {c} : ct_cmd'[d] = ct_cmd[d]
    BY <1>0, <2>1, NewCmdTyped
  <2>3. ~ct_cmd'[c].cancel
    BY <2>2 DEF NewCmd
  <2>4. RightGiven(c, "build")
    BY <1>0, <2>1, RightFields DEF Rights
  <2>5. ~Live(c) /\ ~Live(c)'
    BY <2>1, <2>4 DEF Live, RightGiven
  <2>6. QED BY <2>1, <2>2, <2>3, <2>4, <2>5, IdleStep DEF RightGiven
<1>2. CASE ct_cmd_drop(c)
  <2>1. /\ ct_app.right[c] = "build" /\ UNCHANGED <<ct_wire, ct_at>>
        /\ ct_cmd' = [ct_cmd EXCEPT ![c] = NewCmd]
        /\ ct_app' = [ct_app EXCEPT !.right[c] = "dropped", !.asked = @ \ {c}]
    BY <1>2 DEF ct_cmd_drop, Building
  <2>2. /\ ct_cmd' \in [Cmds -> CmdRecords] /\ ct_cmd'[c] = NewCmd
        /\ \A d \in Cmds \ {c} : ct_cmd'[d] = ct_cmd[d]
    BY <1>0, <2>1, NewCmdTyped
  <2>3. ~ct_cmd'[c].cancel
    BY <2>2 DEF NewCmd
  <2>4. /\ ct_app' \in AppRecords /\ ct_app'.right[c] = "dropped"
        /\ \A d \in Cmds \ {c} : ct_app'.right[d] = ct_app.right[d]
        /\ ct_app'.asked = ct_app.asked \ {c}
        /\ ct_app'.foreign = ct_app.foreign /\ ct_app'.unasked = ct_app.unasked
        /\ ct_app'.ended = ct_app.ended /\ ct_app'.crossed = ct_app.crossed
        /\ ct_app'.ends = ct_app.ends /\ ct_app'.dones = ct_app.dones
    BY <1>0, <2>1 DEF AppRecords, Rights
  <2>5. ~Live(c) /\ ~Live(c)'
    BY <2>1, <2>4 DEF Live
  <2>6. QED BY <2>1, <2>2, <2>3, <2>4, <2>5, IdleStep
<1>3. CASE ct_command(c, TRUE) \/ ct_command(c, FALSE)
  <2>1. PICK st \in States : ct_cmd' = [ct_cmd EXCEPT ![c].state = st]
    BY <1>3 DEF ct_command, States
  <2>2. /\ ct_app.right[c] = "build" /\ UNCHANGED <<ct_wire, ct_at, ct_app>>
    BY <1>3 DEF ct_command, Building
  <2>3. /\ ct_cmd' \in [Cmds -> CmdRecords]
        /\ ct_cmd'[c].cancel = ct_cmd[c].cancel
        /\ \A d \in Cmds \ {c} : ct_cmd'[d] = ct_cmd[d]
    BY <1>0, <2>1 DEF CmdRecords
  <2>4. ~Live(c) /\ ~Live(c)'
    BY <2>2 DEF Live
  <2>5. QED BY <1>0, <2>2, <2>3, <2>4, IdleStep
<1>4. QED BY <1>1, <1>2, <1>3

LEMMA CtSending ==
  ASSUME CtInv, NEW c \in Cmds, ct_send(c)
  PROVE  CtInv'
<1>0. /\ CtTyped /\ Joined /\ Looping /\ Sent /\ Cancels /\ Told /\ Alone
      /\ CtReading /\ OverMeansQuiet /\ EachCommandDone /\ "none" \notin Cmds
      /\ ct_cmd \in [Cmds -> CmdRecords] /\ ct_app \in AppRecords
  BY CtAssumption DEF CtInv, CtTyped
<1>1. /\ ct_app.right[c] = "build" /\ ~ct_cmd[c].cancel /\ UNCHANGED ct_at
      /\ ct_at = Outside
      /\ ct_cmd' = [ct_cmd EXCEPT ![c].results = "NONE", ![c].state = "SENT"]
  BY DEF ct_send, Building
<1>2. /\ ct_cmd' \in [Cmds -> CmdRecords]
      /\ \A d \in Cmds \ {c} : ct_cmd'[d] = ct_cmd[d]
      /\ ct_cmd'[c].cancel = ct_cmd[c].cancel
      /\ ct_cmd'[c].state = "SENT" /\ ct_cmd'[c].results = "NONE"
  BY <1>0, <1>1 DEF CmdRecords, States, Stages
<1>3. CASE UNCHANGED <<ct_wire, ct_app>>
  BY <1>0, <1>1, <1>2, <1>3, IdleStep DEF Live
<1>4. CASE ct_wire.owner = "none" /\ Submitted(c)
  <2>1. PICK next \in ProcStarts(CtTokens) :
          ct_wire' = [NoAnswer EXCEPT !.owner = c, !.tok = next,
                                      !.left = CtTokens - 1]
    BY <1>4 DEF Submitted
  <2>2. /\ next \in TokenRecords
        /\ next.kind \in {"done", "inproc", "rowfmt", "status"}
        /\ CtTokens - 1 \in Int
    BY FirstTokens, CtAssumption
  <2>3. ct_wire' = [owner |-> c, tok |-> next, left |-> CtTokens - 1,
                    set |-> FALSE, in_cancel |-> FALSE]
    BY <2>1 DEF NoAnswer
  <2>4. /\ ct_wire' \in WireRecords /\ ct_wire'.owner = c /\ ct_wire'.tok = next
        /\ ~ct_wire'.set /\ ~ct_wire'.in_cancel
    BY <2>2, <2>3 DEF WireRecords
  <2> DEFINE x == \/ ct_app.crossed
                  \/ \E d \in Cmds : ct_app.right[d] \in {"results", "fetch"}
  <2>5. x \in BOOLEAN /\ (x <=> ct_app.crossed \/ \E d \in Cmds : Live(d))
    BY <1>0 DEF AppRecords, Live
  <2>6. ct_app' = [ct_app EXCEPT !.right[c] = "results", !.ends = 0, !.dones = 0,
                     !.ended = FALSE, !.left = @ - 1, !.crossed = x]
    BY <1>4 DEF Submitted
  <2> HIDE DEF x
  <2> DEFINE right == [ct_app.right EXCEPT ![c] = "results"]
  <2>7. /\ right \in [Cmds -> Rights] /\ right[c] = "results"
        /\ \A d \in Cmds \ {c} : right[d] = ct_app.right[d]
    BY <1>0 DEF AppRecords, Rights
  <2>8. ct_app' = [right |-> right, ends |-> 0, dones |-> 0, ended |-> FALSE,
                   asked |-> ct_app.asked, unasked |-> ct_app.unasked,
                   foreign |-> ct_app.foreign, crossed |-> x,
                   left |-> ct_app.left - 1]
    BY <1>0, <2>6 DEF AppRecords
  <2> HIDE DEF right
  <2>9. /\ ct_app.left - 1 \in Int /\ ct_app.unasked \in BOOLEAN
        /\ ct_app.foreign \in BOOLEAN /\ ct_app.asked \in SUBSET Cmds
    BY <1>0 DEF AppRecords
  <2>10. /\ ct_app' \in AppRecords /\ ct_app'.right = right
         /\ ct_app'.ends = 0 /\ ct_app'.dones = 0 /\ ~ct_app'.ended
         /\ ct_app'.asked = ct_app.asked /\ ct_app'.unasked = ct_app.unasked
         /\ ct_app'.foreign = ct_app.foreign /\ ct_app'.crossed = x
    BY <2>5, <2>7, <2>8, <2>9 DEF AppRecords
  <2>11. CtTyped' /\ Joined' /\ Looping'
    BY <1>0, <1>1, <1>2, <2>2, <2>4, <2>10 DEF CtTyped, Joined, Looping, Outside
  <2>12. Sent' /\ Cancels' /\ Told'
    <3>1. Sent'
      BY <1>0, <1>2, <2>7, <2>10 DEF Sent, Live
    <3>2. Cancels'
      BY <1>0, <1>1, <1>2, <2>4, <2>10 DEF Cancels
    <3>3. Told'
      BY <1>0, <2>5, <2>10 DEF Told, OwnResults, CanceledMeansAsked
    <3>4. QED BY <3>1, <3>2, <3>3
  <2>13. Alone'
    BY <1>0, <2>4, <2>5, <2>7, <2>10 DEF Alone, Live
  <2>14. CtReading'
    <3>1. SUFFICES ASSUME ~x, NEW d \in Cmds, Live(d)'
                   PROVE  ~ct_app'.ended /\ AtStage(d)' /\ Counted(d)'
      BY <2>10 DEF CtReading
    <3>2. d = c
      BY <2>5, <2>7, <2>10, <3>1 DEF Live
    <3>3. QED BY <1>2, <2>2, <2>4, <2>10, <3>2 DEF AtStage, Counted
  <2>15. OverMeansQuiet'
    BY <2>4, <2>7, <2>10 DEF OverMeansQuiet
  <2>16. EachCommandDone'
    BY <2>10 DEF EachCommandDone
  <2>17. QED BY <2>11, <2>12, <2>13, <2>14, <2>15, <2>16 DEF CtInv
<1>5. QED BY <1>3, <1>4 DEF ct_send

---------------------------------------------------------------------------
(* The end of an answer, and cancels.                                      *)

LEMMA ResultsEnded ==
  ASSUME CtInv, NEW c \in Cmds, ResultsOver(c)
  PROVE  CtInv'
<1>0. /\ Joined /\ Sent /\ Cancels /\ Told /\ Alone
      /\ CtReading /\ OverMeansQuiet /\ "none" \notin Cmds
  BY CtAssumption DEF CtInv
<1>1. /\ Meets(c, {"none"}) /\ ct_at' = Outside /\ UNCHANGED ct_wire
      /\ ct_cmd' = [ct_cmd EXCEPT ![c].state = "READY"]
      /\ ct_app' = [ct_app EXCEPT !.right[c] = "build", !.ended = TRUE]
  BY DEF ResultsOver
<1>2. /\ ct_wire.tok.kind = "none" /\ Live(c) /\ ~ct_cmd[c].cancel
      /\ ct_cmd[c].results # "CMD_DONE"
      /\ ct_cmd \in [Cmds -> CmdRecords] /\ ct_app \in AppRecords /\ CtTyped
  BY <1>1, InLoop DEF Kinds
<1>3. /\ ct_cmd' \in [Cmds -> CmdRecords]
      /\ \A d \in Cmds \ {c} : ct_cmd'[d] = ct_cmd[d]
      /\ ct_cmd'[c].cancel = ct_cmd[c].cancel
  BY <1>1, <1>2 DEF CmdRecords, States
<1>4. /\ ct_app' \in AppRecords /\ ct_app'.right[c] = "build"
      /\ \A d \in Cmds \ {c} : ct_app'.right[d] = ct_app.right[d]
      /\ ct_app'.asked = ct_app.asked /\ ct_app'.foreign = ct_app.foreign
      /\ ct_app'.unasked = ct_app.unasked /\ ct_app'.crossed = ct_app.crossed
      /\ ct_app'.ends = ct_app.ends /\ ct_app'.dones = ct_app.dones
  BY <1>1, <1>2 DEF AppRecords, Rights
<1>5. ct_wire.owner = "none" /\ ~ct_wire.in_cancel
  BY <1>0, <1>2 DEF Joined
<1>6. CtTyped' /\ Joined' /\ Looping'
  BY <1>0, <1>1, <1>2, <1>3, <1>4 DEF CtTyped, Joined, Looping, Outside, AtRecords
<1>7. Sent' /\ Cancels' /\ Told'
  <2>1. Sent'
    BY <1>0, <1>3, <1>4 DEF Sent, Live
  <2>2. Cancels'
    BY <1>0, <1>1, <1>3, <1>4 DEF Cancels
  <2>3. Told'
    BY <1>0, <1>4 DEF Told, OwnResults, CanceledMeansAsked
  <2>4. QED BY <2>1, <2>2, <2>3
<1>8. Alone'
  BY <1>0, <1>1, <1>4, <1>5 DEF Alone, Live
<1>9. ~ct_app.crossed => ct_app.dones = ct_app.ends /\ \A d \in Cmds : ~Live(d)'
  BY <1>2, <1>4, LiveFacts DEF Counted, Live
<1>10. CtReading' /\ EachCommandDone'
  BY <1>4, <1>9 DEF CtReading, EachCommandDone
<1>11. OverMeansQuiet'
  BY <1>0, <1>1, <1>5 DEF OverMeansQuiet
<1>12. QED BY <1>6, <1>7, <1>8, <1>10, <1>11 DEF CtInv

\* A command whose cancel is reported has no answer left, and no other command
\* of the connection has.
LEMMA ReportedStep ==
  ASSUME CtInv, NEW c \in Cmds, ct_at' = Outside, ct_at.cmd \in {c, "none"},
         ct_wire' = NoAnswer \/ (UNCHANGED ct_wire /\ ~ct_wire.in_cancel),
         ct_wire'.owner # c,
         ct_cmd' = [ct_cmd EXCEPT ![c].cancel = FALSE],
         ct_app' = Canceled(c),
         c \in ct_app.asked \/ ct_app.crossed,
         ct_wire' = NoAnswer /\ ~ct_app.crossed =>
           \A d \in Cmds \ {c} : Live(d) =>
             ct_cmd[d].cancel \/ ct_wire.owner = "none"
  PROVE  CtInv'
<1>0. /\ CtTyped /\ Joined /\ Sent /\ Cancels /\ Told /\ Alone
      /\ CtReading /\ OverMeansQuiet /\ EachCommandDone /\ "none" \notin Cmds
      /\ ct_cmd \in [Cmds -> CmdRecords] /\ ct_app \in AppRecords
  BY CtAssumption DEF CtInv, CtTyped
<1>1. /\ ct_cmd' \in [Cmds -> CmdRecords]
      /\ \A d \in Cmds \ {c} : ct_cmd'[d] = ct_cmd[d]
      /\ ~ct_cmd'[c].cancel
  BY <1>0 DEF CmdRecords
<1> DEFINE u == ct_app.unasked \/ c \notin ct_app.asked
<1>2. u \in BOOLEAN /\ (u => ct_app.crossed)
  BY <1>0 DEF AppRecords, Told, CanceledMeansAsked
<1>3. ct_app' = [ct_app EXCEPT !.right[c] = "build", !.asked = @ \ {c},
                               !.unasked = u]
  BY DEF Canceled
<1> HIDE DEF u
<1>4. /\ ct_app' \in AppRecords /\ ct_app'.right[c] = "build"
      /\ \A d \in Cmds \ {c} : ct_app'.right[d] = ct_app.right[d]
      /\ ct_app'.asked = ct_app.asked \ {c} /\ ct_app'.unasked = u
      /\ ct_app'.foreign = ct_app.foreign /\ ct_app'.crossed = ct_app.crossed
      /\ ct_app'.ends = ct_app.ends /\ ct_app'.dones = ct_app.dones
      /\ ct_app'.ended = ct_app.ended
  <2> DEFINE right == [ct_app.right EXCEPT ![c] = "build"]
  <2>1. /\ right \in [Cmds -> Rights] /\ right[c] = "build"
        /\ \A d \in Cmds \ {c} : right[d] = ct_app.right[d]
    BY <1>0 DEF AppRecords, Rights
  <2>2. ct_app' = [right |-> right, ends |-> ct_app.ends,
                   dones |-> ct_app.dones, ended |-> ct_app.ended,
                   asked |-> ct_app.asked \ {c}, unasked |-> u,
                   foreign |-> ct_app.foreign, crossed |-> ct_app.crossed,
                   left |-> ct_app.left]
    BY <1>0, <1>3 DEF AppRecords
  <2> HIDE DEF right
  <2>3. QED BY <1>0, <1>2, <2>1, <2>2 DEF AppRecords
<1>5. /\ NoAnswer \in WireRecords /\ NoAnswer.owner = "none"
      /\ ~NoAnswer.in_cancel /\ NoAnswer.tok.kind = "none" /\ ~NoAnswer.set
  <2>1. Nothing \in TokenRecords /\ Nothing.kind = "none"
    BY SingleTokens
  <2>2. QED BY <2>1 DEF NoAnswer, WireRecords
<1>6. CtTyped' /\ Joined' /\ Looping'
  BY <1>0, <1>1, <1>4, <1>5, CtAssumption
     DEF CtTyped, Joined, Looping, Outside, AtRecords
<1>7. Sent' /\ Cancels' /\ Told'
  <2>1. Sent'
    <3>1. \A d \in Cmds : Live(d)' => d # c /\ Live(d)
      BY <1>4 DEF Live
    <3>2. QED BY <1>0, <1>1, <3>1 DEF Sent
  <2>2. Cancels'
    BY <1>0, <1>1, <1>4, <1>5 DEF Cancels
  <2>3. Told'
    BY <1>0, <1>2, <1>4 DEF Told, OwnResults, CanceledMeansAsked
  <2>4. QED BY <2>1, <2>2, <2>3
<1>8. \A d \in Cmds : Live(d)' => d # c /\ Live(d)
  BY <1>4 DEF Live
<1>9. Alone'
  BY <1>0, <1>4, <1>5, <1>8 DEF Alone
<1>10. CtReading'
  <2>1. SUFFICES ASSUME ~ct_app.crossed, NEW d \in Cmds, Live(d)'
                 PROVE  ~ct_app.ended
                        /\ (~ct_cmd'[d].cancel => AtStage(d)' /\ Counted(d)')
    BY <1>4 DEF CtReading
  <2>2. Live(d) /\ d # c /\ ct_cmd'[d] = ct_cmd[d]
    BY <1>1, <1>8, <2>1
  <2>3. ~ct_app.ended /\ (~ct_cmd[d].cancel => AtStage(d) /\ Counted(d))
    BY <1>0, <2>1, <2>2 DEF CtReading
  <2>4. ASSUME ~ct_cmd[d].cancel PROVE UNCHANGED ct_wire
    BY <1>0, <2>1, <2>2, <2>4 DEF Joined
  <2>5. ct_at.cmd # d
    BY <1>0, <2>2
  <2>6. ASSUME ~ct_cmd[d].cancel PROVE AtStage(d)' /\ Counted(d)'
    <3>1. AtStage(d) /\ Counted(d) /\ UNCHANGED ct_wire
      BY <2>3, <2>4, <2>6
    <3>2. AtStage(d)'
      BY <2>2, <2>5, <3>1 DEF AtStage
    <3>3. Counted(d)'
      BY <1>4, <2>2, <3>1 DEF Counted
    <3>4. QED BY <3>2, <3>3
  <2>7. QED BY <2>2, <2>3, <2>6
<1>11. OverMeansQuiet'
  <2>1. ASSUME NEW d \in Cmds, d # c, ct_app'.right[d] \in {"build", "dropped"}
        PROVE  ct_wire'.owner # d
    BY <1>0, <1>4, <1>5, <2>1 DEF OverMeansQuiet
  <2>2. QED BY <2>1 DEF OverMeansQuiet
<1>12. EachCommandDone'
  BY <1>0, <1>4 DEF EachCommandDone
<1>13. QED BY <1>6, <1>7, <1>9, <1>10, <1>11, <1>12 DEF CtInv

LEMMA CancelsReported ==
  ASSUME CtInv, NEW c \in Cmds, CanceledCall(c) \/ CanceledReading(c)
  PROVE  CtInv'
<1>0. /\ CtTyped /\ Joined /\ Looping /\ Cancels /\ Alone /\ OverMeansQuiet
      /\ "none" \notin Cmds /\ ct_app \in AppRecords
  BY CtAssumption DEF CtInv, CtTyped
<1>1. CASE CanceledCall(c)
  <2>1. /\ ct_at = Outside /\ ct_at' = Outside /\ ct_cmd[c].cancel
        /\ ct_wire' = Settled
        /\ ct_cmd' = [ct_cmd EXCEPT ![c].cancel = FALSE]
        /\ ct_app' = Canceled(c)
    BY <1>1 DEF CanceledCall, _ct_cancel_cleanup
  <2>2. /\ \/ ct_wire' = NoAnswer /\ ct_wire.in_cancel
           \/ UNCHANGED ct_wire /\ ~ct_wire.in_cancel
        /\ c \in ct_app.asked /\ ct_at.cmd = "none"
    BY <1>0, <2>1 DEF Settled, Cancels, Outside
  <2>3. ct_wire'.owner # c
    BY <1>0, <2>1, <2>2 DEF Cancels, NoAnswer
  <2>4. ASSUME ct_wire' = NoAnswer, ~ct_app.crossed, NEW d \in Cmds \ {c}, Live(d)
        PROVE  ct_cmd[d].cancel \/ ct_wire.owner = "none"
    <3>1. CASE UNCHANGED ct_wire
      BY <2>4, <3>1 DEF NoAnswer
    <3>2. CASE ct_wire.in_cancel
      <4>1. ct_wire.owner \in Cmds /\ ct_cmd[ct_wire.owner].cancel
        BY <1>0, <2>4, <3>2 DEF Joined, Alone
      <4>2. Live(ct_wire.owner)
        BY <1>0, <4>1 DEF OverMeansQuiet, Live, AppRecords, Rights
      <4>3. QED BY <1>0, <2>4, <4>1, <4>2 DEF Alone
    <3>3. QED BY <2>2, <3>1, <3>2
  <2>5. QED BY <2>1, <2>2, <2>3, <2>4, ReportedStep
<1>2. CASE CanceledReading(c)
  <2>1. /\ ct_at.cmd = c /\ ct_wire.in_cancel /\ ct_at' = Outside
        /\ ct_wire' = NoAnswer
        /\ ct_cmd' = [ct_cmd EXCEPT ![c].cancel = FALSE]
        /\ ct_app' = Canceled(c)
    BY <1>2 DEF CanceledReading
  <2>2. Live(c) /\ ~ct_cmd[c].cancel
    BY <1>0, <2>1 DEF Looping
  <2>3. ct_app.crossed
    BY <2>1, <2>2, LiveFacts
  <2>4. ct_wire'.owner # c
    BY <1>0, <2>1 DEF NoAnswer
  <2>5. QED BY <2>1, <2>3, <2>4, ReportedStep
<1>3. QED BY <1>1, <1>2

LEMMA Attention ==
  ASSUME CtInv, NEW S \in SUBSET Cmds, CancelAttn(S)
  PROVE  CtInv'
<1>0. /\ CtTyped /\ Joined /\ Looping /\ Sent /\ Cancels /\ Told /\ Alone
      /\ CtReading /\ OverMeansQuiet /\ EachCommandDone /\ "none" \notin Cmds
      /\ ct_cmd \in [Cmds -> CmdRecords] /\ ct_app \in AppRecords
      /\ ct_wire \in WireRecords
  BY CtAssumption DEF CtInv, CtTyped
<1> DEFINE hit == {c \in S : ct_cmd[c].state = "SENT" /\ ct_cmd[c].results # "NONE"}
           on == ct_wire.owner # "none"
           x == ct_app.crossed \/ Hits(hit)
<1>1. /\ ct_at = Outside /\ UNCHANGED ct_at
      /\ ct_wire' = [ct_wire EXCEPT !.in_cancel = on]
      /\ ct_cmd' = [c \in Cmds |-> IF c \in hit
                      THEN [ct_cmd[c] EXCEPT !.cancel = TRUE] ELSE ct_cmd[c]]
      /\ ct_app' = [ct_app EXCEPT !.asked = @ \cup hit, !.crossed = x]
  BY DEF CancelAttn
<1>2. /\ hit \in SUBSET Cmds /\ on \in BOOLEAN /\ x \in BOOLEAN
      /\ ~x => ~ct_app.crossed /\ ct_wire.owner \in hit \cup {"none"}
      /\ on <=> ct_wire.owner # "none"
      /\ x \/ ~x
  BY <1>0 DEF Hits, AppRecords
<1> HIDE DEF hit, on, x
<1>3. /\ ct_cmd' \in [Cmds -> CmdRecords]
      /\ \A c \in Cmds : /\ ct_cmd'[c].state = ct_cmd[c].state
                         /\ ct_cmd'[c].results = ct_cmd[c].results
                         /\ ct_cmd'[c].cancel = (ct_cmd[c].cancel \/ c \in hit)
  BY <1>0, <1>1 DEF CmdRecords
<1>4. /\ ct_wire' \in WireRecords /\ ct_wire'.owner = ct_wire.owner
      /\ ct_wire'.tok = ct_wire.tok /\ ct_wire'.set = ct_wire.set
      /\ ct_wire'.in_cancel = on
  BY <1>0, <1>1, <1>2 DEF WireRecords
<1>5. /\ ct_app' \in AppRecords /\ ct_app'.right = ct_app.right
      /\ ct_app'.asked = ct_app.asked \cup hit /\ ct_app'.crossed = x
      /\ ct_app'.ends = ct_app.ends /\ ct_app'.dones = ct_app.dones
      /\ ct_app'.ended = ct_app.ended /\ ct_app'.foreign = ct_app.foreign
      /\ ct_app'.unasked = ct_app.unasked
  <2> DEFINE asked == ct_app.asked \cup hit
  <2>1. asked \in SUBSET Cmds
    BY <1>0, <1>2 DEF AppRecords
  <2>2. ct_app' = [ct_app EXCEPT !.asked = asked, !.crossed = x]
    BY <1>1
  <2> HIDE DEF asked
  <2>3. QED BY <1>0, <1>2, <2>1, <2>2 DEF AppRecords, asked
<1>6. CtTyped'
  BY <1>0, <1>1, <1>3, <1>4, <1>5 DEF CtTyped
<1>7. Joined'
  <2>1. CASE ct_wire.owner = "none"
    <3>1. ct_wire = NoAnswer /\ on = FALSE
      BY <1>0, <1>2, <2>1 DEF Joined
    <3>2. ct_wire' = NoAnswer
      BY <1>1, <3>1 DEF NoAnswer
    <3>3. QED BY <1>2, <1>4, <2>1, <3>2 DEF Joined
  <2>2. CASE ct_wire.owner # "none"
    BY <1>0, <1>4, <2>2 DEF Joined, WireRecords
  <2>3. QED BY <2>1, <2>2
<1>8. Looping'
  BY <1>1, CtAssumption DEF Looping, Outside
<1>9. Sent' /\ Cancels' /\ Told'
  <2>1. Sent'
    BY <1>0, <1>3, <1>5 DEF Sent, Live
  <2>2. Cancels'
    <3>1. SUFFICES ASSUME NEW c \in Cmds, ct_cmd'[c].cancel
                   PROVE  /\ c \in ct_app.asked \cup hit
                          /\ ct_wire'.owner = c => ct_wire'.in_cancel
      BY <1>5 DEF Cancels
    <3>2. ct_cmd[c].cancel \/ c \in hit
      BY <1>3, <3>1
    <3>3. c \in ct_app.asked \cup hit
      BY <1>0, <3>2 DEF Cancels
    <3>4. ct_wire'.owner = c => ct_wire'.in_cancel
      BY <1>0, <1>2, <1>4
    <3>5. QED BY <3>3, <3>4
  <2>3. Told'
    BY <1>0, <1>2, <1>5 DEF Told, OwnResults, CanceledMeansAsked
  <2>4. QED BY <2>1, <2>2, <2>3
<1>10. Alone'
  BY <1>0, <1>2, <1>3, <1>4, <1>5 DEF Alone, Live
<1>11. CtReading'
  <2>1. SUFFICES ASSUME ~x, NEW d \in Cmds, Live(d)
                 PROVE  ~ct_app.ended
                        /\ (~ct_cmd'[d].cancel => AtStage(d)' /\ Counted(d)')
    BY <1>5 DEF CtReading, Live
  <2>2. ~ct_app.ended /\ (~ct_cmd[d].cancel => AtStage(d) /\ Counted(d))
    BY <1>0, <1>2, <2>1 DEF CtReading
  <2>3. ASSUME ~ct_cmd'[d].cancel PROVE AtStage(d)' /\ Counted(d)'
    <3>1. AtStage(d) /\ Counted(d)
      BY <1>3, <2>2, <2>3
    <3>2. AtStage(d)'
      BY <1>1, <1>3, <1>4, <3>1 DEF AtStage
    <3>3. Counted(d)'
      BY <1>3, <1>5, <3>1 DEF Counted
    <3>4. QED BY <3>2, <3>3
  <2>4. QED BY <2>2, <2>3
<1>12. OverMeansQuiet'
  BY <1>0, <1>4, <1>5 DEF OverMeansQuiet
<1>13. EachCommandDone'
  BY <1>0, <1>2, <1>5 DEF EachCommandDone
<1>14. QED
  BY <1>6, <1>7, <1>8, <1>9, <1>10, <1>11, <1>12, <1>13 DEF CtInv

LEMMA CancelledAll ==
  ASSUME CtInv, NEW S \in SUBSET Cmds, CancelAll(S)
  PROVE  CtInv'
<1>0. /\ CtTyped /\ Joined /\ Looping /\ Sent /\ Cancels /\ Told /\ Alone
      /\ CtReading /\ OverMeansQuiet /\ EachCommandDone /\ "none" \notin Cmds
      /\ ct_cmd \in [Cmds -> CmdRecords] /\ ct_app \in AppRecords
      /\ ct_wire \in WireRecords
  BY CtAssumption DEF CtInv, CtTyped
<1> DEFINE sent == {c \in S : ct_cmd[c].state = "SENT"}
           x == ct_app.crossed \/ (sent # {} /\ Hits(S))
           right == [c \in Cmds |-> IF c \in S THEN "build" ELSE ct_app.right[c]]
<1>1. /\ ct_at = Outside /\ UNCHANGED ct_at
      /\ ct_wire' = IF sent = {} THEN ct_wire ELSE NoAnswer
      /\ ct_cmd' = [c \in Cmds |->
           IF c \in S THEN [ct_cmd[c] EXCEPT !.state = "IDLE",
                                             !.cancel = @ \/ c \in sent]
                      ELSE ct_cmd[c]]
      /\ ct_app' = [ct_app EXCEPT !.asked = @ \cup sent, !.crossed = x,
                                  !.right = right]
  BY DEF CancelAll
<1>2. /\ sent \in SUBSET S /\ x \in BOOLEAN
      /\ \A c \in S : ct_cmd[c].state = "SENT" => c \in sent
      /\ ~x => ~ct_app.crossed /\ (sent = {} \/ ct_wire.owner \in S \cup {"none"})
      /\ x => ct_app.crossed \/ sent # {}
      /\ ct_app.crossed => x
  BY <1>0 DEF Hits, AppRecords
<1>3. /\ right \in [Cmds -> Rights] /\ \A c \in S : right[c] = "build"
      /\ \A c \in Cmds \ S : right[c] = ct_app.right[c]
  BY <1>0 DEF AppRecords, Rights
<1> HIDE DEF sent, x, right
<1>4. /\ ct_cmd' \in [Cmds -> CmdRecords]
      /\ \A c \in S : ct_cmd'[c].cancel = (ct_cmd[c].cancel \/ c \in sent)
      /\ \A c \in Cmds \ S : ct_cmd'[c] = ct_cmd[c]
  <2>1. ASSUME NEW c \in S
        PROVE  /\ ct_cmd'[c] \in CmdRecords
               /\ ct_cmd'[c].cancel = (ct_cmd[c].cancel \/ c \in sent)
    <3>1. PICK b \in BOOLEAN : b = (ct_cmd[c].cancel \/ c \in sent)
      OBVIOUS
    <3>2. ct_cmd'[c] = [ct_cmd[c] EXCEPT !.state = "IDLE", !.cancel = b]
      BY <1>1, <2>1, <3>1
    <3>3. ct_cmd[c] \in CmdRecords
      BY <1>0
    <3>4. QED BY <3>1, <3>2, <3>3 DEF CmdRecords, States
  <2>2. \A c \in Cmds \ S : ct_cmd'[c] = ct_cmd[c] /\ ct_cmd[c] \in CmdRecords
    BY <1>0, <1>1
  <2>3. ct_cmd' = [c \in Cmds |-> ct_cmd'[c]]
    BY <1>1
  <2>4. QED BY <2>1, <2>2, <2>3
<1>5. /\ ct_app' \in AppRecords /\ ct_app'.right = right
      /\ ct_app'.asked = ct_app.asked \cup sent /\ ct_app'.crossed = x
      /\ ct_app'.ends = ct_app.ends /\ ct_app'.dones = ct_app.dones
      /\ ct_app'.ended = ct_app.ended /\ ct_app'.foreign = ct_app.foreign
      /\ ct_app'.unasked = ct_app.unasked
  <2> DEFINE asked == ct_app.asked \cup sent
  <2>1. asked \in SUBSET Cmds
    BY <1>0, <1>2 DEF AppRecords
  <2>2. ct_app' = [ct_app EXCEPT !.asked = asked, !.crossed = x, !.right = right]
    BY <1>1
  <2> HIDE DEF asked
  <2>3. QED BY <1>0, <1>2, <1>3, <2>1, <2>2 DEF AppRecords, asked
<1>6. /\ NoAnswer \in WireRecords /\ NoAnswer.owner = "none"
      /\ ~NoAnswer.in_cancel /\ NoAnswer.tok.kind = "none"
  <2>1. Nothing \in TokenRecords /\ Nothing.kind = "none"
    BY SingleTokens
  <2>2. QED BY <2>1 DEF NoAnswer, WireRecords
<1>7. CtTyped' /\ Joined' /\ Looping'
  <2>1. CtTyped'
    BY <1>0, <1>1, <1>4, <1>5, <1>6 DEF CtTyped
  <2>2. Joined'
    BY <1>0, <1>1, <1>6 DEF Joined
  <2>3. Looping'
    BY <1>1, CtAssumption DEF Looping, Outside
  <2>4. QED BY <2>1, <2>2, <2>3
<1>8. \A d \in Cmds : Live(d)' => d \notin S /\ Live(d)
  BY <1>3, <1>5 DEF Live
<1>9. Sent' /\ Cancels' /\ Told'
  <2>1. Sent'
    BY <1>0, <1>4, <1>8 DEF Sent
  <2>2. Cancels'
    <3>1. SUFFICES ASSUME NEW c \in Cmds, ct_cmd'[c].cancel
                   PROVE  /\ c \in ct_app.asked \cup sent
                          /\ ct_wire'.owner = c => ct_wire'.in_cancel
      BY <1>5 DEF Cancels
    <3>2. ct_cmd[c].cancel \/ c \in sent
      BY <1>4, <3>1
    <3>3. QED BY <1>0, <1>1, <1>6, <3>2 DEF Cancels
  <2>3. Told'
    BY <1>0, <1>2, <1>5 DEF Told, OwnResults, CanceledMeansAsked
  <2>4. QED BY <2>1, <2>2, <2>3
<1>10. Alone'
  <2>1. SUFFICES ASSUME ~x
                 PROVE  /\ \A c, d \in Cmds : Live(c)' /\ Live(d)' => c = d
                        /\ ct_wire'.in_cancel => ct_cmd'[ct_wire'.owner].cancel
    BY <1>5 DEF Alone
  <2>2. \A c, d \in Cmds : Live(c)' /\ Live(d)' => c = d
    BY <1>0, <1>2, <1>8, <2>1 DEF Alone
  <2>3. ASSUME ct_wire'.in_cancel PROVE ct_cmd'[ct_wire'.owner].cancel
    <3>1. UNCHANGED ct_wire /\ ct_wire.owner \in Cmds
      BY <1>0, <1>1, <1>6, <2>3 DEF Joined
    <3>2. ct_cmd[ct_wire.owner].cancel
      BY <1>0, <1>2, <2>1, <2>3, <3>1 DEF Alone
    <3>3. QED BY <1>4, <3>1, <3>2
  <2>4. QED BY <2>2, <2>3
<1>11. CtReading'
  <2>1. SUFFICES ASSUME ~x, NEW d \in Cmds, Live(d)'
                 PROVE  ~ct_app.ended
                        /\ (~ct_cmd'[d].cancel => AtStage(d)' /\ Counted(d)')
    BY <1>5 DEF CtReading
  <2>2. Live(d) /\ d \notin S /\ ct_cmd'[d] = ct_cmd[d]
    BY <1>4, <1>8, <2>1
  <2>3. ~ct_app.ended /\ (~ct_cmd[d].cancel => AtStage(d) /\ Counted(d))
    BY <1>0, <1>2, <2>1, <2>2 DEF CtReading
  <2>4. UNCHANGED ct_wire
    <3>1. CASE sent = {}
      BY <1>1, <3>1
    <3>2. CASE ct_wire.owner = "none"
      BY <1>0, <1>1, <3>2 DEF Joined
    <3>3. ASSUME ct_wire.owner \in S PROVE FALSE
      <4>1. Live(ct_wire.owner)
        BY <1>0, <3>3 DEF OverMeansQuiet, Live, AppRecords, Rights
      <4>2. QED BY <1>0, <1>2, <2>1, <2>2, <3>3, <4>1 DEF Alone
    <3>4. QED BY <1>2, <2>1, <3>1, <3>2, <3>3
  <2>5. ASSUME ~ct_cmd[d].cancel PROVE AtStage(d)' /\ Counted(d)'
    <3>1. AtStage(d) /\ Counted(d)
      BY <2>3, <2>5
    <3>2. AtStage(d)'
      BY <1>1, <2>2, <2>4, <3>1 DEF AtStage
    <3>3. Counted(d)'
      BY <1>5, <2>2, <3>1 DEF Counted
    <3>4. QED BY <3>2, <3>3
  <2>6. QED BY <2>2, <2>3, <2>5
<1>12. OverMeansQuiet'
  <2>1. SUFFICES ASSUME NEW c \in Cmds, ct_app'.right[c] \in {"build", "dropped"},
                        ct_wire'.owner = c
                 PROVE  FALSE
    BY DEF OverMeansQuiet
  <2>2. sent = {} /\ ct_wire.owner = c
    BY <1>0, <1>1, <1>6, <2>1
  <2>3. CASE c \in S
    <3>1. Live(c)
      BY <1>0, <2>2 DEF OverMeansQuiet, Live, AppRecords, Rights
    <3>2. QED BY <1>0, <1>2, <2>2, <2>3, <3>1 DEF Sent
  <2>4. CASE c \notin S
    BY <1>0, <1>3, <1>5, <2>1, <2>2, <2>4 DEF OverMeansQuiet
  <2>5. QED BY <2>3, <2>4
<1>13. EachCommandDone'
  BY <1>0, <1>2, <1>5 DEF EachCommandDone
<1>14. QED BY <1>7, <1>9, <1>10, <1>11, <1>12, <1>13 DEF CtInv

---------------------------------------------------------------------------
(* The invariant holds, and what follows from it.                          *)

LEMMA CtInvInit == CtInit => CtInv
<1>. SUFFICES ASSUME CtInit PROVE CtInv
  OBVIOUS
<1>1. /\ ct_cmd \in [Cmds -> CmdRecords] /\ \A c \in Cmds : ~ct_cmd[c].cancel
  BY NewCmdTyped DEF CtInit, NewCmd
<1>2. ct_wire = NoAnswer /\ ct_wire \in WireRecords
  BY SingleTokens DEF CtInit, NoAnswer, WireRecords
<1>3. ct_app = [right |-> [c \in Cmds |-> "build"], ends |-> 0, dones |-> 0,
                ended |-> FALSE, asked |-> {}, unasked |-> FALSE,
                foreign |-> FALSE, crossed |-> FALSE, left |-> CtSends]
  BY DEF CtInit
<1>4. [c \in Cmds |-> "build"] \in [Cmds -> Rights] /\ CtSends \in Int
  BY CtAssumption DEF Rights
<1>5. ct_app \in AppRecords
  BY <1>3, <1>4 DEF AppRecords
<1>6. ct_at = Outside
  BY DEF CtInit
<1>7. \A c \in Cmds : ~Live(c)
  BY <1>3 DEF Live
<1>8. CtTyped
  BY <1>1, <1>2, <1>5, <1>6, OutsideTyped DEF CtTyped
<1>9. Joined /\ Looping /\ Sent /\ Cancels
  BY <1>1, <1>2, <1>6, <1>7 DEF Joined, Looping, Sent, Cancels, Outside, NoAnswer
<1>10. Told /\ Alone /\ CtReading /\ OverMeansQuiet /\ EachCommandDone
  BY <1>2, <1>3, <1>7, CtAssumption
     DEF Told, OwnResults, CanceledMeansAsked, Alone, CtReading, NoAnswer,
         OverMeansQuiet, EachCommandDone
<1>11. QED BY <1>8, <1>9, <1>10 DEF CtInv

LEMMA CtInvNext == CtInv /\ [CtNext]_ctvars => CtInv'
<1>. SUFFICES ASSUME CtInv, [CtNext]_ctvars PROVE CtInv'
  OBVIOUS
<1>1. ASSUME NEW c \in Cmds, Starting(c) PROVE CtInv'
  BY <1>1, Allocation, CtSending, ResultsCalled, ResultsAnswered, FetchCalled,
     CancelsReported DEF Starting
<1>2. ASSUME NEW c \in Cmds, Tokens(c) PROVE CtInv'
  BY <1>2, ReadingTokens, RowsAnnounced, NoRowsAnnounced, SetEnded,
     ResultsEnded, CancelsReported, StoredFetched, RowFetched, FetchEnded,
     FetchHung DEF Tokens
<1>3. ASSUME NEW S \in Targets, CancelAttn(S) \/ CancelAll(S) PROVE CtInv'
  <2>1. S \in SUBSET Cmds
    BY DEF Targets, Allocated
  <2>2. QED BY <1>3, <2>1, Attention, CancelledAll
<1>4. CASE UNCHANGED ctvars
  BY <1>4 DEF ctvars, CtInv, CtTyped, Joined, Looping, Sent, Cancels, Told,
     OwnResults, CanceledMeansAsked, Alone, CtReading, OverMeansQuiet,
     EachCommandDone, Live, AtStage, Counted
<1>5. QED BY <1>1, <1>2, <1>3, <1>4 DEF CtNext

LEMMA CtInvHolds == CtSpec => []CtInv
BY CtInvInit, CtInvNext, PTL DEF CtSpec

\* The fields of the commands have their types, and a command whose results
\* may be read is marked as sent, so a cancel of it reaches the server.
THEOREM CtTypeCorrect == CtSpec => []CtTypeOK
<1>1. CtInv => CtTypeOK
  BY DEF CtInv, CtTyped, Sent, Live, CtTypeOK, CmdRecords, States, Stages, Currents
<1>2. QED BY <1>1, CtInvHolds, PTL

\* However many commands share a connection, and whatever they send or cancel:
\* ct_results and ct_fetch read the answer to the command's own request, unless
\* the application crossed them.
THEOREM ResultsAreOwn == CtSpec => []OwnResults
<1>1. CtInv => OwnResults
  BY DEF CtInv, Told
<1>2. QED BY <1>1, CtInvHolds, PTL

\* ct_results returns one CS_CMD_DONE for every result of an answer of any
\* length before CS_END_RESULTS, however much of it was fetched.
THEOREM CommandsAreDone == CtSpec => []EachCommandDone
<1>1. CtInv => EachCommandDone
  BY DEF CtInv
<1>2. QED BY <1>1, CtInvHolds, PTL

\* CS_CANCELED is returned only for a cancel that was asked for.
THEOREM CanceledIsAsked == CtSpec => []CanceledMeansAsked
<1>1. CtInv => CanceledMeansAsked
  BY DEF CtInv, Told
<1>2. QED BY <1>1, CtInvHolds, PTL

\* However many commands a connection has: what one of them is told is about
\* its own request and its own cancel, unless the application crossed them.
THEOREM TellsOfItsOwn == CtSpec => []ToldOfItsOwn
<1>1. OwnResults /\ CanceledMeansAsked => ToldOfItsOwn
  BY DEF ToldOfItsOwn
<1>2. QED BY <1>1, ResultsAreOwn, CanceledIsAsked, PTL

\* A command that is over leaves nothing of its answer on the connection.
THEOREM OverIsQuiet == CtSpec => []OverMeansQuiet
<1>1. CtInv => OverMeansQuiet
  BY DEF CtInv
<1>2. QED BY <1>1, CtInvHolds, PTL
=============================================================================
