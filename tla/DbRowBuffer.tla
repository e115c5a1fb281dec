---------------------------- MODULE DbRowBuffer ----------------------------
(***************************************************************************)
(* The row buffer of a db-lib connection (FreeTDS, src/dblib/buffering.h): *)
(* a ring of rows between tail (the oldest) and head (where the next one   *)
(* goes).  head = 0 and tail = capacity say it is empty; head = tail says  *)
(* it is full, or that it holds the one row of a buffer of capacity 1.     *)
(*                                                                         *)
(* A row is kept by its number.  What it would read is kept too: data is   *)
(* the number of the row whose values it saved, or 0 when it still reads   *)
(* them from the row the connection read last.                             *)
(***************************************************************************)
EXTENDS Integers

NoRow == [row |-> 0, data |-> 0]

\* buffer_set_capacity: indices zero, no storage (rows is NULL)
WithCapacity(n) ==
  [head |-> 0, tail |-> 0, current |-> 0, capacity |-> n, received |-> 0,
   allocated |-> FALSE, rows |-> [i \in 0..(n - 1) |-> NoRow]]

buffer_count(buf) ==
  IF buf.head > buf.tail THEN buf.head - buf.tail
                         ELSE buf.capacity - (buf.tail - buf.head)

buffer_is_full(buf) == buf.capacity = buffer_count(buf) /\ buf.capacity > 1

buffer_idx_increment(buf, idx) ==
  IF idx + 1 >= buf.capacity THEN 0 ELSE idx + 1

\* buffer_free and buffer_alloc, when the format of a new result set is read
Emptied(buf) ==
  [buf EXCEPT !.head = 0, !.tail = buf.capacity, !.current = buf.capacity,
              !.received = 0, !.allocated = TRUE,
              !.rows = [i \in 0..(buf.capacity - 1) |-> NoRow]]

\* the indices a march from tail to head meets
Filled(buf) ==
  IF buf.tail = buf.capacity THEN {}
  ELSE IF buf.tail < buf.head THEN buf.tail .. (buf.head - 1)
  ELSE (buf.tail .. (buf.capacity - 1)) \cup (0 .. (buf.head - 1))

\* buffer_row2idx
RowIndices(buf, row) == {i \in Filled(buf) : buf.rows[i].row = row}

\* Faulty variant: the space is given back and the row kept.
DeletedLazily(buf, count) ==
  LET past == buf.tail + count
  IN  [buf EXCEPT
         !.tail = IF past >= buf.capacity THEN past - buf.capacity ELSE past]

\* buffer_delete_rows, for a count that leaves a row (as dbclrbuf does)
Deleted(buf, count) ==
  LET past == buf.tail + count
  IN  [buf EXCEPT
         !.tail = IF past >= buf.capacity THEN past - buf.capacity ELSE past,
         !.rows = [i \in 0..(buf.capacity - 1) |->
                     IF \/ buf.tail <= i /\ i < past
                        \/ i + buf.capacity < past
                     THEN NoRow ELSE buf.rows[i]]]

\* Faulty variant: the index of the last row does not wrap.
SavedUnwrapped(buf, current_row) ==
  IF buf.capacity <= 1 \/ buf.head = 0 THEN buf
  ELSE [buf EXCEPT !.rows[buf.head - 1].data =
          IF buf.rows[buf.head - 1].row # 0 /\ @ = 0 THEN current_row ELSE @]

\* buffer_save_row: the row read last is about to be overwritten
Saved(buf, current_row) ==
  LET idx == IF buf.head = 0 THEN buf.capacity - 1 ELSE buf.head - 1
  IN  IF buf.capacity <= 1 THEN buf
      ELSE [buf EXCEPT !.rows[idx].data =
              IF buf.rows[idx].row # 0 /\ @ = 0 THEN current_row ELSE @]

\* buffer_add_row, in a buffer that is not full
Added(buf) ==
  [buf EXCEPT !.rows[buf.head] = [row |-> buf.received + 1, data |-> 0],
              !.received = @ + 1,
              !.tail = IF @ = buf.capacity THEN 0 ELSE @,
              !.current = buf.head,
              !.head = buffer_idx_increment(buf, @)]

\* buffer_current_index finds a buffered row
HasCurrent(buf) ==
  buf.capacity > 1 /\ buf.current \notin {buf.head, buf.capacity}

\* what it asserts then
CurrentAsserted(buf) ==
  /\ buf.current < buf.capacity
  /\ IF buf.tail < buf.head
     THEN buf.tail < buf.current /\ buf.current < buf.head
     ELSE buf.current > buf.head => buf.current > buf.tail

\* buffer_transfer_bound_data moves the current row on
Stepped(buf) == [buf EXCEPT !.current = buffer_idx_increment(buf, @)]

\* what row i of the buffer reads
DataOf(buf, i, current_row) ==
  IF buf.rows[i].data = 0 THEN current_row ELSE buf.rows[i].data
=============================================================================
