-------------------------------- MODULE Product --------------------------------
(* product.c: a producer and a consumer over a FIFO, with the semaphores   *)
(* mutex, avail and full.  The FIFO takes what is written.                 *)
EXTENDS Integers

CONSTANTS
  N,         \* the value avail starts with
  Word,      \* bytes of "hello"
  BufSize,   \* sizeof buf_r
  MaxRounds  \* bound: rounds of the producer

(* N words fit into the consumer's buffer, with a 0 behind them.           *)
ASSUME ProdAssumption ==
  /\ N \in Nat /\ Word \in Nat /\ BufSize \in Nat
  /\ N * Word < BufSize

VARIABLES
  mutex, avail, full,
  bytes,      \* bytes in the FIFO
  taken,      \* bytes of the consumer's last read
  up,         \* time() has reached end_time
  proAt, conAt,   \* "time", "first", "mutex", "fifo", "count", "post", "end"
  rounds

prodVars == <<mutex, avail, full, bytes, taken, up, proAt, conAt, rounds>>

ProdInit ==
  /\ mutex = 1 /\ avail = N /\ full = 0 /\ bytes = 0 /\ taken = 0 /\ up = FALSE
  /\ proAt = "time" /\ conAt = "time" /\ rounds = 0

TimeUp ==
  /\ ~up /\ up' = TRUE
  /\ UNCHANGED <<mutex, avail, full, bytes, taken, proAt, conAt, rounds>>

(* The loops look at the clock before they wait.                           *)
productor_time ==
  /\ proAt = "time" /\ rounds < MaxRounds /\ rounds' = rounds + 1
  /\ proAt' = IF up THEN "end" ELSE "first"
  /\ UNCHANGED <<mutex, avail, full, bytes, taken, up, conAt>>

(* Seeded bug: the producer does not wait for room.                        *)
wait_avail_not ==
  /\ proAt = "first" /\ proAt' = "mutex"
  /\ UNCHANGED <<mutex, avail, full, bytes, taken, up, conAt, rounds>>

wait_avail ==
  /\ proAt = "first" /\ avail > 0 /\ avail' = avail - 1 /\ proAt' = "mutex"
  /\ UNCHANGED <<mutex, full, bytes, taken, up, conAt, rounds>>
productor_mutex ==
  /\ proAt = "mutex" /\ mutex > 0 /\ mutex' = mutex - 1 /\ proAt' = "fifo"
  /\ UNCHANGED <<avail, full, bytes, taken, up, conAt, rounds>>
productor_write ==
  /\ proAt = "fifo" /\ bytes' = bytes + Word /\ proAt' = "count"
  /\ UNCHANGED <<mutex, avail, full, taken, up, conAt, rounds>>
post_full ==
  /\ proAt = "count" /\ full' = full + 1 /\ proAt' = "post"
  /\ UNCHANGED <<mutex, avail, bytes, taken, up, conAt, rounds>>
productor_post ==
  /\ proAt = "post" /\ mutex' = mutex + 1 /\ proAt' = "time"
  /\ UNCHANGED <<avail, full, bytes, taken, up, conAt, rounds>>

consumer_time ==
  /\ conAt = "time" /\ conAt' = IF up THEN "end" ELSE "first"
  /\ UNCHANGED <<mutex, avail, full, bytes, taken, up, proAt, rounds>>
wait_full ==
  /\ conAt = "first" /\ full > 0 /\ full' = full - 1 /\ conAt' = "mutex"
  /\ UNCHANGED <<mutex, avail, bytes, taken, up, proAt, rounds>>
consumer_mutex ==
  /\ conAt = "mutex" /\ mutex > 0 /\ mutex' = mutex - 1 /\ conAt' = "fifo"
  /\ UNCHANGED <<avail, full, bytes, taken, up, proAt, rounds>>
(* All that is there, up to the size of the buffer: of several words the   *)
(* later rounds find nothing.                                              *)
consumer_read ==
  /\ conAt = "fifo" /\ conAt' = "count"
  /\ taken' = IF bytes < BufSize THEN bytes ELSE BufSize
  /\ bytes' = bytes - taken'
  /\ UNCHANGED <<mutex, avail, full, up, proAt, rounds>>
post_avail ==
  /\ conAt = "count" /\ avail' = avail + 1 /\ conAt' = "post"
  /\ UNCHANGED <<mutex, full, bytes, taken, up, proAt, rounds>>
consumer_post ==
  /\ conAt = "post" /\ mutex' = mutex + 1 /\ conAt' = "time"
  /\ UNCHANGED <<avail, full, bytes, taken, up, proAt, rounds>>

ProdNext ==
  \/ TimeUp
  \/ productor_time \/ wait_avail \/ productor_mutex \/ productor_write \/ post_full \/ productor_post
  \/ consumer_time \/ wait_full \/ consumer_mutex \/ consumer_read \/ post_avail \/ consumer_post

ProdSpec == ProdInit /\ [][ProdNext]_prodVars

(* The consumer's buffer has always room for the 0 that ends what printf   *)
(* prints, though a read may take several words.                           *)
BufferEnds == taken < BufSize
=============================================================================
