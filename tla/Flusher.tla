------------------------------- MODULE Flusher -------------------------------
(***************************************************************************)
(* packages/bare-probe/core/flush.ts: rows are staged and shipped in       *)
(* batches by a timer, by the cap on the staging buffer, by hand or by     *)
(* stop().  The handler a batch is shipped to belongs to the caller and    *)
(* may throw, having taken any prefix of the batch.  The n-th row is the   *)
(* number n.  MaxBatch = MaxRows + 1 stands for the default, Infinity.     *)
(***************************************************************************)
EXTENDS Naturals, Sequences

CONSTANTS MaxBatch,     \* the cap on staged rows
          MaxRows       \* bound: rows explored

ASSUME MaxBatchAssumption == MaxBatch \in Nat \ {0}
ASSUME MaxRowsAssumption == MaxRows \in Nat

VARIABLES batch,                \* rows staged and unsent
          running,              \* the interval timer is set
          flushCount,           \* batches handed to the handler
          droppedBatches,       \* batches the handler threw on
          droppedRows,          \* rows of those batches
          added,                \* history: rows staged so far
          handed,               \* history: rows handed to the handler
          delivered             \* history: rows the handler took

stats == <<flushCount, droppedBatches, droppedRows>>
vars == <<batch, running, stats, added, handed, delivered>>

Rows == 1 .. MaxRows

TypeOK == /\ batch \in Seq(Rows)
          /\ running \in BOOLEAN
          /\ flushCount \in Nat /\ droppedBatches \in 0 .. flushCount
          /\ droppedRows \in Nat
          /\ added \in 0 .. MaxRows
          /\ handed \in Seq(Rows) /\ delivered \in Seq(Rows)

Init == /\ batch = <<>>
        /\ running = FALSE
        /\ flushCount = 0 /\ droppedBatches = 0 /\ droppedRows = 0
        /\ added = 0
        /\ handed = <<>>
        /\ delivered = <<>>

-----------------------------------------------------------------------------
HandlerTakes(out) == /\ delivered' = delivered \o out
                     /\ UNCHANGED <<droppedBatches, droppedRows>>

HandlerThrows(out) ==
  /\ \E k \in 0 .. Len(out) : delivered' = delivered \o SubSeq(out, 1, k)
  /\ droppedBatches' = droppedBatches + 1
  /\ droppedRows' = droppedRows + Len(out)

(* Fault: a batch the handler threw on is staged again, for a retry. *)
FlushRetrying(out) ==
  /\ flushCount' = flushCount + 1
  /\ handed' = handed \o out
  /\ \/ HandlerTakes(out) /\ batch' = <<>>
     \/ HandlerThrows(out) /\ batch' = out

(* flushNow() on a buffer that holds `out`. *)
Flush(out) == /\ batch' = <<>>
              /\ flushCount' = flushCount + 1
              /\ handed' = handed \o out
              /\ HandlerTakes(out) \/ HandlerThrows(out)

FlushAll == IF batch = <<>> THEN UNCHANGED <<batch, stats, handed, delivered>>
                            ELSE Flush(batch)

Add == /\ added < MaxRows
       /\ added' = added + 1
       /\ LET staged == Append(batch, added + 1) IN
          IF Len(staged) >= MaxBatch
            THEN Flush(staged)
            ELSE batch' = staged /\ UNCHANGED <<stats, handed, delivered>>
       /\ UNCHANGED running

(* A tick of the interval timer, or a call by hand. *)
FlushNow == batch # <<>> /\ Flush(batch) /\ UNCHANGED <<running, added>>

Tick == running /\ FlushNow

Start == /\ ~ running
         /\ running' = TRUE
         /\ UNCHANGED <<batch, stats, added, handed, delivered>>

(* Fault: stop() forgets the rows staged since the last tick. *)
StopAbruptly == /\ running
                /\ running' = FALSE
                /\ UNCHANGED <<batch, stats, added, handed, delivered>>

Stop == /\ running
        /\ running' = FALSE
        /\ FlushAll
        /\ UNCHANGED added

Next == Add \/ FlushNow \/ Start \/ Stop

(* While the timer is set it goes on firing. *)
Fairness == WF_vars(Tick)

Spec == Init /\ [][Next]_vars /\ Fairness

-----------------------------------------------------------------------------
(* Every row is staged or was handed over, once and in the order it was    *)
(* added, whatever the handler did with the batches before it.             *)
EachRowOnceInOrder == handed \o batch = [n \in 1 .. added |-> n]

(* A row that is staged while the timer is set does not stay: the timer,   *)
(* the cap or stop() hands it over.                                        *)
StagedRowsLeave ==
  \A n \in Rows : running /\ n \in {batch[i] : i \in DOMAIN batch}
                  ~> n \notin {batch[i] : i \in DOMAIN batch}
=============================================================================
