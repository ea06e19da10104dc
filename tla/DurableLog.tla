----------------------------- MODULE DurableLog -----------------------------
(***************************************************************************)
(* What the observer's spool and uploader promise a producer, without      *)
(* files, batches or crashes: every accepted observation gets a sequence   *)
(* of its own above all earlier ones, and the Collector receives the       *)
(* sequences in order, each once, with the accepted payload.               *)
(*                                                                         *)
(* A sequence may be delivered without having been accepted: the daemon    *)
(* died between writing the frame and answering its producer.              *)
(***************************************************************************)
EXTENDS Naturals

CONSTANTS Payloads, NoPayload, SequenceMax

VARIABLES
  promised,   \* payload by sequence the producer was told is durable
  delivered   \* payload by sequence the Collector holds

Seqs == 1..SequenceMax
Table == [Seqs -> Payloads \cup {NoPayload}]

Init ==
  /\ promised = [s \in Seqs |-> NoPayload]
  /\ delivered = [s \in Seqs |-> NoPayload]

\* No sequence from s on has been promised or delivered.
Unused(s) == \A r \in s..SequenceMax : promised[r] = NoPayload /\ delivered[r] = NoPayload

Accept(s, p) ==
  /\ Unused(s)
  /\ promised' = [promised EXCEPT ![s] = p]
  /\ UNCHANGED delivered

\* The Collector's prefix grows to n; it never changes and never contradicts
\* a promise.
Deliver(n) ==
  /\ delivered' \in Table
  /\ \A s \in Seqs :
       /\ delivered'[s] = NoPayload <=> n < s
       /\ delivered[s] # NoPayload => delivered'[s] = delivered[s]
       /\ promised[s] # NoPayload /\ delivered'[s] # NoPayload
            => delivered'[s] = promised[s]
  /\ UNCHANGED promised

Next ==
  \/ \E s \in Seqs, p \in Payloads : Accept(s, p)
  \/ \E n \in Seqs : Deliver(n)

Spec == Init /\ [][Next]_<<promised, delivered>>
=============================================================================
