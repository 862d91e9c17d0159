------------------------------ MODULE OutboxRelay ------------------------------
(***************************************************************************)
(* pulsar-horizon: the relays (internal/horizon/relay.go) that move the    *)
(* outbox_events rows of one database to a JetStream stream.  Every        *)
(* replica runs one relay per database, and nothing keeps two relays from  *)
(* working on the same rows: FetchBatch takes no lock.                     *)
(*                                                                         *)
(* A row is named by its rank in ORDER BY created_at.  created_at is when  *)
(* the service built the event, so rows may become visible out of          *)
(* that order.  The stream drops a message whose id it stored within its   *)
(* duplicate window.                                                       *)
(***************************************************************************)
EXTENDS Naturals, FiniteSets

CONSTANTS
    Rows,       \* how many rows are ever written
    Relay,      \* the relays of all replicas
    BatchSize,  \* RELAY_BATCH
    MaxLapses,  \* bound: how often the duplicate window passes for one row
    MaxFaults   \* bound: crashes, lost acks and failed statements

ASSUME RelayAssumption ==
    /\ Rows \in Nat
    /\ BatchSize \in Nat \ {0}
    /\ MaxLapses \in Nat
    /\ MaxFaults \in Nat

VARIABLES
    committed,  \* outbox_events
    processed,  \* rows whose processed_at is set
    copies,     \* how many times the stream stored each row
    recent,     \* rows whose id is inside the duplicate window
    lapses,     \* how often the window passed for each row
    pc,         \* where each relay is
    batch,      \* the rows it fetched
    sent,       \* those of them it published
    faults      \* faults so far

stream == <<copies, recent, lapses>>
relay  == <<pc, batch, sent>>
vars   == <<committed, processed, copies, recent, lapses, pc, batch, sent, faults>>

Row == 1..Rows

TypeOK ==
    /\ committed \subseteq Row
    /\ processed \subseteq committed
    /\ copies \in [Row -> Nat]
    /\ recent \subseteq Row
    /\ lapses \in [Row -> 0..MaxLapses]
    /\ pc \in [Relay -> {"idle", "publish", "mark"}]
    /\ batch \in [Relay -> SUBSET committed]
    /\ sent \in [Relay -> SUBSET committed]
    /\ \A w \in Relay : sent[w] \subseteq batch[w]
    /\ faults \in 0..MaxFaults

Init ==
    /\ committed = {}
    /\ processed = {}
    /\ copies = [i \in Row |-> 0]
    /\ recent = {}
    /\ lapses = [i \in Row |-> 0]
    /\ pc = [w \in Relay |-> "idle"]
    /\ batch = [w \in Relay |-> {}]
    /\ sent = [w \in Relay |-> {}]
    /\ faults = 0

-----------------------------------------------------------------------------
(* The surroundings. *)

\* A service commits a state change and its outbox row.
Enqueue(i) ==
    /\ i \notin committed
    /\ committed' = committed \cup {i}
    /\ UNCHANGED <<processed, stream, relay, faults>>

\* DedupWindow (2 minutes) passes.
Lapse(i) ==
    /\ i \in recent
    /\ lapses[i] < MaxLapses
    /\ recent' = recent \ {i}
    /\ lapses' = [lapses EXCEPT ![i] = @ + 1]
    /\ UNCHANGED <<committed, processed, copies, relay, faults>>

-----------------------------------------------------------------------------
(* A sweep. *)

\* The first BatchSize rows of S.
Oldest(S) == {i \in S : Cardinality({j \in S : j < i}) < BatchSize}

\* Slip: the list of published rows outlives its sweep.
FetchKeepingSent(w) ==
    /\ pc[w] = "idle"
    /\ committed \ processed # {}
    /\ batch' = [batch EXCEPT ![w] = Oldest(committed \ processed)]
    /\ pc' = [pc EXCEPT ![w] = "publish"]
    /\ UNCHANGED <<committed, processed, stream, sent, faults>>

\* FetchBatch; an empty batch leaves nothing to do until the next tick.
Fetch(w) ==
    /\ pc[w] = "idle"
    /\ committed \ processed # {}
    /\ batch' = [batch EXCEPT ![w] = Oldest(committed \ processed)]
    /\ sent' = [sent EXCEPT ![w] = {}]
    /\ pc' = [pc EXCEPT ![w] = "publish"]
    /\ UNCHANGED <<committed, processed, stream, faults>>

\* The oldest row of the batch not yet published.
IsNext(w, i) ==
    /\ pc[w] = "publish"
    /\ i \in batch[w] \ sent[w]
    /\ \A j \in batch[w] \ sent[w] : i <= j

\* Slip: the message carries no id to deduplicate on.
StoreAlways(i) ==
    /\ copies[i] <= MaxLapses + 1
    /\ copies' = [copies EXCEPT ![i] = @ + 1]
    /\ recent' = recent \cup {i}
    /\ UNCHANGED lapses

\* JetStream stores the message, or takes it for a duplicate.
Store(i) ==
    /\ copies' = [copies EXCEPT ![i] = IF i \in recent THEN @ ELSE @ + 1]
    /\ recent' = recent \cup {i}
    /\ UNCHANGED lapses

\* The broker confirms; the last row of the batch ends the loop.
Publish(w) == \E i \in Row :
    /\ IsNext(w, i)
    /\ Store(i)
    /\ sent' = [sent EXCEPT ![w] = @ \cup {i}]
    /\ pc' = [pc EXCEPT ![w] = IF sent'[w] = batch[w] THEN "mark" ELSE "publish"]
    /\ UNCHANGED <<committed, processed, batch, faults>>

\* Slip: a failing row is skipped and marked with the others.
PublishFailsQuietly(w) == \E i \in Row :
    /\ IsNext(w, i)
    /\ UNCHANGED stream
    /\ sent' = [sent EXCEPT ![w] = @ \cup {i}]
    /\ pc' = [pc EXCEPT ![w] = IF sent'[w] = batch[w] THEN "mark" ELSE "publish"]
    /\ UNCHANGED <<committed, processed, batch, faults>>

\* Publish returns an error: the batch is cut here, and what was published so
\* far is marked.  The broker may have stored the message all the same.
PublishFails(w) == \E i \in Row :
    /\ IsNext(w, i)
    /\ \/ UNCHANGED <<stream, faults>>
       \/ /\ faults < MaxFaults
          /\ faults' = faults + 1
          /\ Store(i)
    /\ pc' = [pc EXCEPT ![w] = IF sent[w] = {} THEN "idle" ELSE "mark"]
    /\ UNCHANGED <<committed, processed, batch, sent>>

\* Slip: a failing row keeps its whole batch from being marked.
MarkWholeBatchOnly(w) ==
    /\ pc[w] = "mark"
    /\ processed' = IF sent[w] = batch[w] THEN processed \cup sent[w] ELSE processed
    /\ pc' = [pc EXCEPT ![w] = "idle"]
    /\ UNCHANGED <<committed, stream, batch, sent, faults>>

MarkProcessed(w) ==
    /\ pc[w] = "mark"
    /\ processed' = processed \cup sent[w]
    /\ pc' = [pc EXCEPT ![w] = "idle"]
    /\ UNCHANGED <<committed, stream, batch, sent, faults>>

\* The replica dies, or MarkProcessed fails: published rows stay unmarked.
Abandon(w) ==
    /\ faults < MaxFaults
    /\ pc[w] # "idle"
    /\ faults' = faults + 1
    /\ pc' = [pc EXCEPT ![w] = "idle"]
    /\ UNCHANGED <<committed, processed, stream, batch, sent>>

-----------------------------------------------------------------------------
Next ==
    \/ \E i \in Row : Enqueue(i) \/ Lapse(i)
    \/ \E w \in Relay :
          \/ Fetch(w) \/ Publish(w) \/ PublishFails(w)
          \/ MarkProcessed(w) \/ Abandon(w)

Spec == Init /\ [][Next]_vars

\* The ticker starts a sweep again and again and its statements return; the
\* broker does not refuse every message for ever.
FairSpec ==
    /\ Spec
    /\ \A w \in Relay :
          /\ WF_vars(Fetch(w))
          /\ SF_vars(Publish(w))
          /\ WF_vars(MarkProcessed(w))

-----------------------------------------------------------------------------
(* Properties. *)

\* No event is lost: a row is marked processed only once the stream has it,
\* although batches of several relays overlap and are cut short by failures,
\* lost acks and crashes (relay.go sweep).
NothingLost == \A i \in processed : copies[i] > 0

\* A row reaches the stream a second time only after its duplicate window has
\* passed: overlapping batches, and a crash between publish and mark, are
\* absorbed by the stable message id as long as the window lasts.
DedupAbsorbs == \A i \in Row : copies[i] <= lapses[i] + 1

\* Every committed row is relayed and marked in the end, also behind rows whose
\* publication fails for a while (relay.go sweep: what was published before the
\* failure is marked).
Drained == \A i \in Row : i \in committed ~> i \in processed
=============================================================================
