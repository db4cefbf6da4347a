------------------------------ MODULE OtlpRelay ------------------------------
(***************************************************************************)
(* OTLP in, OTLP out: the receiver, whose handlers turn cumulative readings *)
(* into deltas under a lock and then send the records one at a time, the   *)
(* bounded channel behind it, and the exporter, which batches what it      *)
(* receives and retries each batch until the collector takes it.           *)
(*                                                                         *)
(* Clients and collector are external.  A client has one counter, exports  *)
(* one request at a time, may give up on it (the handler is then dropped   *)
(* at its await) and may send the same reading again.                      *)
(***************************************************************************)
EXTENDS Integers, Sequences, FiniteSets, SequencesExt

CONSTANTS
  Clients,
  Shape,        \* the kinds of the data points of a client's requests
  Cap,          \* capacity of the channel (1024 in the code)
  MaxBatch,     \* MAX_BATCH (512 in the code)
  Before,       \* what a client had counted before its first request
  MaxExports,   \* bound: requests of each client
  MaxResets     \* bound: restarts of a client, its counter with it

Kinds == {"sum", "plain", "ignored"}

ASSUME RelayAssumption ==
  /\ Shape \in [Clients -> Seq(Kinds)]
  /\ Cap \in Nat \ {0}
  /\ MaxBatch \in Nat \ {0}
  /\ Before \in Nat
  /\ MaxExports \in [Clients -> Nat]
  /\ MaxResets \in Nat

VARIABLES
  rpc,       \* of each client's request: "idle", "posted" or "sending"
  counter,   \* the reading of each client's counter
  total,     \* history: what each counter has counted, restarts or not
  answered,  \* history: the client's latest reading has been answered Ok
  exports,   \* requests of each client so far
  resets,    \* restarts so far
  last,      \* Normalizer::last: the reading last decoded, if any
  origin,    \* history: the total at the first reading decoded
  seen,      \* history: the total at the reading last decoded
  pending,   \* the records a handler has still to send
  lost,      \* history: the records of handlers that ended before sending them
  chan,      \* the channel
  accepted,  \* history: the records that send returned Ok for
  stopping,  \* the receiver serves only the requests in flight
  pc,        \* the exporter: see TypeOK
  buf,       \* its buffer
  batch,     \* the records of the request being exported
  ending,    \* the export is the last one
  up,        \* the collector answers
  delivered  \* history: the records the collector has stored

clientVars == <<counter, total, answered, exports, resets>>
normVars == <<last, origin, seen>>
exporterVars == <<pc, buf, batch, ending>>
vars == <<rpc, clientVars, normVars, pending, lost, chan, accepted, stopping,
          exporterVars, up, delivered>>

(* A record is named by the request and the data point it comes from.      *)
(* What is not a cumulative sum has a value of its own and no delta.       *)
Records ==
  UNION {[client : {c}, n : 1 .. MaxExports[c], point : DOMAIN Shape[c], delta : 0 .. MaxExports[c]]
           : c \in Clients}

TypeOK ==
  /\ rpc \in [Clients -> {"idle", "posted", "sending"}]
  /\ counter \in [Clients -> Nat] /\ total \in [Clients -> Nat]
  /\ answered \in [Clients -> BOOLEAN]
  /\ exports \in [Clients -> Nat] /\ \A c \in Clients : exports[c] <= MaxExports[c]
  /\ resets \in 0 .. MaxResets
  /\ last \in [Clients -> SUBSET Nat] /\ \A c \in Clients : Cardinality(last[c]) <= 1
  /\ origin \in [Clients -> Nat] /\ seen \in [Clients -> Nat]
  /\ pending \in [Clients -> Seq(Records)]
  /\ lost \subseteq Records
  /\ chan \in Seq(Records) /\ Len(chan) <= Cap
  /\ accepted \subseteq Records
  /\ stopping \in BOOLEAN
  /\ pc \in {"connecting", "collecting", "exporting", "done", "aborted"}
  /\ buf \in Seq(Records) /\ Len(buf) < MaxBatch
  /\ batch \in Seq(Records) /\ Len(batch) <= MaxBatch
  /\ (pc = "exporting") = (batch # << >>)
  /\ ending \in BOOLEAN
  /\ up \in BOOLEAN
  /\ delivered \subseteq Records

Init ==
  /\ rpc = [c \in Clients |-> "idle"]
  /\ counter = [c \in Clients |-> Before] /\ total = [c \in Clients |-> 0]
  /\ answered = [c \in Clients |-> FALSE]
  /\ exports = [c \in Clients |-> 0]
  /\ resets = 0
  /\ last = [c \in Clients |-> {}]
  /\ origin = [c \in Clients |-> 0] /\ seen = [c \in Clients |-> 0]
  /\ pending = [c \in Clients |-> << >>]
  /\ lost = {}
  /\ chan = << >>
  /\ accepted = {}
  /\ stopping = FALSE
  /\ pc = "connecting"
  /\ buf = << >> /\ batch = << >>
  /\ ending = FALSE
  /\ up = TRUE
  /\ delivered = {}

-----------------------------------------------------------------------------
(* The clients. *)

Post(c) ==
  /\ ~stopping
  /\ rpc[c] = "idle"
  /\ exports[c] < MaxExports[c]
  /\ exports' = [exports EXCEPT ![c] = @ + 1]
  /\ rpc' = [rpc EXCEPT ![c] = "posted"]
  /\ UNCHANGED <<normVars, pending, lost, chan, accepted, stopping, exporterVars, up, delivered>>

(* The client has counted one more, since its start or since a restart. *)
ExportReading(c) ==
  /\ Post(c)
  /\ total' = [total EXCEPT ![c] = @ + 1]
  /\ answered' = [answered EXCEPT ![c] = FALSE]
  /\ \/ counter' = [counter EXCEPT ![c] = @ + 1] /\ UNCHANGED resets
     \/ /\ resets < MaxResets
        /\ resets' = resets + 1
        /\ counter' = [counter EXCEPT ![c] = 1]

(* The same reading again, after a request that failed. *)
ExportAgain(c) ==
  /\ exports[c] > 0 /\ ~answered[c]
  /\ Post(c)
  /\ UNCHANGED <<counter, total, answered, resets>>

-----------------------------------------------------------------------------
(* The receiver. *)

(* Normalizer::delta for a monotonic series that has a reading. *)
Delta(prev, value) == IF value < prev THEN value ELSE value - prev

(* Faulty variant: the first reading of a series passes as its delta. *)
DecodeFirst(acc, kind, record, value) ==
  LET Out(delta) == Append(acc.out, [record EXCEPT !.delta = delta])
  IN  CASE kind = "ignored" -> acc
        [] kind = "plain" -> [acc EXCEPT !.out = Out(0)]
        [] kind = "sum" /\ acc.last = {} -> [last |-> {value}, out |-> Out(value)]
        [] kind = "sum" /\ acc.last # {} ->
             [last |-> {value}, out |-> Out(Delta(CHOOSE v \in acc.last : TRUE, value))]

(* One data point: a point without a number and a histogram are left out,  *)
(* a gauge or delta sum passes, a cumulative sum becomes its delta, and    *)
(* its first reading is only the baseline.                                 *)
DecodePoint(acc, kind, record, value) ==
  LET Out(delta) == Append(acc.out, [record EXCEPT !.delta = delta])
  IN  CASE kind = "ignored" -> acc
        [] kind = "plain" -> [acc EXCEPT !.out = Out(0)]
        [] kind = "sum" /\ acc.last = {} -> [acc EXCEPT !.last = {value}]
        [] kind = "sum" /\ acc.last # {} ->
             [last |-> {value}, out |-> Out(Delta(CHOOSE v \in acc.last : TRUE, value))]

(* decode, over the points of a request. *)
Decoded(c) ==
  FoldLeftDomain(
    LAMBDA acc, i :
      DecodePoint(acc, Shape[c][i],
                  [client |-> c, n |-> exports[c], point |-> i, delta |-> 0], counter[c]),
    [last |-> last[c], out |-> << >>], Shape[c])

(* The handler decodes its whole request under the lock. *)
Decode(c) ==
  /\ rpc[c] = "posted"
  /\ last' = [last EXCEPT ![c] = Decoded(c).last]
  /\ pending' = [pending EXCEPT ![c] = Decoded(c).out]
  /\ origin' = IF last[c] = {} THEN [origin EXCEPT ![c] = total[c]] ELSE origin
  /\ seen' = [seen EXCEPT ![c] = total[c]]
  /\ rpc' = [rpc EXCEPT ![c] = "sending"]
  /\ UNCHANGED <<clientVars, lost, chan, accepted, stopping, exporterVars, up, delivered>>

(* Faulty variant: a record is put on the channel, full or not. *)
SendUnbounded(c) ==
  /\ rpc[c] = "sending"
  /\ pending[c] # << >>
  /\ pc # "aborted"
  /\ chan' = Append(chan, Head(pending[c]))
  /\ accepted' = accepted \cup {Head(pending[c])}
  /\ pending' = [pending EXCEPT ![c] = Tail(@)]
  /\ UNCHANGED <<rpc, clientVars, normVars, lost, stopping, exporterVars, up, delivered>>

Send(c) ==
  /\ rpc[c] = "sending"
  /\ pending[c] # << >>
  /\ pc # "aborted"
  /\ Len(chan) < Cap
  /\ chan' = Append(chan, Head(pending[c]))
  /\ accepted' = accepted \cup {Head(pending[c])}
  /\ pending' = [pending EXCEPT ![c] = Tail(@)]
  /\ UNCHANGED <<rpc, clientVars, normVars, lost, stopping, exporterVars, up, delivered>>

AnswerOk(c) ==
  /\ rpc[c] = "sending"
  /\ pending[c] = << >>
  /\ answered' = [answered EXCEPT ![c] = TRUE]
  /\ rpc' = [rpc EXCEPT ![c] = "idle"]
  /\ UNCHANGED <<counter, total, exports, resets, normVars, pending, lost, chan, accepted,
                 stopping, exporterVars, up, delivered>>

(* The handler ends without its answer; what it had not sent is gone. *)
Unanswered(c) ==
  /\ rpc' = [rpc EXCEPT ![c] = "idle"]
  /\ lost' = lost \cup Range(pending[c])
  /\ pending' = [pending EXCEPT ![c] = << >>]
  /\ UNCHANGED <<clientVars, normVars, chan, accepted, stopping, exporterVars, up, delivered>>

(* "pipeline closed" *)
AnswerUnavailable(c) == rpc[c] = "sending" /\ pending[c] # << >> /\ pc = "aborted" /\ Unanswered(c)

(* The client's deadline passes, or its connection breaks. *)
GiveUp(c) == rpc[c] # "idle" /\ Unanswered(c)

(* The shutdown signal. *)
Stop ==
  /\ ~stopping
  /\ stopping' = TRUE
  /\ UNCHANGED <<rpc, clientVars, normVars, pending, lost, chan, accepted, exporterVars, up,
                 delivered>>

(* Faulty variant: something else keeps a sender. *)
InputHeldOpen == FALSE

(* Every sender of the channel has been dropped. *)
InputClosed == stopping /\ \A c \in Clients : rpc[c] = "idle"

-----------------------------------------------------------------------------
(* The exporter. *)

Connect ==
  /\ pc = "connecting"
  /\ up
  /\ pc' = "collecting"
  /\ UNCHANGED <<rpc, clientVars, normVars, pending, lost, chan, accepted, stopping, buf,
                 batch, ending, up, delivered>>

(* flush takes the whole buffer. *)
Flush(records) ==
  /\ batch' = records
  /\ buf' = << >>
  /\ pc' = "exporting"

(* Receive a record; a buffer that is full is flushed. *)
Collect ==
  /\ pc = "collecting"
  /\ chan # << >>
  /\ chan' = Tail(chan)
  /\ LET filled == Append(buf, Head(chan))
     IN  IF Len(filled) >= MaxBatch THEN Flush(filled)
         ELSE buf' = filled /\ UNCHANGED <<pc, batch>>
  /\ UNCHANGED <<rpc, clientVars, normVars, pending, lost, accepted, stopping, ending, up, delivered>>

(* The ticker; nothing to flush is nothing to do. *)
FlushTick ==
  /\ pc = "collecting"
  /\ buf # << >>
  /\ Flush(buf)
  /\ UNCHANGED <<rpc, clientVars, normVars, pending, lost, chan, accepted, stopping, ending,
                 up, delivered>>

(* Faulty variant: the loop's end is the node's. *)
InputEndsUnflushed ==
  /\ pc = "collecting"
  /\ InputClosed
  /\ chan = << >>
  /\ ending' = TRUE
  /\ pc' = "done"
  /\ UNCHANGED <<rpc, clientVars, normVars, pending, lost, chan, accepted, stopping, buf,
                 batch, up, delivered>>

(* The input closes: flush for the last time. *)
InputEnds ==
  /\ pc = "collecting"
  /\ InputClosed
  /\ chan = << >>
  /\ ending' = TRUE
  /\ IF buf = << >> THEN pc' = "done" /\ UNCHANGED <<buf, batch>> ELSE Flush(buf)
  /\ UNCHANGED <<rpc, clientVars, normVars, pending, lost, chan, accepted, stopping, up, delivered>>

(* Faulty variant: a batch is given up when its export fails. *)
ExportDropped ==
  /\ pc = "exporting"
  /\ batch' = << >>
  /\ pc' = IF ending THEN "done" ELSE "collecting"
  /\ UNCHANGED <<rpc, clientVars, normVars, pending, lost, chan, accepted, stopping, buf,
                 ending, up, delivered>>

ExportOk ==
  /\ pc = "exporting"
  /\ up
  /\ delivered' = delivered \cup Range(batch)
  /\ batch' = << >>
  /\ pc' = IF ending THEN "done" ELSE "collecting"
  /\ UNCHANGED <<rpc, clientVars, normVars, pending, lost, chan, accepted, stopping, buf,
                 ending, up>>

(* Stored, but the answer is an error: the same request is sent again.  An  *)
(* export that fails altogether changes nothing.                           *)
ExportUncertain ==
  /\ pc = "exporting"
  /\ up
  /\ delivered' = delivered \cup Range(batch)
  /\ UNCHANGED <<rpc, clientVars, normVars, pending, lost, chan, accepted, stopping,
                 exporterVars, up>>

(* The pipeline has failed elsewhere, or a second signal came. *)
Abort ==
  /\ pc \notin {"done", "aborted"}
  /\ pc' = "aborted"
  /\ chan' = << >> /\ buf' = << >> /\ batch' = << >>
  /\ UNCHANGED <<rpc, clientVars, normVars, pending, lost, accepted, stopping, ending, up,
                 delivered>>

Outage ==
  /\ up' = ~up
  /\ UNCHANGED <<rpc, clientVars, normVars, pending, lost, chan, accepted, stopping,
                 exporterVars, delivered>>

-----------------------------------------------------------------------------

Client(c) == ExportReading(c) \/ ExportAgain(c) \/ GiveUp(c)

Handler(c) == Decode(c) \/ Send(c) \/ AnswerOk(c) \/ AnswerUnavailable(c)

Exporter == Connect \/ Collect \/ FlushTick \/ InputEnds \/ ExportOk

Next ==
  \/ \E c \in Clients : Client(c) \/ Handler(c)
  \/ Exporter \/ ExportUncertain
  \/ Stop \/ Abort \/ Outage

Spec == Init /\ [][Next]_vars

(* Handlers and exporter run when they can, one handler does not keep      *)
(* another from the channel for ever; nothing is assumed of clients, of    *)
(* the signal, of aborts or of the collector.                              *)
Fairness ==
  /\ WF_vars(Exporter)
  /\ \A c \in Clients : WF_vars(Decode(c) \/ AnswerOk(c) \/ AnswerUnavailable(c)) /\ SF_vars(Send(c))

FairSpec == Spec /\ Fairness

-----------------------------------------------------------------------------
(* Properties. *)

(* What the records of a set have of a client's counter. *)
Counted(c, records) == MapThenSumSet(LAMBDA r : r.delta, {r \in records : r.client = c})

(* Every increment decoded is in one record, sent, being sent, or lost with *)
(* its request, whatever requests were repeated, given up or interleaved;  *)
(* a restart may hide increments and never invents any.                    *)
DeltasConserved ==
  \A c \in Clients :
    LET counted == Counted(c, accepted \cup lost \cup Range(pending[c]))
    IN  /\ counted <= seen[c] - origin[c]
        /\ resets = 0 => counted = seen[c] - origin[c]

(* The exporter is at least once (ADR-0017): what the channel has accepted *)
(* is delivered or still held, up to an abort.                             *)
Egress == INSTANCE AtLeastOnce WITH
  Records <- Records,
  Undecodable <- {},
  accepted <- accepted,
  queued <- Range(chan) \cup Range(buf) \cup Range(batch),
  handled <- delivered

ExportsAtLeastOnce ==
  Egress!Init /\ [][Egress!Next \/ pc' = "aborted"]_Egress!vars

(* An exporter that ends by itself has delivered all it was sent. *)
DoneMeansDelivered == pc = "done" => accepted \subseteq delivered

(* With the collector answering in the end, a stop ends the exporter,      *)
(* through the requests that were in flight and whatever they wait for.    *)
StopEndsExporter == <>[]up => (stopping ~> pc \in {"done", "aborted"})

(* While a sink retries the pipeline stalls "rather than dropping" ("no     *)
(* silent loss", ADR-0017): a client whose latest reading was answered Ok  *)
(* has all it counted in the pipeline.  It has not, when it gave up on a   *)
(* request whose readings had become the baseline already.                 *)
NoSilentLoss ==
  resets = 0 /\ pc # "aborted" =>
    \A c \in Clients : answered[c] => Counted(c, accepted) = seen[c] - origin[c]

=============================================================================
