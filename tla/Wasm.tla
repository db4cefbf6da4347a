--------------------------------- MODULE Wasm ---------------------------------
(***************************************************************************)
(* The wasm nodes of a pipeline: the engine they share and its ticker, the *)
(* load of a module through the cache of the machine, and the loop that    *)
(* runs each record through an instance within a budget of ticks.          *)
(*                                                                         *)
(* External: the registry, whose pull answers the pinned bytes or fails;   *)
(* the file system, where a write first empties the file; wasmtime, which  *)
(* interrupts a guest at its deadline; and the guest, whose every call may *)
(* return, trap or never end.                                              *)
(***************************************************************************)
EXTENDS Naturals

CONSTANTS
  WasmNodes,   \* the wasm nodes, all of one oci:// module
  OnError,     \* the policy of each node
  Budget,      \* timeout, in ticks
  MaxCalls,    \* bound: records of a node in one run of the program
  MaxStarts    \* bound: starts of the program

ASSUME WasmAssumption ==
  /\ OnError \in [WasmNodes -> {"skip", "error"}]
  /\ Budget \in Nat \ {0}
  /\ MaxCalls \in Nat /\ MaxStarts \in Nat
  /\ "run" \notin WasmNodes  \* the holder of the engine that is no node has a name of its own

VARIABLES
  wpc,      \* where each node is
  bytes,    \* what it loaded
  cache,    \* the file of the module
  allowed,  \* whether its registry is on the allowlist of this start
  handles,  \* the holders of the engine: the run, and each node
  ticker,   \* the thread that advances the epoch
  left,     \* ticks until the deadline of each node's store
  ran,      \* history: ticks since the node began what it is doing
  calls,    \* records of each node in this run
  begun     \* starts of the program

wasmVars == <<wpc, bytes, cache, allowed, handles, ticker, left, ran, calls, begun>>

(* Code of the module runs: no await, the task cannot be cancelled here. *)
Guest == {"instantiating", "calling", "freeing_input", "freeing_output"}

Awaiting == {"loading", "fetching", "compiling", "receiving", "sending"}

Ended == {"ended", "failed"}

WasmTypeOK ==
  /\ wpc \in [WasmNodes -> Guest \cup Awaiting \cup Ended
                             \cup {"off", "emptying", "writing", "decoding"}]
  /\ bytes \in [WasmNodes -> {"none", "partial", "whole"}]
  /\ cache \in {"none", "partial", "whole"}
  /\ allowed \in BOOLEAN
  /\ handles \subseteq WasmNodes \cup {"run"}
  /\ ticker \in {"none", "running", "stopped"}
  /\ left \in [WasmNodes -> 0 .. Budget]
  /\ ran \in [WasmNodes -> 0 .. Budget]
  /\ calls \in [WasmNodes -> 0 .. MaxCalls]
  /\ begun \in 0 .. MaxStarts

WasmInit ==
  /\ wpc = [n \in WasmNodes |-> "off"]
  /\ bytes = [n \in WasmNodes |-> "none"]
  /\ cache = "none"
  /\ allowed = FALSE
  /\ handles = {}
  /\ ticker = "none"
  /\ left = [n \in WasmNodes |-> 0]
  /\ ran = [n \in WasmNodes |-> 0]
  /\ calls = [n \in WasmNodes |-> 0]
  /\ begun = 0

Goto(n, state) == wpc' = [wpc EXCEPT ![n] = state]

(* A node ends: its handle on the engine goes with it. *)
Leave(n, state) == Goto(n, state) /\ handles' = handles \ {n}

(* set_epoch_deadline *)
Arm(n) == left' = [left EXCEPT ![n] = Budget] /\ ran' = [ran EXCEPT ![n] = 0]

-----------------------------------------------------------------------------
(* build_wasm_engine and the spawn of the nodes, each with a clone of it. *)
Boot ==
  /\ begun < MaxStarts /\ ticker = "none"
  /\ begun' = begun + 1
  /\ allowed' \in BOOLEAN
  /\ ticker' = "running"
  /\ handles' = WasmNodes \cup {"run"}
  /\ wpc' = [n \in WasmNodes |-> "loading"]
  /\ UNCHANGED <<bytes, cache, left, ran, calls>>

(* Faulty variant: the ticker belongs to the run alone. *)
RunReturnsTakingTicker ==
  /\ "run" \in handles
  /\ handles' = handles \ {"run"}
  /\ ticker' = "stopped"
  /\ UNCHANGED <<wpc, bytes, cache, left, ran, calls, begun, allowed>>

(* run returns: a node failed, all have ended, or a second signal came.  The tasks are aborted. *)
RunReturns ==
  /\ "run" \in handles
  /\ handles' = handles \ {"run"}
  /\ UNCHANGED <<wpc, bytes, cache, allowed, ticker, left, ran, calls, begun>>

(* An aborted task is dropped at its next await. *)
Aborted(n) ==
  /\ "run" \notin handles
  /\ wpc[n] \in Awaiting
  /\ Leave(n, "ended")
  /\ UNCHANGED <<bytes, cache, allowed, ticker, left, ran, calls, begun>>

(* The process dies, or has ended; the cache stays, a write under way does not finish. *)
Exit ==
  /\ ticker # "none"
  /\ wpc' = [n \in WasmNodes |-> "off"]
  /\ bytes' = [n \in WasmNodes |-> "none"]
  /\ allowed' = FALSE
  /\ handles' = {}
  /\ ticker' = "none"
  /\ left' = [n \in WasmNodes |-> 0]
  /\ ran' = [n \in WasmNodes |-> 0]
  /\ calls' = [n \in WasmNodes |-> 0]
  /\ UNCHANGED <<cache, begun>>

(* Faulty variant: nothing sets the stop flag. *)
TickUnstopped ==
  /\ ticker = "running"
  /\ left' = [n \in WasmNodes |-> IF wpc[n] \in Guest /\ left[n] > 0 THEN left[n] - 1 ELSE left[n]]
  /\ ran' = [n \in WasmNodes |-> IF wpc[n] \in Guest /\ ran[n] < Budget THEN ran[n] + 1 ELSE ran[n]]
  /\ UNCHANGED <<wpc, bytes, cache, handles, allowed, ticker, calls, begun>>

(* The ticker's next turn: it advances the epoch, then sees whether the engine is still held. *)
Tick ==
  /\ ticker = "running"
  /\ left' = [n \in WasmNodes |-> IF wpc[n] \in Guest /\ left[n] > 0 THEN left[n] - 1 ELSE left[n]]
  /\ ran' = [n \in WasmNodes |-> IF wpc[n] \in Guest /\ ran[n] < Budget THEN ran[n] + 1 ELSE ran[n]]
  /\ ticker' = IF handles = {} THEN "stopped" ELSE "running"
  /\ UNCHANGED <<wpc, bytes, cache, handles, calls, begun, allowed>>

-----------------------------------------------------------------------------
(* Loading: pull_oci, then compile.  load_module of a file has no more to  *)
(* it than to answer the file or fail.                                     *)

(* The allowlist, then cache_load: whatever the file holds is taken. *)
Load(n) ==
  /\ wpc[n] = "loading"
  /\ \/ ~allowed /\ Leave(n, "failed") /\ UNCHANGED bytes
     \/ allowed /\ cache = "none" /\ Goto(n, "fetching") /\ UNCHANGED <<bytes, handles>>
     \/ /\ allowed /\ cache # "none"
        /\ bytes' = [bytes EXCEPT ![n] = cache]
        /\ Goto(n, "compiling")
        /\ UNCHANGED handles
  /\ UNCHANGED <<cache, allowed, ticker, left, ran, calls, begun>>

(* fetch_oci: the client verifies the digest. *)
Fetch(n) ==
  /\ wpc[n] = "fetching"
  /\ \/ bytes' = [bytes EXCEPT ![n] = "whole"] /\ Goto(n, "emptying") /\ UNCHANGED handles
     \/ Leave(n, "failed") /\ UNCHANGED bytes
  /\ UNCHANGED <<cache, allowed, ticker, left, ran, calls, begun>>

(* cache_store: the file is created or emptied, or cannot be; errors are ignored. *)
EmptyFile(n) ==
  /\ wpc[n] = "emptying"
  /\ \/ cache' = "partial" /\ Goto(n, "writing")
     \/ Goto(n, "compiling") /\ UNCHANGED cache
  /\ UNCHANGED <<bytes, handles, allowed, ticker, left, ran, calls, begun>>

WriteFile(n) ==
  /\ wpc[n] = "writing"
  /\ cache' \in {"whole", cache}
  /\ Goto(n, "compiling")
  /\ UNCHANGED <<bytes, handles, allowed, ticker, left, ran, calls, begun>>

(* verify_sha256 and WasmHost::new: a part of a module is refused, the whole may be. *)
Compile(n) ==
  /\ wpc[n] = "compiling"
  /\ \/ bytes[n] = "whole" /\ Goto(n, "instantiating") /\ Arm(n) /\ UNCHANGED handles
     \/ Leave(n, "failed") /\ UNCHANGED <<left, ran>>
  /\ UNCHANGED <<bytes, cache, allowed, ticker, calls, begun>>

(* WasmHost::instantiate: initializers, exports, the version of the ABI. *)
Instantiated(n) ==
  /\ wpc[n] = "instantiating"
  /\ \/ Goto(n, "receiving") /\ UNCHANGED handles
     \/ Leave(n, "failed")
  /\ UNCHANGED <<bytes, cache, allowed, ticker, left, ran, calls, begun>>

-----------------------------------------------------------------------------
(* Faulty variant: the deadline of the instance is left as it is. *)
ReceiveUnarmed(n) ==
  /\ wpc[n] = "receiving"
  /\ \/ /\ calls[n] < MaxCalls
        /\ calls' = [calls EXCEPT ![n] = @ + 1]
        /\ Goto(n, "calling")
        /\ ran' = [ran EXCEPT ![n] = 0]
        /\ UNCHANGED handles
     \/ Leave(n, "ended") /\ UNCHANGED <<ran, calls>>
  /\ UNCHANGED <<bytes, cache, allowed, ticker, left, begun>>

(* A record, or the end of the input.  A record has a budget of its own. *)
Receive(n) ==
  /\ wpc[n] = "receiving"
  /\ \/ /\ calls[n] < MaxCalls
        /\ calls' = [calls EXCEPT ![n] = @ + 1]
        /\ Goto(n, "calling")
        /\ Arm(n)
        /\ UNCHANGED handles
     \/ Leave(n, "ended") /\ UNCHANGED <<left, ran, calls>>
  /\ UNCHANGED <<bytes, cache, allowed, ticker, begun>>

(* transform answers an error: the node fails, or drops the record and starts a fresh instance. *)
Refuse(n) ==
  /\ IF OnError[n] = "error" THEN Leave(n, "failed") /\ UNCHANGED <<left, ran>>
     ELSE Goto(n, "instantiating") /\ Arm(n) /\ UNCHANGED handles

(* The guest's alloc and transform return. *)
Return(n) ==
  /\ wpc[n] = "calling"
  /\ Goto(n, "freeing_input")
  /\ UNCHANGED <<bytes, cache, handles, allowed, ticker, left, ran, calls, begun>>

(* They trap by themselves. *)
Trap(n) ==
  /\ wpc[n] = "calling"
  /\ Refuse(n)
  /\ UNCHANGED <<bytes, cache, allowed, ticker, calls, begun>>

(* dealloc of the input and of the output: an error is ignored. *)
Free(n) ==
  /\ wpc[n] \in {"freeing_input", "freeing_output"}
  /\ Goto(n, IF wpc[n] = "freeing_input" THEN "decoding" ELSE "sending")
  /\ UNCHANGED <<bytes, cache, handles, allowed, ticker, left, ran, calls, begun>>

(* The deadline passes in the guest.  In dealloc that, too, is ignored. *)
Interrupt(n) ==
  /\ wpc[n] \in Guest /\ left[n] = 0
  /\ CASE wpc[n] = "instantiating" -> Leave(n, "failed") /\ UNCHANGED <<left, ran>>
       [] wpc[n] = "calling" -> Refuse(n)
       [] OTHER -> /\ Goto(n, IF wpc[n] = "freeing_input" THEN "decoding" ELSE "sending")
                   /\ UNCHANGED <<handles, left, ran>>
  /\ UNCHANGED <<bytes, cache, allowed, ticker, calls, begun>>

(* The output lies in the memory and decodes, or not. *)
Decode(n) ==
  /\ wpc[n] = "decoding"
  /\ \/ Goto(n, "freeing_output") /\ UNCHANGED <<handles, left, ran>>
     \/ Refuse(n)
  /\ UNCHANGED <<bytes, cache, allowed, ticker, calls, begun>>

(* The records go downstream, which may be closed. *)
Send(n) ==
  /\ wpc[n] = "sending"
  /\ \/ Goto(n, "receiving") /\ UNCHANGED handles
     \/ Leave(n, "ended")
  /\ UNCHANGED <<bytes, cache, allowed, ticker, left, ran, calls, begun>>

Host(n) ==
  \/ Load(n) \/ Fetch(n) \/ EmptyFile(n) \/ WriteFile(n) \/ Compile(n)
  \/ Receive(n) \/ Interrupt(n) \/ Decode(n) \/ Send(n) \/ Aborted(n)

WasmNext ==
  \/ Boot \/ RunReturns \/ Exit \/ Tick
  \/ \E n \in WasmNodes : Host(n) \/ Instantiated(n) \/ Return(n) \/ Trap(n) \/ Free(n)

(* The ticker's thread runs, file operations and the host's own code end,  *)
(* aborted tasks are dropped.  The guest, the registry and the input owe   *)
(* nothing.                                                                *)
WasmFairness ==
  /\ WF_wasmVars(Tick)
  /\ \A n \in WasmNodes :
       /\ WF_wasmVars(Interrupt(n)) /\ WF_wasmVars(Decode(n)) /\ WF_wasmVars(Aborted(n))
       /\ WF_wasmVars(EmptyFile(n)) /\ WF_wasmVars(WriteFile(n))

-----------------------------------------------------------------------------
(* A record is cut off for the time it took itself, never for the time of  *)
(* the records or the initializers before it.                              *)
CutOffForItsOwn ==
  [][\A n \in WasmNodes : wpc[n] = "calling" /\ Interrupt(n) => ran[n] >= Budget]_wasmVars

(* No guest runs on for ever, although none has to return: not while the   *)
(* run is under way, nor in a task that the end of the run has aborted.    *)
GuestsAreStopped == \A n \in WasmNodes : wpc[n] \in Guest ~> wpc[n] \notin Guest

(* Once the run has returned, every wasm task ends, whatever its guest was *)
(* doing, and with the last of them the ticker's thread.                   *)
TickerStops == "run" \notin handles ~> ticker # "running"

(* "best effort: a failure just means the next node refetches": what a     *)
(* node takes from the cache is the module.                                *)
CacheServesModules == \A n \in WasmNodes : bytes[n] # "partial"

=============================================================================
