------------------------------- MODULE Startup -------------------------------
(***************************************************************************)
(* A pipeline from its file to its first record: validate and the wiring,  *)
(* with the expressions of map and join parsed as the program parses them, *)
(* then its stateless nodes: the turn of a map or filter node's loop for   *)
(* one record, and the wasm nodes, which run builds an engine for only if  *)
(* the pipeline has one.                                                   *)
(***************************************************************************)
EXTENDS Validate, Expr, Wasm

VARIABLES
  node,     \* the map or filter node whose turn it is
  rec,      \* the record: what each of its attributes is
  onMissing, onInvalid,  \* the node's policies
  outcome   \* what became of the record

nodeVars == <<node, rec, onMissing, onInvalid, outcome>>

Policies == {"skip", "error"}

Parsing(text) == Parse(text).ok

ASSUME ParsesAssumption ==
  \A pl \in Pipelines : \A i \in DOMAIN pl.transforms :
    pl.transforms[i].value # None => Parses(pl.transforms[i].value) = Parsing(pl.transforms[i].value)

StartupInit ==
  /\ Init
  /\ WasmInit
  /\ node = None
  /\ rec = [f \in Fields |-> "number"]
  /\ onMissing = "skip" /\ onInvalid = "skip"
  /\ outcome = "none"

Validating == Next /\ UNCHANGED <<nodeVars, wasmVars>>

(* Sending fails when the node downstream has ended; the loop then ends too. *)
Sent == outcome' \in {"sent", "closed"}

ByPolicy(policy) == outcome' = IF policy = "skip" THEN "dropped" ELSE "failed"

(* map::run, for a record of any shape; the result of arithmetic on numbers may not be finite. *)
MapRecord ==
  /\ Wired /\ outcome = "none"
  /\ rec' \in [Fields -> {"number", "missing", "text"}]
  /\ onMissing' \in Policies /\ onInvalid' \in Policies
  /\ \E t \in Transforms, finite \in BOOLEAN :
       /\ t.kind = "map" /\ node' = t
       /\ LET fault == Eval(Parse(t.value).tree, rec') IN
          CASE fault = NoFault /\ finite -> Sent
            [] fault = NoFault /\ ~finite -> ByPolicy(onInvalid')
            [] fault = "missing" -> ByPolicy(onMissing')
            [] fault = "invalid" -> ByPolicy(onInvalid')
  /\ UNCHANGED <<vars, wasmVars>>

(* filter::run: a record is kept if it has the key, and the value asked for if one is. *)
FilterRecord ==
  /\ Wired /\ outcome = "none"
  /\ rec' \in [Fields -> {"number", "missing", "text"}]
  /\ \E t \in Transforms, key \in Fields, equal \in BOOLEAN :
       /\ t.kind = "filter" /\ node' = t
       /\ IF rec'[key] # "missing" /\ equal THEN Sent ELSE outcome' = "dropped"
  /\ UNCHANGED <<vars, wasmVars, onMissing, onInvalid>>

(* build_wasm_engine, and the wasm nodes on it. *)
WasmStep ==
  /\ Wired
  /\ WasmNodes = {t.id : t \in {t \in Transforms : t.kind = "wasm"}}
  /\ WasmNext
  /\ UNCHANGED <<vars, nodeVars>>

StartupNext == Validating \/ MapRecord \/ FilterRecord \/ WasmStep

StartupSpec == StartupInit /\ [][StartupNext]_<<vars, nodeVars, wasmVars>> /\ WasmFairness

-----------------------------------------------------------------------------
Maps == {t \in Transforms : t.kind = "map"}

(* The parser by binding powers reads an expression exactly when its       *)
(* documented grammar does, within MAX_TOKENS and MAX_DEPTH, and as the    *)
(* one tree the grammar gives it.                                          *)
ParsesTheGrammar ==
  /\ phase = "edges" => \A t \in Maps : /\ Parse(t.value).ok
                                       /\ Meanings(t.value) = {Parse(t.value).tree}
  /\ verdict = "BadExpression" => \E t \in Transforms : t.value # None /\ Meanings(t.value) = {}

(* A record of which an operand cannot be read as a number is never sent;  *)
(* the operand that comes first in the text decides whether on_missing or  *)
(* on_invalid says what becomes of it.                                     *)
FirstOperandDecides ==
  outcome # "none" /\ node.kind = "map" =>
    LET text == node.value
        faulty == {i \in DOMAIN text : text[i] \in Fields /\ rec[text[i]] # "number"}
        first == CHOOSE i \in faulty : \A j \in faulty : i <= j
        policy == IF rec[text[first]] = "missing" THEN onMissing ELSE onInvalid
    IN  faulty # {} => outcome = IF policy = "skip" THEN "dropped" ELSE "failed"

=============================================================================
