----------------------------- MODULE Playground -----------------------------
(***************************************************************************)
(* `anchorkit playground' (cli/src/repl.rs, args.rs and rpc.rs): a session *)
(* that reads lines, simulates the read-only call each one names on a      *)
(* Soroban RPC endpoint, and prints the value or an error.                 *)
(*                                                                         *)
(* An argument is one of four kinds of text.  The state of the contract is *)
(* a number that grows with every change, and a value is the number of the *)
(* state it was computed from.  since is a history variable: the state of  *)
(* the contract when the line being dispatched was entered.                *)
(***************************************************************************)
EXTENDS Integers, Sequences

CONSTANTS
  Rest,        \* what may follow the first word of a line
  MaxLines,    \* bound: lines entered
  MaxLedger    \* bound: states of the contract

Text == {"account", "contract", "word", "other"}

ASSUME PlaygroundAssumption ==
  Rest \subseteq Seq(Text) /\ MaxLines \in Nat /\ MaxLedger \in Nat

VARIABLES session, lines, ledger, request, since, simulated, shown_value, shown

playgroundVars ==
  <<session, lines, ledger, request, since, simulated, shown_value, shown>>

\* parse_address takes a G... or a C... strkey, parse_symbol up to 32 bytes: a
\* strkey is 56 long.
Parses(type, text) ==
  CASE type = "address" -> text \in {"account", "contract"}
    [] type = "symbol"  -> text = "word"

\* The calls that dispatch knows, with the types of their arguments.
Signature ==
  [get_attestation       |-> <<"address", "symbol">>,
   is_valid              |-> <<"address", "symbol">>,
   is_attestor           |-> <<"address">>,
   get_attestation_count |-> << >>]

\* A line: its first word, "other" for one that means nothing, and the rest; or
\* a blank one.
Line == [command : DOMAIN Signature \cup {"help", "exit", "other"}, rest : Rest]
        \cup {[command |-> "blank", rest |-> << >>]}

\* What dispatch makes of a line before any request is sent.
dispatch(line) ==
  LET types == Signature[line.command]
  IN  IF line.command \notin DOMAIN Signature THEN "Usage"
      ELSE IF Len(line.rest) # Len(types) THEN "Usage"
      ELSE IF \E i \in DOMAIN types : ~Parses(types[i], line.rest[i])
      THEN "InvalidArgument" ELSE "call"

\* The transaction that is simulated: one unsigned invocation of the contract.
build_envelope(line) == [function |-> line.command, args |-> line.rest, signatures |-> {}]

NoEnvelope == [function |-> "none", args |-> << >>, signatures |-> {}]

\* How far the reply to a request gets: no answer in time, a status other than
\* 2xx, no JSON-RPC, an error, no result, a failed simulation, no value, a value
\* that does not decode, or one that does.
Reply == {"unreachable", "status", "not_json", "error", "empty", "sim_error",
          "no_value", "not_xdr", "value"}

call_result(reply) ==
  CASE reply \in {"unreachable", "status", "not_json", "error", "empty"} -> "Rpc"
    [] reply \in {"sim_error", "no_value"} -> "Simulation"
    [] reply = "not_xdr" -> "Xdr"
    [] reply = "value" -> "Ok"

PlaygroundInit ==
  /\ session = "new"
  /\ lines = 0
  /\ ledger = 0
  /\ request = NoEnvelope
  /\ since = 0
  /\ simulated = -1
  /\ shown_value = -1
  /\ shown = "nothing"

\* RpcClient::new: main exits with the error when it fails.
RpcClientNew ==
  /\ session = "new"
  /\ \E contract_id, source_account \in Text, built \in BOOLEAN :
       /\ session' = IF contract_id = "contract" /\ source_account = "account" /\ built
                     THEN "prompt" ELSE "refused"
       /\ shown' = IF contract_id # "contract" \/ source_account # "account"
                     THEN "InvalidArgument"
                     ELSE IF built THEN "nothing" ELSE "Rpc"
  /\ UNCHANGED <<lines, ledger, request, since, simulated, shown_value>>

\* The end of the input, or an error reading it or writing the prompt.
InputEnds ==
  /\ session = "prompt"
  /\ session' = "ended"
  /\ UNCHANGED <<lines, ledger, request, since, simulated, shown_value, shown>>

\* One turn of the loop of run, up to the request.
Enter(line) ==
  /\ session = "prompt"
  /\ lines < MaxLines
  /\ lines' = lines + 1
  /\ IF line.command \in {"blank", "help", "exit"} /\ line.rest = << >>
     THEN /\ session' = IF line.command = "exit" THEN "ended" ELSE "prompt"
          /\ shown' = IF line.command = "help" THEN "help" ELSE shown
          /\ UNCHANGED <<request, since>>
     ELSE IF dispatch(line) = "call"
     THEN /\ session' = "calling"
          /\ request' = build_envelope(line)
          /\ since' = ledger
          /\ UNCHANGED shown
     ELSE shown' = dispatch(line) /\ UNCHANGED <<session, request, since>>
  /\ UNCHANGED <<ledger, simulated, shown_value>>

\* External: the endpoint simulates the request on the state it finds.
Simulate ==
  /\ session = "calling" /\ simulated = -1
  /\ simulated' = ledger
  /\ UNCHANGED <<session, lines, ledger, request, since, shown_value, shown>>

\* Wrong on purpose: the reply of a call that timed out answers the next one.
call_keeps_late_reply(reply) ==
  /\ session = "calling"
  /\ reply # "unreachable" => simulated # -1
  /\ session' = "prompt"
  /\ shown' = call_result(reply)
  /\ shown_value' = IF call_result(reply) = "Ok" THEN simulated ELSE shown_value
  /\ simulated' = IF reply = "unreachable" THEN simulated ELSE -1
  /\ request' = NoEnvelope
  /\ UNCHANGED <<lines, ledger, since>>

\* The reply, or the failure of the request within 20 seconds; the client then
\* gives the connection up, and with it a reply that may be on its way.
call(reply) ==
  /\ session = "calling"
  /\ reply # "unreachable" => simulated # -1
  /\ session' = "prompt"
  /\ shown' = call_result(reply)
  /\ shown_value' = IF call_result(reply) = "Ok" THEN simulated ELSE shown_value
  /\ simulated' = -1
  /\ request' = NoEnvelope
  /\ UNCHANGED <<lines, ledger, since>>

\* External: a transaction changes the contract.
LedgerMoves ==
  /\ ledger < MaxLedger
  /\ ledger' = ledger + 1
  /\ UNCHANGED <<session, lines, request, since, simulated, shown_value, shown>>

Call == \E reply \in Reply : call(reply)

PlaygroundNext ==
  \/ RpcClientNew \/ InputEnds \/ (\E line \in Line : Enter(line)) \/ Simulate \/ Call
  \/ LedgerMoves

PlaygroundSpec ==
  PlaygroundInit /\ [][PlaygroundNext]_playgroundVars /\ WF_playgroundVars(Call)

-----------------------------------------------------------------------------

PlaygroundTypeOK ==
  /\ session \in {"new", "prompt", "calling", "ended", "refused"}
  /\ lines \in 0..MaxLines
  /\ ledger \in 0..MaxLedger
  /\ since \in 0..ledger
  /\ simulated \in -1..ledger
  /\ shown_value \in -1..ledger
  /\ shown \in {"nothing", "help", "Usage", "InvalidArgument", "Rpc", "Simulation",
                  "Xdr", "Ok"}

\* A request is on its way exactly while a call runs, and names a call of the
\* contract with arguments of its types: a line that is wrong in any other way
\* sends nothing (repl.rs:62-97).  A value printed is never older than the line
\* that asked for it: a reply that comes after its call timed out is not taken
\* for the next one, although every request has the JSON-RPC id 1 (rpc.rs:53-58).
\* The id is not compared: this rests on the HTTP client, which drops the
\* connection of a request that timed out.
AnswersBelongToLines ==
  /\ session = "calling" <=> request # NoEnvelope
  /\ session = "calling" =>
       /\ request.function \in DOMAIN Signature
       /\ DOMAIN request.args = DOMAIN Signature[request.function]
       /\ \A i \in DOMAIN request.args :
            Parses(Signature[request.function][i], request.args[i])
       /\ request.signatures = {}
       /\ shown_value <= since
       /\ simulated # -1 => simulated \in since..ledger
  /\ session # "calling" /\ shown = "Ok" => shown_value \in since..ledger

\* What is printed never goes back in time.
ValuesInOrder == [][shown_value <= shown_value']_playgroundVars

\* Every call that a line makes is answered.
LinesAnswered == session = "calling" ~> session = "prompt"
=============================================================================
