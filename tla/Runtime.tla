---- MODULE Runtime ----
(***************************************************************************)
(* What a runtime makes of a job, and the receipt the daemon makes of the  *)
(* result.  (runtime.py, runners.py, and receipt_from_runtime_result of    *)
(* worker_daemon.py.)                                                      *)
(*                                                                         *)
(* What happens outside, to a command or an HTTP request, is an event; the *)
(* output is known by its number of tokens.                                *)
(***************************************************************************)
EXTENDS Naturals

None == "none"

\* What run returns, or that it raises.
Answer(tokens) == [raised |-> FALSE, accepted |-> TRUE, tokens |-> tokens, code |-> None]
Failed(code) == [raised |-> FALSE, accepted |-> FALSE, tokens |-> 0, code |-> code]
Raised == [raised |-> TRUE, accepted |-> FALSE, tokens |-> 0, code |-> None]

Types == {"simulated", "subprocess", "ollama", "ollama_placeholder", "llama_cpp_placeholder"}

Events(type) ==
  CASE type = "simulated" -> {"done"}
    [] type = "subprocess" -> {"no list", "no program", "exit 0", "exit 1", "timeout"}
    [] type = "ollama" -> {"no model", "answer", "no text", "no json", "timeout",
                           "unreachable", "reset"}
    [] OTHER -> {"not configured"}

(* SimulatedRuntime.run always answers with the tokens that the job        *)
(* expects.                                                                *)
RunSimulated(expected) == Answer(expected)

(* SubprocessRuntime.run: a command that is no list of strings, or that    *)
(* cannot be started, raises.  The tokens are those the job expects, which *)
(* every job of the table has, whatever the command prints, and also when  *)
(* it fails.                                                               *)
RunSubprocess(event, expected) ==
  CASE event \in {"no list", "no program"} -> Raised
    [] event = "exit 0" -> Answer(expected)
    [] event = "exit 1" -> [Failed("COMMAND_FAILED") EXCEPT !.tokens = expected]
    [] event = "timeout" -> Failed("WORKER_TIMEOUT")

(* OllamaRuntime.run counts the tokens of the answer.  An HTTP error and a *)
(* refused connection are a worker that is offline; a connection that is   *)
(* lost while the answer is read is none of the exceptions it catches.     *)
RunOllama(event, counted) ==
  CASE event = "no model" -> Failed("RUNTIME_NOT_CONFIGURED")
    [] event = "answer" -> Answer(counted)
    [] event \in {"no text", "no json"} -> Failed("RUNTIME_INVALID_RESPONSE")
    [] event = "timeout" -> Failed("WORKER_TIMEOUT")
    [] event = "unreachable" -> Failed("WORKER_OFFLINE")
    [] event = "reset" -> Raised

(* The placeholders run nothing.                                           *)
RunPlaceholder == Failed("RUNTIME_NOT_CONFIGURED")

(* runner_for_type, run                                                    *)
Run(type, event, expected, counted) ==
  CASE type = "simulated" -> RunSimulated(expected)
    [] type = "subprocess" -> RunSubprocess(event, expected)
    [] type = "ollama" -> RunOllama(event, counted)
    [] OTHER -> RunPlaceholder

(* Everything that can come out of a job, over all types.                  *)
Outcomes(expected, counts) ==
  UNION {UNION {{Run(type, event, expected, n) : n \in counts} : event \in Events(type)} :
         type \in Types}

(* _estimated_qi, with one unit per token of input and output.             *)
Estimate(result, input) == IF result.accepted THEN input + result.tokens ELSE 0

(* receipt_from_runtime_result: a run that took no time is given a         *)
(* millisecond, so that only missing watts leave no energy.                *)
ReceiptOf(result, input, watts) ==
  [accepted |-> result.accepted, tokens |-> result.tokens, energy |-> watts,
   qi |-> Estimate(result, input)]

====
