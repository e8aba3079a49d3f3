---- MODULE Verdicts ----
(***************************************************************************)
(* From a receipt to a verdict, before any committee: verifier.py,         *)
(* challenges.py, and the order in which worker_daemon.run_once lets them  *)
(* decide.                                                                 *)
(*                                                                         *)
(* Ids and hashes of a receipt that the daemon made itself are right; what *)
(* a challenge compares is whether the response is the expected one.       *)
(***************************************************************************)
EXTENDS Runtime

(* verify_inference_receipt, of a daemon's own receipt: token counts are   *)
(* not negative, the duration is positive and the flag explicit, so that   *)
(* the energy remains.  It does not look at what the flag says.            *)
ReceiptVerifies(receipt) == receipt.energy > 0

NoChallenge == [attached |-> FALSE, expired |-> FALSE, response |-> TRUE]

(* should_attach_challenge: by the rate and a hash of the job id, to runs  *)
(* that were accepted.  create_challenge: it expires at once if its        *)
(* ttl_seconds is zero, and the response is the expected one unless the    *)
(* job brings another.                                                     *)
Challenges(result) ==
  {NoChallenge} \union
    (IF result.accepted THEN [attached : {TRUE}, expired : BOOLEAN, response : BOOLEAN] ELSE {})

(* verify_challenge_result: fewer tokens than the job expects fail, too.   *)
ChallengeReason(challenge, tokens, expected) ==
  IF ~challenge.attached THEN None
  ELSE IF challenge.expired THEN "CHALLENGE_EXPIRED"
  ELSE IF challenge.response /\ tokens >= expected THEN None ELSE "CHALLENGE_FAILED"

(* Why the work is turned down: the challenge before the runtime's own     *)
(* failure before the checks of the receipt.                               *)
Reason(result, receipt, challenge, expected) ==
  LET challenged == ChallengeReason(challenge, receipt.tokens, expected) IN
  IF challenged # None THEN challenged
  ELSE IF ~result.accepted THEN result.code
  ELSE IF ~ReceiptVerifies(receipt) THEN "VERIFICATION_FAILED" ELSE None

====
