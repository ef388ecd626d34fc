------------------------- MODULE PayoutStateMachine -------------------------
(***************************************************************************)
(* The pure part of the payout state machine, src/payout/state-machine.ts: *)
(* the statuses a payout row may have, the table of legal transitions, and *)
(* the two guards every caller has to pass.                                *)
(***************************************************************************)

PAYOUT_STATUSES ==
  { "CREATED", "ELIGIBLE", "RESERVED", "VALIDATED", "READY", "SUBMITTING",
    "SUBMITTED", "PROCESSING", "COMPLETED", "RECONCILED",
    "VALIDATION_FAILED", "PROVIDER_REJECTED", "RETRYABLE_FAILURE",
    "UNKNOWN", "QUARANTINED", "CANCELLED" }

TransitionActor == {"system", "watchdog", "owner", "provider"}

\* Every (from, to) pair that the table of the source lists.
LEGAL_TRANSITIONS ==
  UNION { {"CREATED"}     \X {"ELIGIBLE", "CANCELLED"},
          {"ELIGIBLE"}    \X {"RESERVED", "CANCELLED"},
          {"RESERVED"}    \X {"VALIDATED", "CANCELLED"},
          {"VALIDATED"}   \X {"READY", "VALIDATION_FAILED"},
          {"READY"}       \X {"SUBMITTING", "CANCELLED"},
          {"SUBMITTING"}  \X {"SUBMITTED", "PROVIDER_REJECTED",
                              "RETRYABLE_FAILURE", "UNKNOWN"},
          {"SUBMITTED"}   \X {"PROCESSING", "PROVIDER_REJECTED",
                              "RETRYABLE_FAILURE", "UNKNOWN"},
          {"PROCESSING"}  \X {"COMPLETED", "PROVIDER_REJECTED",
                              "RETRYABLE_FAILURE", "UNKNOWN"},
          {"COMPLETED"}   \X {"RECONCILED"},
          {"VALIDATION_FAILED"} \X {"QUARANTINED", "CANCELLED"},
          {"PROVIDER_REJECTED", "RETRYABLE_FAILURE"}
                          \X {"READY", "QUARANTINED", "CANCELLED"},
          {"UNKNOWN"}     \X {"COMPLETED", "QUARANTINED"} }

\* assertTransition: the pair is in the table, and UNKNOWN is left only on
\* behalf of the provider or of the system.
AssertTransition(from, to, actor) ==
  /\ <<from, to>> \in LEGAL_TRANSITIONS
  /\ from = "UNKNOWN" => actor \in {"provider", "system"}

\* The statuses from which a failed submission may be requeued.
IsRetrySafe(from) == from \in {"RETRYABLE_FAILURE", "PROVIDER_REJECTED"}

\* How far a payout is, as PayoutPromise sees it.
StageOf(status) ==
  CASE status \in {"SUBMITTING", "SUBMITTED", "PROCESSING", "UNKNOWN"} -> "claimed"
    [] status \in {"COMPLETED", "RECONCILED"} -> "settled"
    [] status \in {"QUARANTINED", "CANCELLED", "VALIDATION_FAILED"} -> "closed"
    [] OTHER -> "open"

=============================================================================
