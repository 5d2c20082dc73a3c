-------------------------- MODULE MCSessionLedger --------------------------
(***************************************************************************)
(* One session, two messages, a lease holder that posts any legal or       *)
(* illegal mixture of the batches below.                                   *)
(***************************************************************************)
EXTENDS SessionLedger, FiniteSets

CONSTANTS m1, m2

MCContents == {"hello", "other"}

(* The stream of one message, as events numbered by position and kind. *)
KindNo(kind) ==
    CASE kind = "provider_started"    -> 1
      [] kind = "response_started"    -> 2
      [] kind = "agent_message_chunk" -> 3
      [] kind = "response_completed"  -> 4
      [] kind = "interrupted"         -> 5
      [] kind = "resumed"             -> 6
      [] kind = "handoff_requested"   -> 7
      [] kind = "handoff_completed"   -> 8
      [] kind = "failed"              -> 9
      [] OTHER                        -> 10

Post(m, n, kind, body) ==
    [id |-> <<IF m = m1 THEN n ELSE 10 + n, KindNo(kind)>>, source |-> RunnerSource(m),
     seq |-> n, kind |-> kind, msg |-> m, body |-> body]

Seqs == 1..3
Started(m, n) == Post(m, n, "response_started", "none")
Completed(m, n) == Post(m, n, "response_completed", "none")
Chunk(m, n) == Post(m, n, "agent_message_chunk", "none")

MCRunnerBatches ==
    UNION {
      {<<Post(m, 1, "provider_started", "provider-session")>>,
       <<Post(m, 1, "provider_started", "provider-session"), Started(m, 2)>>}
      \cup UNION {
        {<<Started(m, n)>>, <<Completed(m, n)>>, <<Chunk(m, n)>>, <<Chunk(m, n), Completed(m, n + 1)>>,
         <<Started(m, n), Post(m, n + 1, "response_canceled", "none")>>,
         <<Post(m, n, "failed", "none")>>,
         <<Post(m, n, "handoff_requested", "none")>>,
         <<Post(m, n, "handoff_completed", "none")>>}
        \cup {<<Post(m, n, "interrupted", mode)>> : mode \in ContinuationMode}
        \cup {<<Post(m, n, "resumed", mode)>> : mode \in ContinuationMode}
        : n \in Seqs}
      : m \in Messages}
=============================================================================
