----------------------------- MODULE ModelTurn -----------------------------
(***************************************************************************)
(* One question to the model: AgenticLoop._complete_llm_turn around        *)
(* MultiProviderClient.complete, which retries, around the two payloads    *)
(* that _complete_openai_compatible tries with Groq.  Three nested loops,  *)
(* each with a reason of its own to post the request again.                *)
(***************************************************************************)
EXTENDS Naturals

CONSTANTS
    Groq,      \* the provider is Groq
    FastTier   \* the run was routed to a fast model, and the provider has a full one

ASSUME TurnAssumption == Groq \in BOOLEAN /\ FastTier \in BOOLEAN

MaxRetries == 3

(* What a post can fail with.  "busy" is a 429 and "large" a 413 that name the tokens per minute, *)
(* "generation" and "schema" reject the tool call the model made, "server" is any other status    *)
(* the client repeats, "refused" any other, "timeout" a connection that failed.                   *)
PostError == {"timeout", "server", "busy", "large", "generation", "schema", "refused"}

Retryable == {"timeout", "server", "busy"}
Lighter == {"busy", "large", "generation", "schema"}

Question == [attempt : 1 .. MaxRetries, compact : BOOLEAN, focused : BOOLEAN,
             escalated : BOOLEAN, posts : Nat]

\* provider_config is made anew by every invocation of the loop, and so is what it remembers of
\* an escalation; the rest is local to the turn.
FreshConfig == [attempt |-> 1, compact |-> FALSE, focused |-> FALSE, escalated |-> FALSE, posts |-> 0]
Asked(q) == [FreshConfig EXCEPT !.escalated = q.escalated, !.posts = 1]

\* Once the turn is over only the escalation matters, and that something was posted.
Over(q) == Asked(q)

CanLighten(q, error) == Groq /\ ~q.compact /\ error \in Lighter
CanRetry(q, error) == error \in Retryable /\ q.attempt < MaxRetries
CanEscalate(q) == FastTier /\ ~q.escalated
\* Mutant of CanFocus: nothing remembers that the focused payload has been tried.
CanFocusAgain(q, error) == Groq /\ error = "generation"

CanFocus(q, error) == Groq /\ error = "generation" /\ ~q.focused

Again(q) == [q EXCEPT !.attempt = 1, !.compact = FALSE, !.posts = @ + 1]

GivesUp(q, error) ==
    ~(CanLighten(q, error) \/ CanRetry(q, error) \/ CanEscalate(q) \/ CanFocus(q, error))

\* The question after a post that failed and is posted again.
Reposted(q, error) ==
    CASE CanLighten(q, error) -> [q EXCEPT !.compact = TRUE, !.posts = @ + 1]
      [] ~CanLighten(q, error) /\ CanRetry(q, error) ->
            [q EXCEPT !.attempt = @ + 1, !.compact = FALSE, !.posts = @ + 1]
      [] OTHER -> IF CanEscalate(q) THEN [Again(q) EXCEPT !.escalated = TRUE]
                                    ELSE [Again(q) EXCEPT !.focused = TRUE]

\* The most posts a turn can take.
MostPosts == MaxRetries * (IF Groq THEN 2 ELSE 1)
                        * (1 + (IF FastTier THEN 1 ELSE 0) + (IF Groq THEN 1 ELSE 0))
=============================================================================
