------------------------------ MODULE MCTurns -------------------------------
(***************************************************************************)
(* An instance of DirectRuns for TLC.  A behaviour exercises one part: two *)
(* streamed messages; a pause and its resumes; regeneration; the           *)
(* synchronous endpoints; four messages and regenerations that overlap; or *)
(* one run until its conversation is free again.  A part restricts what    *)
(* the graph does and which endpoints are called.                          *)
(***************************************************************************)
EXTENDS DirectRuns, TLC

VARIABLE part
mcvars == <<part, tvars>>

MCInit == part \in {"plain", "resume", "replay", "sync", "overlap", "freed"} /\ DirectInit

\* The graph's behaviour and the endpoints of a part.
Few(modes, founds, items) ==
    \A q \in Askers : /\ ask'[q].mode \in modes \cup {"none"}
                      /\ ask'[q].found \in founds \cup {"none"}
                      /\ ask'[q].item \in items \cup {"none"}

\* Parts of three requests and of two.
Three == ask'[4] = NoAsk
Two == Three /\ ask'[3] = NoAsk

\* Requests are interchangeable and come in order; the stop and the passing of time concern
\* the first run.
Ordered ==
    /\ \A p, q \in Askers : p < q /\ ask'[q].at # "idle" => ask'[p].at # "idle"
    /\ stop'.run <= 1
    /\ \A r \in DOMAIN run' : r > 1 => ~run'[r].aged /\ run'[r].expiry # "past"

MCPlain == part = "plain" /\ DirectNext /\ Ordered /\ Two
           /\ Few({"stream"}, {"answer", "clarify"}, {"update", "delta", "result"})

MCResume == part = "resume" /\ DirectNext /\ Ordered /\ Three /\ Len(run') <= 1 /\ sweep' = sweep
            /\ Few({"stream", "resume"}, {"answer"}, {"delta", "result"})

MCReplay == part = "replay" /\ DirectNext /\ Ordered /\ Three /\ stop' = NoStop /\ sweep' = sweep
            /\ Few({"stream", "replay"}, {"answer", "insufficient"}, {"delta", "result"})
            /\ \A q \in Askers : ask'[q].result # "interrupt"

MCSync == part = "sync" /\ DirectNext /\ Ordered /\ Three
          /\ Few({"sync", "syncresume", "syncreplay"}, {"answer", "insufficient"}, {})

MCFreed == part = "freed" /\ DirectNext /\ Ordered /\ Two /\ Len(run') <= 1
           /\ Few({"stream", "resume"}, {"answer"}, {"result"})

MCOverlap == part = "overlap" /\ DirectNext /\ Ordered /\ stop' = NoStop /\ sweep' = sweep
             /\ Few({"sync", "syncreplay"}, {"answer"}, {})
             /\ \A q \in Askers : ask'[q].result # "interrupt"
             /\ \A r \in DOMAIN run' : ~run'[r].aged

MCNext == UNCHANGED part /\ (MCPlain \/ MCResume \/ MCReplay \/ MCSync \/ MCOverlap \/ MCFreed)

\* Requests make progress, time passes, and requests keep coming that clean the conversation.
MCFairness ==
    /\ \A q \in Askers : WF_mcvars(part = "freed" /\ Work(q) /\ UNCHANGED part)
    /\ WF_mcvars(part = "freed" /\ Time /\ UNCHANGED part)
    /\ WF_mcvars(part = "freed" /\ SweepRead /\ UNCHANGED part)
    /\ WF_mcvars(part = "freed" /\ SweepWrite /\ UNCHANGED part)

MCSpec == MCInit /\ [][MCNext]_mcvars /\ MCFairness

\* A conversation does not stay occupied: whatever becomes of its requests and of a stop, an
\* active run ends, by its request or by the cleanup of stale runs.
MCConversationFreed ==
    (part = "freed" /\ 1 \in DOMAIN run /\ IsActive(1)) ~> (1 \in DOMAIN run /\ ~IsActive(1))
=============================================================================
