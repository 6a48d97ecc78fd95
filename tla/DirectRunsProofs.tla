-------------------------- MODULE DirectRunsProofs --------------------------
(***************************************************************************)
(* Proofs about the runs that requests execute themselves, for any number  *)
(* of requests, runs, pauses and deltas.                                   *)
(***************************************************************************)
EXTENDS DirectRuns, FiniteSetTheorems, SequenceTheorems, WellFoundedInduction, TLAPS

Frames == {"retrieval", "invoked", "delta", "composed"} \cup Ends
AskFields == {"at", "mode", "run", "pause", "found", "context", "invoked", "deltas", "item", "result",
              "stored", "target", "removed", "since", "wire"}
RunFields == {"status", "prompt", "pauses", "expiry", "aged", "late"}

-----------------------------------------------------------------------------
(* The inductive invariant. *)

Has(w, f) == \E i \in DOMAIN w : w[i] = f
Single(w, f) == \A i, j \in DOMAIN w : w[i] = f /\ w[j] = f => i = j

\* The stream has not reported an end.
Open(w) == \A i \in DOMAIN w : w[i] \notin Ends

\* What WireOrdered says of one stream.
InOrder(w, mode) ==
    /\ Single(w, "retrieval") /\ Single(w, "invoked")
    /\ \A i \in DOMAIN w : w[i] = "delta" /\ mode # "resume" =>
         \E j, k \in 1 .. i : w[j] = "retrieval" /\ w[k] = "invoked"
    /\ \A i \in DOMAIN w : w[i] \in Ends => i = Len(w)

\* What a request has sent agrees with what it knows of the graph and has stored.
SoundAsk(x) ==
    /\ DOMAIN x = AskFields /\ x.invoked \in BOOLEAN /\ (x.at = "idle" => x = NoAsk)
    /\ x.wire \in Seq(Frames) /\ InOrder(x.wire, x.mode)
    /\ x.at \notin {"paused", "done"} => Open(x.wire)
    /\ x.mode \notin Streams => x.wire = << >>
    /\ x.stored \in {0, 1} /\ (x.at \in {"prune", "last"} => x.stored = 1)
    /\ x.stored = 1 => x.at \in {"prune", "last", "done"}
    /\ x.wire # << >> =>
         /\ Last(x.wire) = "completed" => x.stored = 1
         /\ Last(x.wire) = "cancelled" => x.stored = 0
    /\ x.mode \in Streams /\ x.at # "done" =>
         /\ x.found = x.context
         /\ Has(x.wire, "retrieval") <=> x.context # "none"
         /\ Has(x.wire, "invoked") <=> x.invoked
    /\ x.at \in {"answer", "fallback"} => x.found # "none"
    /\ x.at = "fallback" => x.invoked
    /\ x.at \in {"recorded", "item"} /\ x.item = "delta" => x.result = "none"
    /\ x.at = "deliver" /\ x.item = "delta" /\ x.mode # "resume" => x.context # "none" /\ x.invoked

\* The request executes its run, or has stored its answer.
Busy(x) == x.at \in Working \/ x.stored = 1

\* A stored answer that a first phase contradicts, or still may, is of a run that was reopened.
Owed(x, rows) ==
    x.stored = 1 /\ x.mode = "stream" =>
        /\ x.at \in {"prune", "last"} /\ rows[x.run].status \in ActiveRunStatuses => rows[x.run].late
        /\ x.wire # << >> /\ Last(x.wire) = "failed" => rows[x.run].late

\* The rows of the runs.
RowsOK(rows) ==
    /\ \E n \in Nat : rows = [i \in 1 .. n |-> rows[i]]
    /\ \A r \in DOMAIN rows : DOMAIN rows[r] = RunFields /\ rows[r].late \in BOOLEAN

\* Where a request that executes nothing holds a row.
Waiting == {"claim", "expire", "reject", "paused"}

\* A request refers to a row, and a run that waits has nobody that executes it.
Linked(x, rows) ==
    /\ x.run = 0 \/ x.run \in DOMAIN rows
    /\ Busy(x) \/ x.at \in Waiting => x.run \in DOMAIN rows
    /\ Busy(x) => rows[x.run].status # "waiting"
    /\ Owed(x, rows)

DirectInv ==
    /\ DOMAIN ask = Askers
    /\ RowsOK(run)
    /\ \A q \in Askers : SoundAsk(ask[q]) /\ Linked(ask[q], run)
    /\ \A p, q \in Askers : Busy(ask[p]) /\ Busy(ask[q]) /\ ask[p].run = ask[q].run => p = q

-----------------------------------------------------------------------------
(* What is sent. *)

\* A stream that is extended by one frame.
LEMMA Extended ==
    ASSUME NEW w \in Seq(Frames), NEW mode, InOrder(w, mode), Open(w), NEW f \in Frames,
           f \in {"retrieval", "invoked"} => ~Has(w, f),
           f = "delta" /\ mode # "resume" => Has(w, "retrieval") /\ Has(w, "invoked")
    PROVE  /\ w \o <<f>> \in Seq(Frames) /\ InOrder(w \o <<f>>, mode)
           /\ \A g : Has(w \o <<f>>, g) <=> Has(w, g) \/ g = f
           /\ w \o <<f>> # << >> /\ Last(w \o <<f>>) = f
           /\ f \notin Ends => Open(w \o <<f>>)
  <1> DEFINE v == w \o <<f>>
             n == Len(w)
  <1>1. /\ n \in Nat /\ DOMAIN w = 1 .. n /\ v \in Seq(Frames) /\ Len(v) = n + 1 /\ DOMAIN v = 1 .. (n + 1)
        /\ v[n + 1] = f /\ \A i \in 1 .. n : v[i] = w[i]
    OBVIOUS
  <1> HIDE DEF v, n
  <1>2. \A g : Has(v, g) <=> Has(w, g) \/ g = f
    BY <1>1 DEF Has
  <1>3. v # << >> /\ Last(v) = f
    BY <1>1 DEF Last
  <1>4. f \notin Ends => Open(v)
    BY <1>1 DEF Open
  <1>5. ASSUME NEW g \in {"retrieval", "invoked"} PROVE Single(v, g)
    <2>1. Single(w, g) /\ (f = g => ~Has(w, g))
      BY DEF InOrder
    <2> QED
      BY <1>1, <2>1 DEF Single, Has
  <1>6. \A i \in DOMAIN v : v[i] \in Ends => i = Len(v)
    BY <1>1 DEF Open
  <1>7. ASSUME NEW i \in DOMAIN v, v[i] = "delta", mode # "resume"
        PROVE  \E j, k \in 1 .. i : v[j] = "retrieval" /\ v[k] = "invoked"
    <2>1. CASE i \in 1 .. n
      <3>1. PICK j \in 1 .. i, k \in 1 .. i : w[j] = "retrieval" /\ w[k] = "invoked"
        BY <1>1, <1>7, <2>1 DEF InOrder
      <3>2. v[j] = "retrieval" /\ v[k] = "invoked"
        BY <1>1, <2>1, <3>1
      <3> QED
        BY <3>2
    <2>2. CASE i = n + 1
      <3>1. PICK j \in 1 .. n, k \in 1 .. n : w[j] = "retrieval" /\ w[k] = "invoked"
        BY <1>1, <1>7, <2>2 DEF Has
      <3>2. j \in 1 .. i /\ k \in 1 .. i /\ v[j] = "retrieval" /\ v[k] = "invoked"
        BY <1>1, <2>2, <3>1
      <3> QED
        BY <3>2
    <2> QED
      BY <1>1, <2>1, <2>2
  <1>8. InOrder(v, mode)
    BY <1>5, <1>6, <1>7 DEF InOrder
  <1> QED
    BY <1>1, <1>2, <1>3, <1>4, <1>8 DEF v

\* The two differ at most in what was sent.
SameButWire(z, x) ==
    /\ DOMAIN z = DOMAIN x
    /\ z.at = x.at /\ z.mode = x.mode /\ z.run = x.run /\ z.found = x.found /\ z.context = x.context
    /\ z.invoked = x.invoked /\ z.item = x.item /\ z.result = x.result /\ z.stored = x.stored

LEMMA SayChanges ==
    ASSUME NEW x, DOMAIN x = AskFields, NEW frames
    PROVE  /\ SameButWire(Say(x, frames), x)
           /\ Say(x, frames).wire = IF x.mode \in Streams THEN x.wire \o frames ELSE x.wire
  BY DEF Say, SameButWire, AskFields

\* A request that goes on and says one frame, which is no end.
LEMMA SaysOne ==
    ASSUME NEW x, SoundAsk(x), x.at \notin {"paused", "done"}, NEW f \in Frames,
           f \in {"retrieval", "invoked"} => ~Has(x.wire, f) \/ x.mode \notin Streams,
           f = "delta" /\ x.mode \in Streams \ {"resume"} => x.context # "none" /\ x.invoked,
           NEW z, z = Say(x, <<f>>)
    PROVE  /\ SameButWire(z, x) /\ DOMAIN z = AskFields
           /\ z.wire \in Seq(Frames) /\ InOrder(z.wire, z.mode)
           /\ z.mode \notin Streams => z.wire = << >>
           /\ f \notin Ends => Open(z.wire)
           /\ z.wire # << >> => Last(z.wire) = f
           /\ z.mode \in Streams => \A g : Has(z.wire, g) <=> Has(x.wire, g) \/ g = f
  <1>1. DOMAIN x = AskFields /\ SameButWire(z, x) /\ z.wire = IF x.mode \in Streams THEN x.wire \o <<f>> ELSE x.wire
    BY SayChanges DEF SoundAsk
  <1>2. CASE x.mode \notin Streams
    BY <1>1, <1>2 DEF SoundAsk, SameButWire, Open
  <1>3. CASE x.mode \in Streams
    <2>1. /\ x.wire \in Seq(Frames) /\ InOrder(x.wire, x.mode) /\ Open(x.wire)
          /\ f \in {"retrieval", "invoked"} => ~Has(x.wire, f)
          /\ f = "delta" /\ x.mode # "resume" => Has(x.wire, "retrieval") /\ Has(x.wire, "invoked")
      BY <1>3 DEF SoundAsk
    <2> DEFINE w == x.wire
               m == x.mode
    <2>2. z.wire = w \o <<f>> /\ z.mode = m
      BY <1>1, <1>3 DEF SameButWire
    <2> HIDE DEF w, m
    <2>3. /\ w \o <<f>> \in Seq(Frames) /\ InOrder(w \o <<f>>, m)
          /\ \A g : Has(w \o <<f>>, g) <=> Has(w, g) \/ g = f
          /\ w \o <<f>> # << >> /\ Last(w \o <<f>>) = f
          /\ f \notin Ends => Open(w \o <<f>>)
      BY <2>1, Extended DEF w, m
    <2> QED
      BY <1>1, <1>3, <2>2, <2>3 DEF SameButWire, w, m
  <1> QED
    BY <1>2, <1>3

LEMMA SaysNone ==
    ASSUME NEW x, SoundAsk(x)
    PROVE  SameButWire(Say(x, << >>), x) /\ Say(x, << >>).wire = x.wire
  <1>1. x.wire \in Seq(Frames) /\ x.wire \o << >> = x.wire
    BY DEF SoundAsk
  <1> QED
    BY <1>1, SayChanges DEF SoundAsk

-----------------------------------------------------------------------------
(* Steps of the rows, and of one request. *)

\* Rows are kept; none begins to wait, and one that becomes active again is late.
Calm(rows, next) ==
    /\ RowsOK(next) /\ DOMAIN rows \subseteq DOMAIN next
    /\ \A r \in DOMAIN rows :
         /\ next[r].status = "waiting" => rows[r].status = "waiting"
         /\ rows[r].late => next[r].late
         /\ next[r].status \in ActiveRunStatuses => rows[r].status \in ActiveRunStatuses \/ next[r].late

LEMMA CalmSame == ASSUME RowsOK(run) PROVE Calm(run, run)
  BY DEF Calm

\* One row is written.
LEMMA WrittenRow ==
    ASSUME RowsOK(run), NEW r \in DOMAIN run, NEW row, DOMAIN row = RunFields, row.late \in BOOLEAN
    PROVE  /\ RowsOK([run EXCEPT ![r] = row]) /\ DOMAIN [run EXCEPT ![r] = row] = DOMAIN run
           /\ [run EXCEPT ![r] = row][r] = row
           /\ \A o \in DOMAIN run \ {r} : [run EXCEPT ![r] = row][o] = run[o]
  <1> DEFINE rows == [run EXCEPT ![r] = row]
  <1>1. PICK n \in Nat : run = [i \in 1 .. n |-> run[i]]
    BY DEF RowsOK
  <1>2. DOMAIN rows = DOMAIN run /\ rows = [i \in 1 .. n |-> rows[i]]
        /\ rows[r] = row /\ \A o \in DOMAIN run \ {r} : rows[o] = run[o]
    BY <1>1
  <1> HIDE DEF rows
  <1>3. RowsOK(rows)
    BY <1>1, <1>2 DEF RowsOK
  <1> QED
    BY <1>2, <1>3 DEF rows

LEMMA CalmWrite ==
    ASSUME RowsOK(run), NEW r \in DOMAIN run, NEW row, DOMAIN row = RunFields, row.late \in BOOLEAN,
           row.status = "waiting" => run[r].status = "waiting", run[r].late => row.late,
           row.status \in ActiveRunStatuses => run[r].status \in ActiveRunStatuses \/ row.late
    PROVE  Calm(run, [run EXCEPT ![r] = row])
  <1> DEFINE rows == [run EXCEPT ![r] = row]
  <1>1. /\ RowsOK(rows) /\ DOMAIN rows = DOMAIN run /\ rows[r] = row
        /\ \A o \in DOMAIN run \ {r} : rows[o] = run[o]
    BY WrittenRow
  <1> HIDE DEF rows
  <1>2. Calm(run, rows)
    BY <1>1 DEF Calm
  <1> QED
    BY <1>2 DEF rows

\* The others are as they were when the rows are calm.
LEMMA LinkedKept ==
    ASSUME RowsOK(run), NEW next, Calm(run, next), NEW x, Linked(x, run)
    PROVE  Linked(x, next)
  <1>1. x.run \in DOMAIN run => x.run \in DOMAIN next
    BY DEF Calm
  <1>2. Busy(x) => next[x.run].status # "waiting"
    BY DEF Linked, Calm
  <1>3. Owed(x, next)
    BY DEF Linked, Calm, Owed, Busy
  <1> QED
    BY <1>1, <1>2, <1>3 DEF Linked

\* One request takes a step, and nobody begins to execute a run.
LEMMA StepKeeps ==
    ASSUME DirectInv, NEW q \in Askers, NEW y, ask' = [ask EXCEPT ![q] = y], Calm(run, run'),
           SoundAsk(y), y.run = ask[q].run, Busy(y) => Busy(ask[q]), Owed(y, run'),
           y.at \in Waiting => Busy(ask[q])
    PROVE  DirectInv'
  <1>1. DOMAIN ask' = Askers /\ ask'[q] = y /\ \A p \in Askers \ {q} : ask'[p] = ask[p]
    BY DEF DirectInv
  <1>2. RowsOK(run')
    BY DEF Calm
  <1>3. Linked(y, run')
    BY DEF DirectInv, Linked, Calm
  <1>4. \A p \in Askers : SoundAsk(ask'[p]) /\ Linked(ask'[p], run')
    BY <1>1, <1>3, LinkedKept DEF DirectInv
  <1>5. \A p, o \in Askers : Busy(ask'[p]) /\ Busy(ask'[o]) /\ ask'[p].run = ask'[o].run => p = o
    BY <1>1 DEF DirectInv
  <1> QED
    BY <1>1, <1>2, <1>4, <1>5 DEF DirectInv

\* The rows change calmly, and no request takes a step.
LEMMA RowsKeep ==
    ASSUME DirectInv, Calm(run, run'), ask' = ask
    PROVE  DirectInv'
  <1>1. \A p \in Askers : SoundAsk(ask[p]) /\ Linked(ask[p], run')
    BY LinkedKept DEF DirectInv
  <1> QED
    BY <1>1 DEF DirectInv, Calm

\* A request becomes the one that executes a run of which nobody else is busy.
LEMMA BeginKeeps ==
    ASSUME DirectInv, NEW q \in Askers, NEW y, ask' = [ask EXCEPT ![q] = y], Calm(run, run'),
           SoundAsk(y), y.run \in DOMAIN run', run'[y.run].status # "waiting", y.stored = 0,
           \A p \in Askers : Busy(ask[p]) => ask[p].run # y.run
    PROVE  DirectInv'
  <1>1. DOMAIN ask' = Askers /\ ask'[q] = y /\ \A p \in Askers \ {q} : ask'[p] = ask[p]
    BY DEF DirectInv
  <1>2. RowsOK(run')
    BY DEF Calm
  <1>3. Linked(y, run')
    BY DEF Linked, Owed
  <1>4. \A p \in Askers : SoundAsk(ask'[p]) /\ Linked(ask'[p], run')
    BY <1>1, <1>3, LinkedKept DEF DirectInv
  <1>5. \A p, o \in Askers : Busy(ask'[p]) /\ Busy(ask'[o]) /\ ask'[p].run = ask'[o].run => p = o
    BY <1>1 DEF DirectInv
  <1> QED
    BY <1>1, <1>2, <1>4, <1>5 DEF DirectInv

\* What ends keeps only what it stored and sent.
LEMMA EndKeeps ==
    ASSUME DirectInv, NEW q \in Askers, NEW x, End(q, x), Calm(run, run'),
           x.run = ask[q].run, x.stored = ask[q].stored, x.mode \notin Streams => x.wire = << >>,
           x.wire \in Seq(Frames), InOrder(x.wire, x.mode),
           x.wire # << >> => /\ Last(x.wire) = "completed" => x.stored = 1
                             /\ Last(x.wire) = "cancelled" => x.stored = 0
                             /\ Last(x.wire) = "failed" /\ x.mode = "stream" /\ x.stored = 1 => run'[x.run].late
    PROVE  DirectInv'
  <1> DEFINE y == [NoAsk EXCEPT !.at = "done", !.mode = x.mode, !.run = x.run, !.stored = x.stored, !.wire = x.wire]
  <1>0. ask' = [ask EXCEPT ![q] = y] /\ SoundAsk(ask[q])
    BY DEF End, To, DirectInv
  <1>1. /\ DOMAIN y = AskFields /\ y.at = "done" /\ y.mode = x.mode /\ y.run = x.run /\ y.stored = x.stored
        /\ y.wire = x.wire /\ y.invoked = FALSE /\ y.found = "none" /\ y.context = "none"
    BY DEF NoAsk, AskFields
  <1> HIDE DEF y
  <1>2. SoundAsk(y)
    BY <1>0, <1>1 DEF SoundAsk
  <1>3. Busy(y) => Busy(ask[q])
    BY <1>1 DEF Busy, Working, Looping
  <1>4. Owed(y, run')
    BY <1>1 DEF Owed
  <1> QED
    BY <1>0, <1>1, <1>2, <1>3, <1>4, StepKeeps DEF Waiting

\* A status that ends a run is written.
LEMMA WriteCalm ==
    ASSUME RowsOK(run), NEW r \in DOMAIN run, NEW status, status \notin ActiveRunStatuses, Write(r, status)
    PROVE  Calm(run, run') /\ (run[r].late => run'[r].late)
  <1> DEFINE e == IF status \in {"completed", "failed"} THEN "none" ELSE run[r].expiry
             row == [run[r] EXCEPT !.status = status, !.expiry = e]
  <1>1. run' = [run EXCEPT ![r] = row]
    BY DEF Write
  <1> HIDE DEF e
  <1>2. DOMAIN row = RunFields /\ row.late = run[r].late /\ row.late \in BOOLEAN /\ row.status = status
    BY DEF RowsOK, RunFields
  <1> HIDE DEF row
  <1>3. row.status # "waiting"
    BY <1>2 DEF ActiveRunStatuses
  <1>4. Calm(run, [run EXCEPT ![r] = row])
    BY <1>2, <1>3, CalmWrite
  <1> QED
    BY <1>1, <1>4 DEF Calm

-----------------------------------------------------------------------------
(* The steps of a request. *)

\* A request that has stored nothing says one frame, of an end or none, and ends.
LEMMA SaysAndEnds ==
    ASSUME DirectInv, NEW q \in Askers, ask[q].at \notin {"paused", "done"}, NEW f \in Frames,
           f \notin {"retrieval", "invoked", "delta"}, End(q, Say(ask[q], <<f>>)), Calm(run, run'),
           f = "completed" => ask[q].stored = 1, f = "cancelled" => ask[q].stored = 0,
           f = "failed" /\ ask[q].mode = "stream" /\ ask[q].stored = 1 => run'[ask[q].run].late
    PROVE  DirectInv'
  <1> DEFINE x == ask[q]
             z == Say(x, <<f>>)
  <1>1. SoundAsk(x)
    BY DEF DirectInv
  <1>2. /\ SameButWire(z, x) /\ DOMAIN z = AskFields
        /\ z.wire \in Seq(Frames) /\ InOrder(z.wire, z.mode)
        /\ z.mode \notin Streams => z.wire = << >>
        /\ z.wire # << >> => Last(z.wire) = f
    <2> HIDE DEF x
    <2> DEFINE v == z
    <2>1. x.at \notin {"paused", "done"}
      BY DEF x
    <2> HIDE DEF v
    <2>2. v = Say(x, <<f>>)
      BY DEF v
    <2>3. /\ SameButWire(v, x) /\ DOMAIN v = AskFields
          /\ v.wire \in Seq(Frames) /\ InOrder(v.wire, v.mode)
          /\ v.mode \notin Streams => v.wire = << >>
          /\ v.wire # << >> => Last(v.wire) = f
      BY <1>1, <2>1, <2>2, SaysOne
    <2> QED
      BY <2>2, <2>3
  <1>3. End(q, z)
    OBVIOUS
  <1>4. z.run = ask[q].run /\ z.stored = ask[q].stored /\ z.mode = ask[q].mode
    BY <1>2 DEF SameButWire
  <1> HIDE DEF z, x
  <1> QED
    BY <1>2, <1>3, <1>4, EndKeeps

\* The stop that a request finds ends it.
LEMMA MarkCancelledKeeps ==
    ASSUME DirectInv, NEW q \in Askers, ask[q].at \in Working \ {"prune", "last"}, MarkCancelled(q, ask[q])
    PROVE  DirectInv'
  <1>1. ask[q].stored = 0 /\ ask[q].run \in DOMAIN run /\ RowsOK(run) /\ ask[q].at \notin {"paused", "done"}
    BY DEF DirectInv, SoundAsk, Linked, Busy, Working, Looping
  <1> DEFINE r == ask[q].run
  <1>2. Write(r, "cancelled")
    BY DEF MarkCancelled
  <1> HIDE DEF r
  <1>3. Calm(run, run')
    BY <1>1, <1>2, WriteCalm DEF r, ActiveRunStatuses
  <1> QED
    BY <1>1, <1>3, SaysAndEnds DEF MarkCancelled, Frames, Ends

\* A request that has stored nothing goes on.
LEMMA GoesOn ==
    ASSUME DirectInv, NEW q \in Askers, ask[q].at \in Working, NEW y, ask' = [ask EXCEPT ![q] = y],
           SoundAsk(y), y.run = ask[q].run, y.stored = 0, Calm(run, run')
    PROVE  DirectInv'
  <1>1. Busy(ask[q])
    BY DEF Busy
  <1>2. Owed(y, run')
    BY DEF Owed
  <1> QED
    BY <1>1, <1>2, StepKeeps

LEMMA Moves ==
    ASSUME DirectInv, NEW q \in Askers, ask[q].at \in Working \ {"prune", "last"}, run' = run,
           NEW p \in Working \ {"prune", "last"}, ask' = [ask EXCEPT ![q] = [ask[q] EXCEPT !.at = p]],
           p \in {"answer", "fallback"} => ask[q].found # "none", p = "fallback" => ask[q].invoked,
           p # "deliver", p # "recorded", p = "item" => ask[q].at = "recorded"
    PROVE  DirectInv'
  <1> DEFINE x == ask[q]
             y == [x EXCEPT !.at = p]
  <1>1. SoundAsk(x) /\ x.stored = 0 /\ x.at \notin {"paused", "done"} /\ p \notin {"idle", "paused", "done", "prune", "last"}
    BY DEF DirectInv, SoundAsk, Working, Looping
  <1>2. /\ x.at \in Working /\ (p \in {"answer", "fallback"} => x.found # "none") /\ (p = "fallback" => x.invoked)
        /\ p = "item" => x.at = "recorded"
    OBVIOUS
  <1>3. Calm(run, run')
    BY CalmSame DEF DirectInv
  <1>4. ask' = [ask EXCEPT ![q] = y]
    OBVIOUS
  <1> HIDE DEF x
  <1>5. DOMAIN y = AskFields /\ y.at = p /\ y.wire = x.wire
        /\ y.mode = x.mode /\ y.run = x.run /\ y.found = x.found /\ y.context = x.context
        /\ y.invoked = x.invoked /\ y.stored = x.stored /\ y.item = x.item /\ y.result = x.result
    BY <1>1 DEF SoundAsk, AskFields
  <1> HIDE DEF y
  <1>6. SoundAsk(y)
    BY <1>1, <1>2, <1>5 DEF SoundAsk
  <1> QED
    BY <1>1, <1>2, <1>3, <1>4, <1>5, <1>6, GoesOn DEF x

LEMMA StartKeeps ==
    ASSUME DirectInv, NEW q \in Askers, Start(q) \/ Recorded(q) \/ LastAsked(q) \/ FinalResumed(q) \/ Final(q)
    PROVE  DirectInv'
  <1>1. CASE MarkCancelled(q, ask[q])
    <2>1. ask[q].at \in Working \ {"prune", "last"}
      BY DEF Start, Recorded, LastAsked, FinalResumed, Final, Working, Looping
    <2> QED
      BY <1>1, <2>1, MarkCancelledKeeps
  <1>2. CASE ~MarkCancelled(q, ask[q])
    <2> DEFINE x == ask[q]
               p == CASE x.at = "start" -> "graph" [] x.at = "asked" -> "commit"
                      [] x.at = "final" -> IF x.mode \in Resumes THEN OutcomeResumed(x) ELSE Outcome(x)
                      [] OTHER -> "item"
    <2>1. x.at \in {"start", "recorded", "asked", "final"} /\ run' = run
      BY <1>2 DEF Start, Recorded, LastAsked, FinalResumed, Final
    <2>2. ask' = [ask EXCEPT ![q] = [x EXCEPT !.at = p]]
      BY <1>2 DEF Start, Recorded, LastAsked, FinalResumed, Final, To
    <2>3. p \in {"graph", "commit", "pause", "answer", "item"}
      BY <2>1 DEF Outcome, OutcomeResumed
    <2>5. p = "item" => x.at = "recorded"
      BY <2>1 DEF Outcome, OutcomeResumed
    <2>4. p = "answer" => x.found # "none"
      BY <1>2, <2>1 DEF Outcome, OutcomeResumed, Start, Recorded, LastAsked, FinalResumed, Final, Unfinished
    <2> HIDE DEF p
    <2> QED
      BY <2>1, <2>2, <2>3, <2>4, <2>5, Moves DEF Working, Looping
  <1> QED
    BY <1>1, <1>2

\* The graph emits an item, or hands over its result at once.
LEMMA GraphItemKeeps ==
    ASSUME DirectInv, NEW q \in Askers, GraphItem(q) PROVE DirectInv'
  <1> DEFINE x == ask[q]
  <1>1. SoundAsk(x) /\ x.at = "graph" /\ x.mode \in Streams /\ x.stored = 0 /\ x.at \in Working
    BY DEF DirectInv, SoundAsk, GraphItem, Working, Looping
  <1>2. Calm(run, run')
    BY CalmSame DEF DirectInv, GraphItem
  <1>3. PICK e \in EmitsResumed(x) :
          LET y == [x EXCEPT !.item = e.item, !.found = e.found, !.result = e.result]
          IN  ask' = [ask EXCEPT ![q] = IF Records(x, e.item, e.found)
                                        THEN [Say(y, <<"retrieval">>) EXCEPT !.context = e.found, !.at = "recorded"]
                                        ELSE [y EXCEPT !.at = "item"]]
    BY DEF GraphItem, EmitsResumed, To
  <1>4. /\ e.found = x.found \/ (e.item # "delta" /\ x.found = "none" /\ e.found \in Contexts)
        /\ e.item = "delta" => e.result = "none"
    <2> HIDE DEF x
    <2> DEFINE news == IF x.found = "none" THEN Contexts ELSE {x.found}
               last == IF x.found = "none" THEN Contexts \cup {"none"} ELSE {x.found}
               ends == {"reply"} \cup (IF MayPause(x) THEN {"interrupt"} ELSE {})
    <2>0. \A g : /\ g \in news => g = x.found \/ (x.found = "none" /\ g \in Contexts)
                 /\ g \in last => g = x.found \/ (x.found = "none" /\ g \in Contexts)
      <3>1. CASE x.found = "none"
        BY <3>1
      <3>2. CASE x.found # "none"
        BY <3>2
      <3> QED
        BY <3>1, <3>2
    <2>1. ASSUME NEW f \in Emits(x)
          PROVE  /\ f.found = x.found \/ (f.item # "delta" /\ x.found = "none" /\ f.found \in Contexts)
                 /\ f.item = "delta" => f.result = "none"
                 /\ [f EXCEPT !.result = "bare"].found = f.found /\ [f EXCEPT !.result = "bare"].item = f.item
      <3> HIDE DEF news, last, ends
      <3>1. CASE f \in [item : {"update"}, found : news, result : {"none"}]
        BY <2>0, <3>1
      <3>2. CASE f \in [item : {"delta"}, found : {x.found}, result : {"none"}]
        BY <3>2
      <3>3. CASE f \in [item : {"result"}, found : last, result : ends]
        BY <2>0, <3>3
      <3> QED
        BY <3>1, <3>2, <3>3 DEF Emits, news, last, ends
    <2>2. e \in Emits(x) \/ \E f \in Emits(x) : f.result = "reply" /\ e = [f EXCEPT !.result = "bare"]
      BY DEF EmitsResumed
    <2> QED
      BY <2>1, <2>2
  <1> DEFINE y == [x EXCEPT !.item = e.item, !.found = e.found, !.result = e.result]
  <1>5. /\ DOMAIN y = AskFields /\ y.at = x.at /\ y.mode = x.mode /\ y.run = x.run /\ y.found = e.found
        /\ y.context = x.context /\ y.invoked = x.invoked /\ y.item = e.item /\ y.stored = x.stored /\ y.wire = x.wire
        /\ y.result = e.result
    BY <1>1 DEF SoundAsk, AskFields
  <1>6. CASE Records(x, e.item, e.found)
    <2> DEFINE z == Say(y, <<"retrieval">>)
               v == [z EXCEPT !.context = e.found, !.at = "recorded"]
    <2>1. ask' = [ask EXCEPT ![q] = v]
      BY <1>3, <1>6
    <2>2. x.context = "none" /\ e.found # "none" /\ ~Has(x.wire, "retrieval")
      BY <1>1, <1>6 DEF Records, SoundAsk
    <2> HIDE DEF x, y
    <2>3. SameButWire(z, y) /\ z.wire = x.wire \o <<"retrieval">>
      BY <1>1, <1>5, SayChanges
    <2> HIDE DEF z
    <2>4. /\ DOMAIN v = AskFields /\ v.at = "recorded" /\ v.mode = x.mode /\ v.run = x.run /\ v.found = e.found
          /\ v.context = e.found /\ v.invoked = x.invoked /\ v.stored = x.stored /\ v.wire = z.wire
          /\ v.item = e.item /\ v.result = e.result
      BY <1>5, <2>3 DEF SameButWire, AskFields
    <2> HIDE DEF v
    <2> DEFINE w == x.wire
               m == x.mode
               f == "retrieval"
    <2>5. w \in Seq(Frames) /\ InOrder(w, m) /\ Open(w) /\ f \in Frames /\ ~Has(w, f) /\ f # "delta" /\ f \notin Ends
      BY <1>1, <2>2 DEF SoundAsk, Frames, Ends
    <2>6. v.wire = w \o <<f>>
      BY <2>3, <2>4
    <2> HIDE DEF w, m
    <2>7. /\ w \o <<f>> \in Seq(Frames) /\ InOrder(w \o <<f>>, m)
          /\ \A g : Has(w \o <<f>>, g) <=> Has(w, g) \/ g = f
          /\ Last(w \o <<f>>) = f /\ Open(w \o <<f>>)
      BY <2>5, Extended
    <2>8. /\ v.wire \in Seq(Frames) /\ InOrder(v.wire, v.mode) /\ Open(v.wire) /\ Last(v.wire) = "retrieval"
          /\ Has(v.wire, "retrieval") /\ (Has(v.wire, "invoked") <=> Has(x.wire, "invoked"))
      BY <2>4, <2>6, <2>7 DEF w, m
    <2>9. SoundAsk(v)
      BY <1>1, <1>4, <2>2, <2>4, <2>8 DEF SoundAsk
    <2> QED
      BY <1>1, <1>2, <2>1, <2>4, <2>9, GoesOn DEF x
  <1>7. CASE ~Records(x, e.item, e.found)
    <2> DEFINE v == [y EXCEPT !.at = "item"]
    <2>1. ask' = [ask EXCEPT ![q] = v]
      BY <1>3, <1>7
    <2>2. e.found = x.context
      BY <1>1, <1>4, <1>7 DEF Records, SoundAsk, Contexts
    <2> HIDE DEF x, y
    <2>3. /\ DOMAIN v = AskFields /\ v.at = "item" /\ v.mode = x.mode /\ v.run = x.run /\ v.found = e.found
          /\ v.context = x.context /\ v.invoked = x.invoked /\ v.stored = x.stored /\ v.wire = x.wire
          /\ v.item = e.item /\ v.result = e.result
      BY <1>5 DEF AskFields
    <2> HIDE DEF v
    <2>4. SoundAsk(v)
      BY <1>1, <1>4, <2>2, <2>3 DEF SoundAsk
    <2> QED
      BY <1>1, <1>2, <2>1, <2>3, <2>4, GoesOn DEF x
  <1> QED
    BY <1>6, <1>7

LEMMA GraphResultKeeps ==
    ASSUME DirectInv, NEW q \in Askers, GraphResult(q) PROVE DirectInv'
  <1> DEFINE x == ask[q]
  <1>1. SoundAsk(x) /\ x.at = "graph" /\ x.mode \notin Streams /\ x.stored = 0 /\ x.at \in Working
    BY DEF DirectInv, SoundAsk, GraphResult, Working, Looping
  <1>2. Calm(run, run')
    BY CalmSame DEF DirectInv, GraphResult
  <1>3. PICK e \in Collects(x) :
          ask' = [ask EXCEPT ![q] = [x EXCEPT !.found = e.found, !.context = e.found, !.result = e.result, !.at = "final"]]
    BY DEF GraphResult, To
  <1> DEFINE v == [x EXCEPT !.found = e.found, !.context = e.found, !.result = e.result, !.at = "final"]
  <1>4. /\ DOMAIN v = AskFields /\ v.at = "final" /\ v.mode = x.mode /\ v.run = x.run /\ v.invoked = x.invoked
        /\ v.stored = x.stored /\ v.wire = x.wire
    BY <1>1 DEF SoundAsk, AskFields
  <1> HIDE DEF v, x
  <1>5. SoundAsk(v)
    BY <1>1, <1>4 DEF SoundAsk
  <1> QED
    BY <1>1, <1>2, <1>3, <1>4, <1>5, GoesOn DEF x, v

\* The item makes the stream announce that the graph was invoked, or does not.
LEMMA ItemInvokesKeeps ==
    ASSUME DirectInv, NEW q \in Askers, ItemInvokes(q) PROVE DirectInv'
  <1> DEFINE x == ask[q]
  <1>1. SoundAsk(x) /\ x.at = "item" /\ x.stored = 0 /\ x.at \in Working /\ x.at \notin {"paused", "done"} /\ ~Premature(x)
    BY DEF DirectInv, SoundAsk, ItemInvokes, Working, Looping
  <1>2. Calm(run, run')
    BY CalmSame DEF DirectInv, ItemInvokes
  <1>3. PICK memories \in BOOLEAN :
          ask' = [ask EXCEPT ![q] = IF Invokes(x, memories)
                                    THEN [Say(x, <<"invoked">>) EXCEPT !.invoked = TRUE, !.at = "deliver"]
                                    ELSE [x EXCEPT !.at = "deliver"]]
    BY DEF ItemInvokes, To
  <1>4. CASE Invokes(x, memories)
    <2> DEFINE f == "invoked"
               z == Say(x, <<f>>)
               v == [z EXCEPT !.invoked = TRUE, !.at = "deliver"]
    <2>1. ask' = [ask EXCEPT ![q] = v] /\ z = Say(x, <<f>>)
      BY <1>3, <1>4
    <2>2. ~x.invoked /\ x.context # "none" /\ (~Has(x.wire, f) \/ x.mode \notin Streams) /\ f \in Frames
          /\ f # "delta" /\ f \notin Ends
      BY <1>1, <1>4 DEF Invokes, SoundAsk, Frames, Ends
    <2> HIDE DEF x, z
    <2>3. /\ SameButWire(z, x) /\ DOMAIN z = AskFields
          /\ z.wire \in Seq(Frames) /\ InOrder(z.wire, z.mode)
          /\ z.mode \notin Streams => z.wire = << >>
          /\ f \notin Ends => Open(z.wire)
          /\ z.wire # << >> => Last(z.wire) = f
          /\ z.mode \in Streams => \A g : Has(z.wire, g) <=> Has(x.wire, g) \/ g = f
      BY <1>1, <2>1, <2>2, SaysOne
    <2>4. /\ DOMAIN v = AskFields /\ v.at = "deliver" /\ v.mode = z.mode /\ v.run = x.run /\ v.found = x.found
          /\ v.context = x.context /\ v.invoked = TRUE /\ v.item = x.item /\ v.stored = x.stored /\ v.wire = z.wire
      BY <2>3 DEF SameButWire, AskFields
    <2> HIDE DEF v
    <2>5. /\ v.mode \in Streams => (Has(v.wire, "retrieval") <=> Has(x.wire, "retrieval")) /\ Has(v.wire, "invoked")
          /\ v.mode = x.mode
      BY <2>3, <2>4 DEF SameButWire
    <2>6. SoundAsk(v)
      BY <1>1, <2>2, <2>3, <2>4, <2>5 DEF SoundAsk
    <2> QED
      BY <1>1, <1>2, <2>1, <2>4, <2>6, GoesOn DEF x
  <1>5. CASE ~Invokes(x, memories)
    <2> DEFINE v == [x EXCEPT !.at = "deliver"]
    <2>1. ask' = [ask EXCEPT ![q] = v]
      BY <1>3, <1>5
    <2> HIDE DEF x
    <2>2. ASSUME x.item = "delta", x.mode # "resume" PROVE x.context # "none" /\ x.invoked
      <3>1. x.context # "none"
        BY <1>1, <2>2 DEF Premature, SoundAsk
      <3>2. ~(x.context # "none" /\ ~x.invoked)
        BY <1>3, <1>5, <2>2 DEF Invokes
      <3> QED
        BY <1>1, <3>1, <3>2 DEF SoundAsk
    <2>3. /\ DOMAIN v = AskFields /\ v.at = "deliver" /\ v.mode = x.mode /\ v.run = x.run /\ v.found = x.found
          /\ v.context = x.context /\ v.invoked = x.invoked /\ v.item = x.item /\ v.stored = x.stored /\ v.wire = x.wire
      BY <1>1 DEF SoundAsk, AskFields
    <2> HIDE DEF v
    <2>4. SoundAsk(v)
      BY <1>1, <2>2, <2>3 DEF SoundAsk
    <2> QED
      BY <1>1, <1>2, <2>1, <2>3, <2>4, GoesOn DEF x
  <1> QED
    BY <1>4, <1>5

\* What a request has become after it said a frame of the answer, or none.
LEMMA SaidSound ==
    ASSUME NEW x, SoundAsk(x), x.at \in Working \ {"prune", "last"}, NEW f \in {"none", "invoked", "delta", "interrupted"},
           f = "invoked" => ~x.invoked,
           f = "delta" /\ x.mode \in Streams \ {"resume"} => x.context # "none" /\ x.invoked,
           NEW z, z = Say(x, IF f = "none" THEN << >> ELSE <<f>>),
           NEW v, DOMAIN v = AskFields, v.mode = z.mode, v.wire = z.wire, v.found = x.found, v.context = x.context,
           v.stored = x.stored, v.invoked \in BOOLEAN, v.invoked <=> x.invoked \/ f = "invoked",
           v.at \in {"graph", "fallback", "asked", "commit", "paused"}, f = "interrupted" => v.at = "paused",
           v.at = "fallback" => x.found # "none" /\ v.invoked
    PROVE  SoundAsk(v)
  <1>1. x.at \notin {"paused", "done"} /\ x.stored = 0 /\ v.stored = 0 /\ x.wire \in Seq(Frames)
    BY DEF SoundAsk, Working, Looping
  <1>2. CASE f = "none"
    <2>1. z = Say(x, << >>)
      BY <1>2
    <2>2. SameButWire(z, x) /\ z.wire = x.wire
      BY <2>1, SaysNone
    <2>3. v.mode = x.mode /\ v.wire = x.wire /\ (v.invoked <=> x.invoked)
      BY <1>2, <2>2 DEF SameButWire
    <2> QED
      BY <1>1, <2>3 DEF SoundAsk
  <1>3. CASE f # "none"
    <2>1. z = Say(x, <<f>>) /\ f \in Frames /\ f # "retrieval" /\ f # "composed"
      BY <1>3 DEF Frames, Ends
    <2>2. f \in {"retrieval", "invoked"} => ~Has(x.wire, f) \/ x.mode \notin Streams
      BY <1>1, <2>1 DEF SoundAsk, Working, Looping
    <2>3. /\ SameButWire(z, x) /\ DOMAIN z = AskFields
          /\ z.wire \in Seq(Frames) /\ InOrder(z.wire, z.mode)
          /\ z.mode \notin Streams => z.wire = << >>
          /\ f \notin Ends => Open(z.wire)
          /\ z.wire # << >> => Last(z.wire) = f
          /\ z.mode \in Streams => \A g : Has(z.wire, g) <=> Has(x.wire, g) \/ g = f
      BY <1>1, <2>1, <2>2, SaysOne
    <2>4. /\ v.mode = x.mode /\ v.wire \in Seq(Frames) /\ InOrder(v.wire, v.mode)
          /\ v.mode \notin Streams => v.wire = << >>
          /\ f \notin Ends => Open(v.wire)
          /\ v.wire # << >> => Last(v.wire) = f
          /\ v.mode \in Streams => /\ Has(v.wire, "retrieval") <=> Has(x.wire, "retrieval")
                                   /\ Has(v.wire, "invoked") <=> Has(x.wire, "invoked") \/ f = "invoked"
      BY <2>1, <2>3 DEF SameButWire
    <2>5. f \in Ends => v.at = "paused"
      BY DEF Ends
    <2>6. f # "completed" /\ f # "cancelled"
      OBVIOUS
    <2> QED
      BY <1>1, <2>4, <2>5, <2>6 DEF SoundAsk
  <1> QED
    BY <1>2, <1>3

LEMMA DeliverKeeps ==
    ASSUME DirectInv, NEW q \in Askers, Deliver(q) PROVE DirectInv'
  <1> DEFINE x == ask[q]
  <1>1. SoundAsk(x) /\ x.at = "deliver" /\ x.stored = 0 /\ x.at \in Working \ {"prune", "last"}
    BY DEF DirectInv, SoundAsk, Deliver, Working, Looping
  <1>2. CASE MarkCancelled(q, x)
    BY <1>1, <1>2, MarkCancelledKeeps
  <1>3. CASE x.item = "delta" /\ ~MarkCancelled(q, x)
    <2> DEFINE f == "delta"
               z == Say(x, <<f>>)
               n == z.deltas + 1
               v == [z EXCEPT !.deltas = n, !.at = "graph"]
    <2>1. ask' = [ask EXCEPT ![q] = v] /\ run' = run
      BY <1>3 DEF Deliver, To
    <2>2. Calm(run, run')
      BY <2>1, CalmSame DEF DirectInv
    <2>3. x.mode \in Streams \ {"resume"} => x.context # "none" /\ x.invoked
      BY <1>1, <1>3 DEF SoundAsk, Streams
    <2>4. z = Say(x, IF f = "none" THEN << >> ELSE <<f>>)
      OBVIOUS
    <2> HIDE DEF x, n
    <2>5. SameButWire(z, x) /\ DOMAIN z = AskFields
      BY <1>1, SayChanges DEF SoundAsk, SameButWire
    <2> HIDE DEF z
    <2>6. /\ DOMAIN v = AskFields /\ v.at = "graph" /\ v.mode = z.mode /\ v.run = x.run /\ v.found = x.found
          /\ v.context = x.context /\ v.invoked = x.invoked /\ v.stored = x.stored /\ v.wire = z.wire
      BY <2>5 DEF SameButWire, AskFields
    <2> HIDE DEF v
    <2>7. f \in {"none", "invoked", "delta", "interrupted"} /\ f # "invoked" /\ f # "interrupted" /\ v.invoked \in BOOLEAN
      BY <1>1, <2>6 DEF SoundAsk
    <2>8. SoundAsk(v)
      BY <1>1, <2>3, <2>4, <2>6, <2>7, SaidSound
    <2> QED
      BY <1>1, <2>1, <2>2, <2>6, <2>8, GoesOn DEF x
  <1>4. CASE x.item # "delta" /\ ~MarkCancelled(q, x)
    <2> DEFINE p == IF x.item = "result" THEN "final" ELSE "graph"
    <2>1. ask' = [ask EXCEPT ![q] = [ask[q] EXCEPT !.at = p]] /\ run' = run
      BY <1>4 DEF Deliver, To
    <2>2. p \in {"final", "graph"}
      OBVIOUS
    <2> HIDE DEF p
    <2> QED
      BY <1>1, <2>1, <2>2, Moves DEF Working, Looping
  <1> QED
    BY <1>2, <1>3, <1>4

\* The answer is announced, and streamed if nothing of it was.
LEMMA AnswerKeeps ==
    ASSUME DirectInv, NEW q \in Askers, Answer(q) PROVE DirectInv'
  <1> DEFINE x == ask[q]
             f == IF x.invoked THEN "none" ELSE "invoked"
             z == Say(x, IF f = "none" THEN << >> ELSE <<f>>)
             v == [z EXCEPT !.invoked = TRUE, !.at = "fallback"]
  <1>1. SoundAsk(x) /\ x.at = "answer" /\ x.stored = 0 /\ x.at \in Working \ {"prune", "last"} /\ x.found # "none"
    BY DEF DirectInv, SoundAsk, Answer, Working, Looping
  <1>2. ask' = [ask EXCEPT ![q] = v] /\ run' = run
    BY DEF Answer, To
  <1>3. Calm(run, run')
    BY <1>2, CalmSame DEF DirectInv
  <1>4. f \in {"none", "invoked", "delta", "interrupted"} /\ (f = "invoked" <=> ~x.invoked) /\ f # "delta" /\ f # "interrupted"
    OBVIOUS
  <1> HIDE DEF x, f
  <1>5. SameButWire(z, x) /\ DOMAIN z = AskFields
    BY <1>1, SayChanges DEF SoundAsk, SameButWire
  <1>6. z = Say(x, IF f = "none" THEN << >> ELSE <<f>>)
    OBVIOUS
  <1> HIDE DEF z
  <1>7. /\ DOMAIN v = AskFields /\ v.at = "fallback" /\ v.mode = z.mode /\ v.run = x.run /\ v.found = x.found
        /\ v.context = x.context /\ v.invoked = TRUE /\ v.stored = x.stored /\ v.wire = z.wire
    BY <1>5 DEF SameButWire, AskFields
  <1> HIDE DEF v
  <1>8. SoundAsk(v)
    BY <1>1, <1>4, <1>6, <1>7, SaidSound
  <1> QED
    BY <1>1, <1>2, <1>3, <1>7, <1>8, GoesOn DEF x

LEMMA FallbackKeeps ==
    ASSUME DirectInv, NEW q \in Askers, Fallback(q) PROVE DirectInv'
  <1> DEFINE x == ask[q]
  <1>1. SoundAsk(x) /\ x.at = "fallback" /\ x.stored = 0 /\ x.at \in Working \ {"prune", "last"} /\ x.invoked
        /\ x.found # "none" /\ (x.mode \in Streams => x.context # "none")
    BY DEF DirectInv, SoundAsk, Fallback, Working, Looping
  <1>2. CASE MarkCancelled(q, x)
    BY <1>1, <1>2, MarkCancelledKeeps
  <1>3. CASE ~MarkCancelled(q, x)
    <2> DEFINE f == IF x.deltas = 0 THEN "delta" ELSE "none"
               z == Say(x, IF f = "none" THEN << >> ELSE <<f>>)
               p == IF x.mode \in {"replay", "syncresume"} THEN "commit" ELSE "asked"
               v == [z EXCEPT !.at = p]
    <2>0. (IF x.deltas = 0 THEN <<"delta">> ELSE << >>) = IF f = "none" THEN << >> ELSE <<f>>
      BY Zenon
    <2>1. ask' = [ask EXCEPT ![q] = v] /\ run' = run
      BY <1>3, <2>0, Zenon DEF Fallback, To
    <2>2. Calm(run, run')
      BY <2>1, CalmSame DEF DirectInv
    <2>3. f \in {"none", "invoked", "delta", "interrupted"} /\ f # "invoked" /\ f # "interrupted" /\ p \in {"commit", "asked"}
      OBVIOUS
    <2> HIDE DEF x, f, p
    <2>4. SameButWire(z, x) /\ DOMAIN z = AskFields
      <3> HIDE DEF z
      <3> DEFINE frames == IF f = "none" THEN << >> ELSE <<f>>
      <3>1. z = Say(x, frames)
        BY Zenon DEF z
      <3> HIDE DEF frames
      <3> QED
        BY <1>1, <3>1, SayChanges, ZenonT(60) DEF SoundAsk, SameButWire
    <2>5. z = Say(x, IF f = "none" THEN << >> ELSE <<f>>)
      OBVIOUS
    <2> HIDE DEF z
    <2>6. /\ DOMAIN v = AskFields /\ v.at = p /\ v.mode = z.mode /\ v.run = x.run /\ v.found = x.found
          /\ v.context = x.context /\ v.invoked = x.invoked /\ v.stored = x.stored /\ v.wire = z.wire
      BY <2>4 DEF SameButWire, AskFields
    <2> HIDE DEF v
    <2>7. SoundAsk(v)
      <3>1. /\ v.invoked \in BOOLEAN /\ (v.invoked <=> x.invoked \/ f = "invoked")
            /\ v.at \in {"graph", "fallback", "asked", "commit", "paused"} /\ v.at # "fallback"
        BY <1>1, <2>3, <2>6 DEF SoundAsk
      <3>2. x.mode \in Streams \ {"resume"} => x.context # "none" /\ x.invoked
        BY <1>1
      <3> QED
        BY <1>1, <2>3, <2>5, <2>6, <3>1, <3>2, SaidSound
    <2> QED
      BY <1>1, <2>1, <2>2, <2>6, <2>7, GoesOn DEF x
  <1> QED
    BY <1>2, <1>3

\* The run waits, and the request that paused it is no longer busy.
LEMMA PauseKeeps ==
    ASSUME DirectInv, NEW q \in Askers, Pause(q) PROVE DirectInv'
  <1> DEFINE x == ask[q]
             r == x.run
  <1>1. SoundAsk(x) /\ x.at = "pause" /\ x.stored = 0 /\ x.at \in Working \ {"prune", "last"} /\ Busy(x)
        /\ r \in DOMAIN run /\ RowsOK(run)
    BY DEF DirectInv, SoundAsk, Pause, Working, Looping, Busy, Linked
  <1>2. \A p \in Askers \ {q} : Busy(ask[p]) => ask[p].run # r
    BY <1>1 DEF DirectInv
  <1>3. /\ RowsOK(run') /\ DOMAIN run' = DOMAIN run
        /\ \A o \in DOMAIN run \ {r} : run'[o] = run[o]
    <2> DEFINE n == run[r].pauses + 1
               e == IF run[r].expiry = "none" THEN "set" ELSE run[r].expiry
               l == run[r].late \/ ~IsActive(r)
               row == [run[r] EXCEPT !.status = "waiting", !.pauses = n, !.expiry = e, !.late = l]
    <2>1. run' = [run EXCEPT ![r] = row] /\ l \in BOOLEAN
      BY DEF Pause
    <2> HIDE DEF n, e, l, r
    <2>2. DOMAIN row = RunFields /\ row.late \in BOOLEAN
      BY <1>1, <2>1 DEF RowsOK, RunFields
    <2> HIDE DEF row
    <2> QED
      BY <1>1, <2>1, <2>2, WrittenRow
  <1>4. PICK y : ask' = [ask EXCEPT ![q] = y] /\ SoundAsk(y) /\ y.run = r /\ y.stored = 0 /\ y.at \in {"paused", "done"}
    <2>1. CASE x.mode \in Streams
      <3> DEFINE f == "interrupted"
                 z == Say(x, <<f>>)
                 v == [z EXCEPT !.at = "paused"]
      <3>1. ask' = [ask EXCEPT ![q] = v]
        BY <2>1 DEF Pause, To
      <3>2. z = Say(x, IF f = "none" THEN << >> ELSE <<f>>)
        OBVIOUS
      <3>0. r = x.run
        OBVIOUS
      <3> HIDE DEF x, r
      <3>3. SameButWire(z, x) /\ DOMAIN z = AskFields
        BY <1>1, SayChanges DEF SoundAsk, SameButWire
      <3> HIDE DEF z
      <3>4. /\ DOMAIN v = AskFields /\ v.at = "paused" /\ v.mode = z.mode /\ v.run = x.run /\ v.found = x.found
            /\ v.context = x.context /\ v.invoked = x.invoked /\ v.stored = x.stored /\ v.wire = z.wire
        BY <3>3 DEF SameButWire, AskFields
      <3> HIDE DEF v
      <3>5. f \in {"none", "invoked", "delta", "interrupted"} /\ f # "invoked" /\ f # "delta" /\ v.invoked \in BOOLEAN
        BY <1>1, <3>4 DEF SoundAsk
      <3>6. SoundAsk(v)
        BY <1>1, <3>2, <3>4, <3>5, SaidSound
      <3> QED
        BY <1>1, <3>0, <3>1, <3>4, <3>6
    <2>2. CASE x.mode \notin Streams
      <3> DEFINE y == [NoAsk EXCEPT !.at = "done", !.mode = x.mode, !.run = x.run, !.stored = x.stored, !.wire = x.wire]
      <3>1. ask' = [ask EXCEPT ![q] = y] /\ r = x.run
        BY <2>2 DEF Pause, End, To
      <3> HIDE DEF x, r
      <3>2. /\ DOMAIN y = AskFields /\ y.at = "done" /\ y.mode = x.mode /\ y.run = x.run /\ y.stored = x.stored
            /\ y.wire = x.wire /\ y.invoked = FALSE /\ y.found = "none" /\ y.context = "none"
        BY DEF NoAsk, AskFields
      <3> HIDE DEF y
      <3>3. SoundAsk(y)
        BY <1>1, <2>2, <3>2 DEF SoundAsk
      <3> QED
        BY <1>1, <3>1, <3>2, <3>3
    <2> QED
      BY <2>1, <2>2
  <1>5. DOMAIN ask' = Askers /\ ask'[q] = y /\ \A p \in Askers \ {q} : ask'[p] = ask[p]
    BY <1>4 DEF DirectInv
  <1> HIDE DEF x, r
  <1>6. ~Busy(y)
    BY <1>4 DEF Busy, Working, Looping
  <1>7. Linked(y, run')
    BY <1>1, <1>3, <1>4, <1>6 DEF Linked, Owed
  <1>8. ASSUME NEW p \in Askers \ {q} PROVE Linked(ask[p], run')
    <2>1. Linked(ask[p], run) /\ (Busy(ask[p]) => ask[p].run # r)
      BY <1>2 DEF DirectInv
    <2>2. Busy(ask[p]) => run'[ask[p].run] = run[ask[p].run]
      BY <1>3, <2>1 DEF Linked
    <2>3. Owed(ask[p], run')
      BY <2>1, <2>2 DEF Linked, Owed, Busy
    <2> QED
      BY <1>3, <2>1, <2>2, <2>3 DEF Linked
  <1>9. \A p \in Askers : SoundAsk(ask'[p]) /\ Linked(ask'[p], run')
    BY <1>4, <1>5, <1>7, <1>8 DEF DirectInv
  <1>10. \A p, o \in Askers : Busy(ask'[p]) /\ Busy(ask'[o]) /\ ask'[p].run = ask'[o].run => p = o
    BY <1>5, <1>6 DEF DirectInv
  <1> QED
    BY <1>3, <1>5, <1>9, <1>10 DEF DirectInv

\* What a request says when its answer is stored.
LEMMA SaysStored ==
    ASSUME NEW x, SoundAsk(x), x.at = "commit",
           NEW z, z = Say(x, <<"composed">> \o IF StreamsStored(x) THEN <<"delta">> ELSE << >>)
    PROVE  /\ SameButWire(z, x) /\ DOMAIN z = AskFields
           /\ z.wire \in Seq(Frames) /\ InOrder(z.wire, z.mode) /\ Open(z.wire)
           /\ z.mode \notin Streams => z.wire = << >>
           /\ z.wire # << >> => Last(z.wire) \in {"composed", "delta"}
           /\ z.mode \in Streams => \A g \in {"retrieval", "invoked"} : Has(z.wire, g) <=> Has(x.wire, g)
  <1>1. /\ "composed" \in Frames \ Ends /\ "composed" \notin {"retrieval", "invoked", "delta"}
        /\ "delta" \in Frames \ Ends /\ "delta" \notin {"retrieval", "invoked"}
    BY DEF Frames, Ends
  <1>2. DOMAIN x = AskFields /\ x.wire \in Seq(Frames)
    BY DEF SoundAsk
  <1>3. CASE ~StreamsStored(x)
    <2>1. z = Say(x, <<"composed">>)
      BY <1>3
    <2>2. x.at \notin {"paused", "done"}
      OBVIOUS
    <2>3. /\ SameButWire(z, x) /\ DOMAIN z = AskFields
          /\ z.wire \in Seq(Frames) /\ InOrder(z.wire, z.mode)
          /\ z.mode \notin Streams => z.wire = << >>
          /\ "composed" \notin Ends => Open(z.wire)
          /\ z.wire # << >> => Last(z.wire) = "composed"
          /\ z.mode \in Streams => \A g : Has(z.wire, g) <=> Has(x.wire, g) \/ g = "composed"
      BY <1>1, <2>1, <2>2, SaysOne
    <2> QED
      BY <1>1, <2>3
  <1>4. CASE StreamsStored(x)
    <2>1. x.mode = "resume" /\ x.mode \in Streams
      BY <1>4 DEF StreamsStored, Streams
    <2> DEFINE w == x.wire
               u == w \o <<"composed">>
               v == u \o <<"delta">>
    <2>2. SameButWire(z, x) /\ z.mode = x.mode /\ z.wire = w \o (<<"composed">> \o <<"delta">>)
      BY <1>2, <1>4, <2>1, SayChanges DEF SameButWire
    <2>3. w \o (<<"composed">> \o <<"delta">>) = v
      BY <1>1, <1>2
    <2>4. w \in Seq(Frames) /\ InOrder(w, "resume") /\ Open(w)
      BY <2>1 DEF SoundAsk
    <2> HIDE DEF w
    <2>5. /\ u \in Seq(Frames) /\ InOrder(u, "resume") /\ Open(u)
          /\ \A g : Has(u, g) <=> Has(w, g) \/ g = "composed"
      BY <1>1, <2>4, Extended
    <2> HIDE DEF u
    <2>6. /\ v \in Seq(Frames) /\ InOrder(v, "resume") /\ Open(v) /\ Last(v) = "delta"
          /\ \A g : Has(v, g) <=> Has(u, g) \/ g = "delta"
      BY <1>1, <2>5, Extended
    <2> HIDE DEF v
    <2>7. z.wire = v /\ x.wire = w /\ DOMAIN z = AskFields
      BY <1>2, <2>2, <2>3 DEF w, SameButWire
    <2> QED
      BY <1>1, <2>1, <2>2, <2>5, <2>6, <2>7
  <1> QED
    BY <1>3, <1>4

\* The answer is stored.
LEMMA CommitKeeps ==
    ASSUME DirectInv, NEW q \in Askers, Commit(q) PROVE DirectInv'
  <1> DEFINE x == ask[q]
             r == x.run
             p == IF x.mode \in Replays THEN "prune" ELSE "last"
             frames == <<"composed">> \o IF StreamsStored(x) THEN <<"delta">> ELSE << >>
             z == Say(x, frames)
             v == [z EXCEPT !.stored = 1, !.at = p]
  <1>1. SoundAsk(x) /\ x.at = "commit" /\ x.stored = 0 /\ x.at \in Working /\ Busy(x) /\ x.at \notin {"paused", "done"}
        /\ r \in DOMAIN run /\ RowsOK(run) /\ p \in {"prune", "last"} /\ r = x.run
    BY DEF DirectInv, SoundAsk, Commit, Working, Looping, Busy, Linked
  <1>2. ask' = [ask EXCEPT ![q] = v]
    BY DEF Commit, To
  <1>3. Calm(run, run') /\ run'[r].status = "completed"
    <2> DEFINE late == run[r].late \/ ~IsActive(r)
               row == [run[r] EXCEPT !.status = "completed", !.expiry = "none", !.late = late]
    <2>1. run' = [run EXCEPT ![r] = row]
      BY DEF Commit
    <2>2. late \in BOOLEAN /\ (run[r].late => late)
      OBVIOUS
    <2> HIDE DEF late, r
    <2>3. DOMAIN row = RunFields /\ row.late = late /\ row.status = "completed"
      BY <1>1 DEF RowsOK, RunFields
    <2> HIDE DEF row
    <2>4. row.status \notin ActiveRunStatuses /\ row.status # "waiting"
      BY <2>3 DEF ActiveRunStatuses
    <2>5. Calm(run, [run EXCEPT ![r] = row])
      BY <1>1, <2>2, <2>3, <2>4, CalmWrite
    <2>6. [run EXCEPT ![r] = row][r] = row
      BY <1>1, <2>2, <2>3, WrittenRow
    <2> QED
      BY <2>1, <2>3, <2>5, <2>6
  <1> HIDE DEF x, r, p
  <1>4. SoundAsk(x) /\ x.at = "commit" /\ z = Say(x, frames)
    BY <1>1
  <1> HIDE DEF z
  <1>6. /\ SameButWire(z, x) /\ DOMAIN z = AskFields
        /\ z.wire \in Seq(Frames) /\ InOrder(z.wire, z.mode) /\ Open(z.wire)
        /\ z.mode \notin Streams => z.wire = << >>
        /\ z.wire # << >> => Last(z.wire) \in {"composed", "delta"}
        /\ z.mode \in Streams => \A g \in {"retrieval", "invoked"} : Has(z.wire, g) <=> Has(x.wire, g)
    BY <1>4, SaysStored
  <1>7. /\ DOMAIN v = AskFields /\ v.at = p /\ v.mode = z.mode /\ v.run = x.run /\ v.found = x.found
        /\ v.context = x.context /\ v.invoked = x.invoked /\ v.stored = 1 /\ v.wire = z.wire
    BY <1>6 DEF SameButWire, AskFields
  <1> HIDE DEF v
  <1>8. SoundAsk(v)
    <2>1. /\ v.mode = x.mode /\ Open(v.wire) /\ (v.wire # << >> => Last(v.wire) \in {"composed", "delta"})
          /\ v.mode \in Streams => /\ Has(v.wire, "retrieval") <=> Has(x.wire, "retrieval")
                                   /\ Has(v.wire, "invoked") <=> Has(x.wire, "invoked")
      BY <1>6, <1>7 DEF SameButWire
    <2> QED
      BY <1>1, <1>6, <1>7, <2>1 DEF SoundAsk
  <1>9. Owed(v, run')
    BY <1>1, <1>3, <1>6, <1>7 DEF Owed, ActiveRunStatuses
  <1> QED
    BY <1>1, <1>2, <1>3, <1>7, <1>8, <1>9, StepKeeps DEF x

\* Messages and rows are pruned after the answer is stored.
LEMMA PruneKeeps ==
    ASSUME DirectInv, NEW q \in Askers, Prune(q) PROVE DirectInv'
  <1> DEFINE x == ask[q]
             v == [x EXCEPT !.at = "last"]
  <1>1. SoundAsk(x) /\ x.at = "prune" /\ x.stored = 1 /\ Busy(x) /\ Linked(x, run) /\ RowsOK(run)
    BY DEF DirectInv, SoundAsk, Prune, Busy
  <1>2. ask' = [ask EXCEPT ![q] = v]
    BY DEF Prune, To
  <1>3. Calm(run, run')
    <2>1. PICK n \in Nat : run = [i \in 1 .. n |-> run[i]]
      BY <1>1 DEF RowsOK
    <2> DEFINE Goes(r) == r # x.run /\ (r >= x.since \/ \E m \in Answers : m.run = r /\ m.id \in x.removed)
    <2>2. run' = [r \in DOMAIN run |-> IF Goes(r) THEN [run[r] EXCEPT !.status = "gone"] ELSE run[r]]
      BY DEF Prune, Ids
    <2> HIDE DEF Goes, x
    <2>3. DOMAIN run' = DOMAIN run /\ \A r \in DOMAIN run : run'[r] = [run[r] EXCEPT !.status = "gone"] \/ run'[r] = run[r]
      BY <2>2
    <2>4. ASSUME NEW r \in DOMAIN run
          PROVE  /\ DOMAIN run'[r] = RunFields /\ run'[r].late = run[r].late /\ run'[r].late \in BOOLEAN
                 /\ run'[r].status = "gone" \/ run'[r].status = run[r].status
      <3>1. DOMAIN run[r] = RunFields /\ run[r].late \in BOOLEAN
        BY <1>1 DEF RowsOK
      <3>2. CASE run'[r] = run[r]
        BY <3>1, <3>2
      <3>3. CASE run'[r] = [run[r] EXCEPT !.status = "gone"]
        BY <3>1, <3>3 DEF RunFields
      <3> QED
        BY <2>3, <3>2, <3>3
    <2>5. run' = [i \in 1 .. n |-> run'[i]]
      BY <2>1, <2>2
    <2>6. RowsOK(run')
      BY <1>1, <2>3, <2>4, <2>5 DEF RowsOK
    <2> QED
      BY <2>3, <2>4, <2>6 DEF Calm, ActiveRunStatuses
  <1>4. Owed(x, run')
    BY <1>1, <1>3, LinkedKept DEF Linked
  <1> HIDE DEF x
  <1>5. /\ DOMAIN v = AskFields /\ v.at = "last" /\ v.mode = x.mode /\ v.run = x.run /\ v.found = x.found
        /\ v.context = x.context /\ v.invoked = x.invoked /\ v.stored = x.stored /\ v.wire = x.wire
    BY <1>1 DEF SoundAsk, AskFields
  <1> HIDE DEF v
  <1>6. SoundAsk(v)
    BY <1>1, <1>5 DEF SoundAsk
  <1>7. Owed(v, run')
    BY <1>1, <1>4, <1>5 DEF Owed
  <1> QED
    BY <1>1, <1>2, <1>3, <1>5, <1>6, <1>7, StepKeeps DEF x

LEMMA CompleteKeeps ==
    ASSUME DirectInv, NEW q \in Askers, Complete(q) PROVE DirectInv'
  <1>1. ask[q].at = "last" /\ ask[q].stored = 1 /\ RowsOK(run) /\ run' = run
    BY DEF DirectInv, SoundAsk, Complete
  <1>2. Calm(run, run')
    BY <1>1, CalmSame
  <1>3. End(q, Say(ask[q], <<"completed">>)) /\ "completed" \in Frames
    BY DEF Complete, Frames, Ends
  <1> QED
    BY <1>1, <1>2, <1>3, SaysAndEnds

\* A request ends without another word.
LEMMA EndsSilent ==
    ASSUME DirectInv, NEW q \in Askers, NEW z, SameButWire(z, ask[q]), z.wire = ask[q].wire, End(q, z), Calm(run, run')
    PROVE  DirectInv'
  <1>1. SoundAsk(ask[q]) /\ Owed(ask[q], run')
    BY LinkedKept DEF DirectInv, Linked
  <1>2. z.run = ask[q].run /\ z.stored = ask[q].stored /\ z.mode = ask[q].mode
    BY DEF SameButWire
  <1> QED
    BY <1>1, <1>2, EndKeeps DEF SoundAsk, Owed

LEMMA CutOffKeeps ==
    ASSUME DirectInv, NEW q \in Askers, EndPaused(q) \/ Crash(q) \/ Disconnect(q) PROVE DirectInv'
  <1> DEFINE x == ask[q]
             r == x.run
  <1>1. End(q, x) /\ SameButWire(x, x) /\ RowsOK(run)
    BY DEF EndPaused, Crash, Disconnect, SameButWire, DirectInv
  <1>2. CASE run' = run
    BY <1>1, <1>2, CalmSame, EndsSilent
  <1>3. CASE run' # run
    <2>1. Disconnect(q) /\ r \in DOMAIN run
      BY <1>3 DEF EndPaused, Crash, Disconnect, DirectInv, Linked, Waiting, Busy, Working, Looping
    <2>2. PICK row \in {[run[r] EXCEPT !.status = "cancelled"], [run[r] EXCEPT !.status = "failed", !.expiry = "none"]} :
            run' = [run EXCEPT ![r] = row]
      BY <1>3, <2>1 DEF Disconnect
    <2> HIDE DEF r
    <2>3. DOMAIN row = RunFields /\ row.late = run[r].late /\ row.late \in BOOLEAN /\ row.status \in {"cancelled", "failed"}
      BY <1>1, <2>1, <2>2 DEF RowsOK, RunFields
    <2>4. row.status \notin ActiveRunStatuses /\ row.status # "waiting"
      BY <2>3 DEF ActiveRunStatuses
    <2>5. Calm(run, run')
      BY <1>1, <2>1, <2>2, <2>3, <2>4, CalmWrite
    <2> QED
      BY <1>1, <2>5, EndsSilent
  <1> QED
    BY <1>2, <1>3

LEMMA RaiseKeeps ==
    ASSUME DirectInv, NEW q \in Askers, Raise(q) PROVE DirectInv'
  <1> DEFINE x == ask[q]
             r == x.run
  <1>1. SoundAsk(x) /\ x.at \in Working /\ x.at \notin {"paused", "done"} /\ r \in DOMAIN run /\ Owed(x, run) /\ RowsOK(run)
    BY DEF DirectInv, Raise, Linked, Busy, Working, Looping
  <1>2. Calm(run, run') /\ (run[r].late => run'[r].late)
    <2>1. CASE Write(r, "failed")
      BY <1>1, <2>1, WriteCalm DEF ActiveRunStatuses
    <2>2. CASE run' = run
      BY <1>1, <2>2, CalmSame
    <2> QED
      BY <2>1, <2>2 DEF Raise
  <1>3. CASE Reports(x)
    <2>1. ASSUME x.mode = "stream", x.stored = 1 PROVE run'[r].late
      <3>1. x.at \in {"prune", "last"}
        BY <1>1, <2>1 DEF SoundAsk, Working, Looping
      <3>2. IsActive(r)
        BY <1>3, <2>1, <3>1 DEF Reports, Looping
      <3> QED
        BY <1>1, <1>2, <2>1, <3>1, <3>2 DEF Owed, IsActive
    <2>2. End(q, Say(x, <<"failed">>)) /\ "failed" \in Frames
      BY <1>3 DEF Raise, Frames, Ends
    <2> QED
      BY <1>1, <1>2, <2>1, <2>2, SaysAndEnds
  <1>4. CASE ~Reports(x)
    <2>1. End(q, Say(x, << >>))
      BY <1>4 DEF Raise
    <2>2. SameButWire(Say(x, << >>), x) /\ Say(x, << >>).wire = x.wire
      BY <1>1, SaysNone
    <2> QED
      BY <1>2, <2>1, <2>2, EndsSilent
  <1> QED
    BY <1>3, <1>4

-----------------------------------------------------------------------------
(* Admission and resumption. *)

\* A request that has learnt, stored and sent nothing.
LEMMA BeginsSound ==
    ASSUME NEW y, DOMAIN y = AskFields, y.at \in {"read", "claim", "expire", "reject", "start", "graph"}, y.found = "none",
           y.context = "none", y.invoked = FALSE, y.stored = 0, y.wire = << >>
    PROVE  SoundAsk(y)
  <1>1. /\ y.wire \in Seq(Frames) /\ Open(y.wire) /\ InOrder(y.wire, y.mode)
        /\ ~Has(y.wire, "retrieval") /\ ~Has(y.wire, "invoked")
    <2>1. DOMAIN y.wire = {} /\ y.wire \in Seq(Frames)
      OBVIOUS
    <2> QED
      BY <2>1 DEF Open, InOrder, Single, Has
  <1>2. y.invoked \in BOOLEAN /\ ~y.invoked
    BY Zenon
  <1>4. y.stored \in {0, 1} /\ y.stored # 1
    OBVIOUS
  <1>3. y.at \notin {"idle", "paused", "done", "prune", "last", "answer", "fallback", "recorded", "item", "deliver"}
    OBVIOUS
  <1> QED
    BY <1>1, <1>2, <1>3, <1>4 DEF SoundAsk

\* A request that executes nothing reads the transcript or a run that waits.
LEMMA ReadKeeps ==
    ASSUME DirectInv, NEW q \in Askers, NEW y, ask' = [ask EXCEPT ![q] = y], run' = run,
           SoundAsk(y), ~Busy(y), (y.run = 0 /\ y.at = "read") \/ y.run \in DOMAIN run
    PROVE  DirectInv'
  <1>1. DOMAIN ask' = Askers /\ ask'[q] = y /\ \A p \in Askers \ {q} : ask'[p] = ask[p]
    BY DEF DirectInv
  <1>2. Linked(y, run')
    BY DEF Linked, Waiting, Owed, Busy
  <1>3. \A p \in Askers : SoundAsk(ask'[p]) /\ Linked(ask'[p], run')
    BY <1>1, <1>2 DEF DirectInv
  <1>4. \A p, o \in Askers : Busy(ask'[p]) /\ Busy(ask'[o]) /\ ask'[p].run = ask'[o].run => p = o
    BY <1>1 DEF DirectInv
  <1> QED
    BY <1>1, <1>3, <1>4 DEF DirectInv

LEMMA ReadReplayKeeps ==
    ASSUME DirectInv, NEW q \in Askers, ReadReplay(q) PROVE DirectInv'
  <1>1. PICK mode \in Modes \cap Replays, m \in Answers : \E x \in Preceding(m) :
          ask' = [ask EXCEPT ![q] =
                    [NoAsk EXCEPT !.at = "read", !.mode = mode, !.target = x.prompt, !.removed = Suffix(m),
                     !.since = IF m.run \in Ids /\ There(m.run) THEN m.run ELSE m.after + 1]]
    BY DEF ReadReplay, To
  <1>5. PICK x \in Preceding(m) :
          ask' = [ask EXCEPT ![q] =
                    [NoAsk EXCEPT !.at = "read", !.mode = mode, !.target = x.prompt, !.removed = Suffix(m),
                     !.since = IF m.run \in Ids /\ There(m.run) THEN m.run ELSE m.after + 1]]
    BY <1>1
  <1> DEFINE target == x.prompt
             removed == Suffix(m)
             since == IF m.run \in Ids /\ There(m.run) THEN m.run ELSE m.after + 1
  <1> DEFINE y == [NoAsk EXCEPT !.at = "read", !.mode = mode, !.target = target, !.removed = removed, !.since = since]
  <1>3. ask' = [ask EXCEPT ![q] = y] /\ run' = run
    BY <1>5 DEF ReadReplay
  <1> HIDE DEF target, removed, since
  <1>2. /\ DOMAIN y = AskFields /\ y.at = "read" /\ y.mode = mode /\ y.run = 0 /\ y.found = "none"
        /\ y.context = "none" /\ y.invoked = FALSE /\ y.stored = 0 /\ y.wire = << >>
    BY DEF NoAsk, AskFields
  <1> HIDE DEF y
  <1>4. SoundAsk(y) /\ ~Busy(y)
    <2>1. ~Busy(y)
      BY <1>2 DEF Busy, Working, Looping
    <2>2. SoundAsk(y)
      BY <1>2, BeginsSound
    <2> QED
      BY <2>1, <2>2
  <1> QED
    BY <1>2, <1>3, <1>4, ReadKeeps

LEMMA ReadResumeKeeps ==
    ASSUME DirectInv, NEW q \in Askers, ReadResume(q) PROVE DirectInv'
  <1>1. PICK mode \in Modes, r \in DOMAIN run, at \in {"claim", "reject", "expire"} :
          ask' = [ask EXCEPT ![q] = [NoAsk EXCEPT !.at = at, !.mode = mode, !.run = r, !.pause = run[r].pauses]]
    BY DEF ReadResume, To, Ids
  <1> DEFINE n == run[r].pauses
             y == [NoAsk EXCEPT !.at = at, !.mode = mode, !.run = r, !.pause = n]
  <1>2. ask' = [ask EXCEPT ![q] = y] /\ run' = run
    BY <1>1 DEF ReadResume
  <1> HIDE DEF n
  <1>3. /\ DOMAIN y = AskFields /\ y.at = at /\ y.mode = mode /\ y.run = r /\ y.found = "none"
        /\ y.context = "none" /\ y.invoked = FALSE /\ y.stored = 0 /\ y.wire = << >>
    BY DEF NoAsk, AskFields
  <1> HIDE DEF y
  <1>4. ~Busy(y)
    BY <1>3 DEF Busy, Working, Looping
  <1>5. SoundAsk(y)
    BY <1>3, BeginsSound
  <1> QED
    BY <1>2, <1>3, <1>4, <1>5, ReadKeeps

\* A refused resume ends the run that it read, and itself.
LEMMA RefuseResumeKeeps ==
    ASSUME DirectInv, NEW q \in Askers, RefuseResume(q) PROVE DirectInv'
  <1> DEFINE x == ask[q]
             r == x.run
             row == [run[r] EXCEPT !.status = "cancelled", !.expiry = "none"]
  <1>1. End(q, x) /\ SameButWire(x, x) /\ RowsOK(run) /\ r \in DOMAIN run
    BY DEF RefuseResume, SameButWire, DirectInv, Linked, Waiting
  <1>2. CASE run' = run
    BY <1>1, <1>2, CalmSame, EndsSilent
  <1>3. CASE Write(r, "failed")
    BY <1>1, <1>3, WriteCalm, EndsSilent DEF ActiveRunStatuses
  <1>4. CASE run' = [run EXCEPT ![r] = row]
    <2> HIDE DEF r
    <2>1. DOMAIN row = RunFields /\ row.late = run[r].late /\ row.late \in BOOLEAN /\ row.status = "cancelled"
      BY <1>1 DEF RowsOK, RunFields
    <2> HIDE DEF row
    <2>2. row.status \notin ActiveRunStatuses /\ row.status # "waiting"
      BY <2>1 DEF ActiveRunStatuses
    <2>3. Calm(run, run')
      BY <1>1, <1>4, <2>1, <2>2, CalmWrite
    <2> QED
      BY <1>1, <2>3, EndsSilent
  <1> QED
    BY <1>2, <1>3, <1>4 DEF RefuseResume

\* Nobody is busy with a run that waits, so the request that claims it is alone.
LEMMA ClaimResumeKeeps ==
    ASSUME DirectInv, NEW q \in Askers, ClaimResume(q) PROVE DirectInv'
  <1> DEFINE x == ask[q]
             r == x.run
  <1>1. SoundAsk(x) /\ x.at = "claim" /\ x.stored = 0 /\ r \in DOMAIN run /\ RowsOK(run) /\ r = x.run
    BY DEF DirectInv, ClaimResume, Linked, Waiting, SoundAsk
  <1>2. CASE Claimable(x)
    <2> DEFINE row == [run[r] EXCEPT !.status = "running"]
               y == [x EXCEPT !.at = "graph"]
    <2>1. run' = [run EXCEPT ![r] = row] /\ ask' = [ask EXCEPT ![q] = y] /\ run[r].status = "waiting"
      BY <1>2 DEF ClaimResume, Claimable, To
    <2>2. \A p \in Askers : Busy(ask[p]) => ask[p].run # r
      BY <2>1 DEF DirectInv, Linked
    <2> HIDE DEF x, r
    <2>3. DOMAIN row = RunFields /\ row.late = run[r].late /\ row.late \in BOOLEAN /\ row.status = "running"
      BY <1>1 DEF RowsOK, RunFields
    <2> HIDE DEF row
    <2>4. Calm(run, run')
      BY <1>1, <2>1, <2>3, CalmWrite DEF ActiveRunStatuses
    <2>5. r \in DOMAIN run' /\ run'[r].status # "waiting"
      BY <1>1, <2>1, <2>3, WrittenRow
    <2>6. /\ DOMAIN y = AskFields /\ y.at = "graph" /\ y.mode = x.mode /\ y.run = x.run /\ y.found = x.found
          /\ y.context = x.context /\ y.invoked = x.invoked /\ y.stored = x.stored /\ y.wire = x.wire
      BY <1>1 DEF SoundAsk, AskFields
    <2> HIDE DEF y
    <2>7. SoundAsk(y)
      BY <1>1, <2>6 DEF SoundAsk
    <2> QED
      BY <1>1, <2>1, <2>2, <2>4, <2>5, <2>6, <2>7, BeginKeeps
  <1>3. CASE ~Claimable(x)
    <2>1. End(q, x) /\ run' = run /\ SameButWire(x, x)
      BY <1>3 DEF ClaimResume, SameButWire
    <2> QED
      BY <1>1, <2>1, CalmSame, EndsSilent
  <1> QED
    BY <1>2, <1>3

\* A new row.
LEMMA AppendedRow ==
    ASSUME RowsOK(run), NEW row, DOMAIN row = RunFields, row.late \in BOOLEAN
    PROVE  /\ Len(run) \in Nat /\ DOMAIN run = 1 .. Len(run)
           /\ DOMAIN Append(run, row) = 1 .. (Len(run) + 1) /\ Append(run, row)[Len(run) + 1] = row
           /\ Calm(run, Append(run, row))
  <1> DEFINE S == {run[i] : i \in DOMAIN run} \cup {row}
             rows == Append(run, row)
  <1>1. PICK n \in Nat : run = [i \in 1 .. n |-> run[i]]
    BY DEF RowsOK
  <1>2. DOMAIN run = 1 .. n /\ \A i \in 1 .. n : run[i] \in S
    BY <1>1
  <1>3. row \in S
    OBVIOUS
  <1> HIDE DEF S
  <1>4. run \in Seq(S) /\ Len(run) = n
    <2>1. run \in [1 .. n -> S]
      BY <1>1, <1>2
    <2> QED
      BY <2>1
  <1>5. /\ DOMAIN rows = 1 .. (n + 1) /\ rows \in Seq(S) /\ Len(rows) = n + 1
        /\ rows[n + 1] = row /\ \A i \in 1 .. n : rows[i] = run[i]
    BY <1>3, <1>4
  <1> HIDE DEF rows
  <1>6. rows = [i \in 1 .. (n + 1) |-> rows[i]]
    BY <1>5
  <1>7. n + 1 \in Nat /\ \A i \in 1 .. (n + 1) : i = n + 1 \/ i \in 1 .. n
    OBVIOUS
  <1>8. RowsOK(rows)
    BY <1>2, <1>5, <1>6, <1>7 DEF RowsOK
  <1>9. Calm(run, rows)
    BY <1>2, <1>5, <1>8 DEF Calm
  <1> QED
    BY <1>2, <1>4, <1>5, <1>9 DEF rows

\* A run is admitted, with the request that executes it.
LEMMA AdmitKeeps ==
    ASSUME DirectInv, NEW q \in Askers, Admit(q) PROVE DirectInv'
  <1> DEFINE x == ask[q]
             r == Len(run) + 1
             p == IF x.at = "idle" THEN "start" ELSE "graph"
             z == [x EXCEPT !.run = r, !.at = p]
  <1> DEFINE prompt == IF x.at = "read" THEN z.target ELSE r
             late == IF x.at = "read" THEN Overtaken(z) ELSE FALSE
             row == [status |-> "running", prompt |-> prompt, pauses |-> 0, expiry |-> "none", aged |-> FALSE, late |-> late]
  <1>0. late \in BOOLEAN
    BY DEF Overtaken
  <1>1. /\ run' = Append(run, row)
        /\ \/ x.at = "read" /\ ask' = [ask EXCEPT ![q] = z]
           \/ x.at = "idle" /\ \E mode : ask' = [ask EXCEPT ![q] = [z EXCEPT !.mode = mode]]
    <2>1. CASE x.at = "read"
      BY <2>1 DEF Admit, To
    <2>2. CASE x.at = "idle"
      BY <2>2 DEF Admit, To
    <2> QED
      BY <2>1, <2>2 DEF Admit
  <1> HIDE DEF prompt, late
  <1>2. DOMAIN row = RunFields /\ row.late \in BOOLEAN /\ row.status # "waiting"
    BY <1>0 DEF RunFields
  <1>3. run' = Append(run, row) /\ RowsOK(run) /\ SoundAsk(x) /\ r = Len(run) + 1
    BY <1>1 DEF DirectInv
  <1> HIDE DEF row, r
  <1>4. /\ Len(run) \in Nat /\ DOMAIN run = 1 .. Len(run)
        /\ DOMAIN run' = 1 .. (Len(run) + 1) /\ run'[Len(run) + 1] = row /\ Calm(run, run')
    BY <1>2, <1>3, AppendedRow
  <1>5. r \notin DOMAIN run /\ r \in DOMAIN run' /\ run'[r].status # "waiting"
    BY <1>2, <1>3, <1>4
  <1>6. \A o \in Askers : Busy(ask[o]) => ask[o].run # r
    BY <1>5 DEF DirectInv, Linked
  <1>7. p \in {"start", "graph"} /\ (x.at = "idle" \/ x.at = "read")
    BY <1>1
  <1> HIDE DEF p, x
  <1>8. /\ DOMAIN z = AskFields /\ z.at = p /\ z.mode = x.mode /\ z.run = r /\ z.found = x.found
        /\ z.context = x.context /\ z.invoked = x.invoked /\ z.stored = x.stored /\ z.wire = x.wire
    BY <1>3 DEF SoundAsk, AskFields
  <1> HIDE DEF z
  <1>9. CASE x.at = "read" /\ ask' = [ask EXCEPT ![q] = z]
    <2>1. SoundAsk(z) /\ z.stored = 0
      BY <1>3, <1>7, <1>8, <1>9 DEF SoundAsk
    <2> QED
      BY <1>4, <1>5, <1>6, <1>8, <1>9, <2>1, BeginKeeps
  <1>10. ASSUME NEW mode, x.at = "idle", ask' = [ask EXCEPT ![q] = [z EXCEPT !.mode = mode]] PROVE DirectInv'
    <2> DEFINE y == [z EXCEPT !.mode = mode]
    <2>1. /\ DOMAIN y = AskFields /\ y.at = p /\ y.mode = mode /\ y.run = r /\ y.found = x.found
          /\ y.context = x.context /\ y.invoked = x.invoked /\ y.stored = x.stored /\ y.wire = x.wire
      BY <1>8 DEF AskFields
    <2>2. /\ x.found = "none" /\ x.context = "none" /\ x.invoked = FALSE /\ x.stored = 0 /\ x.wire = << >>
      BY <1>3, <1>10 DEF SoundAsk, NoAsk
    <2>3. ask' = [ask EXCEPT ![q] = y]
      BY <1>10
    <2> HIDE DEF y
    <2>4. SoundAsk(y)
      BY <1>7, <2>1, <2>2, BeginsSound
    <2> QED
      BY <1>4, <1>5, <1>6, <2>1, <2>2, <2>3, <2>4, BeginKeeps
  <1> QED
    BY <1>1, <1>9, <1>10

-----------------------------------------------------------------------------
(* The others. *)

\* A row is written, if it is there.
LEMMA RowKeeps ==
    ASSUME DirectInv, NEW r, NEW row, run' = [run EXCEPT ![r] = row], ask' = ask,
           r \in DOMAIN run =>
             /\ DOMAIN row = RunFields /\ row.late \in BOOLEAN /\ (run[r].late => row.late)
             /\ row.status = "waiting" => run[r].status = "waiting"
             /\ row.status \in ActiveRunStatuses => run[r].status \in ActiveRunStatuses \/ row.late
    PROVE  DirectInv'
  <1>1. CASE r \in DOMAIN run
    <2>1. Calm(run, run')
      BY <1>1, CalmWrite DEF DirectInv
    <2> QED
      BY <2>1, RowsKeep
  <1>2. CASE r \notin DOMAIN run
    <2>1. PICK n \in Nat : run = [i \in 1 .. n |-> run[i]]
      BY DEF DirectInv, RowsOK
    <2>2. run' = run
      BY <1>2, <2>1
    <2> QED
      BY <2>2, CalmSame, RowsKeep DEF DirectInv
  <1> QED
    BY <1>1, <1>2

LEMMA StopWriteKeeps ==
    ASSUME DirectInv, StopWrite PROVE DirectInv'
  <1> DEFINE r == stop.run
             status == IF stop.seen = "waiting" THEN "cancelled" ELSE "cancelling"
             expiry == IF stop.seen = "waiting" THEN "none" ELSE run[r].expiry
             late == run[r].late \/ ~IsActive(r)
             row == [run[r] EXCEPT !.status = status, !.expiry = expiry, !.late = late]
  <1>1. run' = run \/ run' = [run EXCEPT ![r] = row]
    BY DEF StopWrite
  <1>2. CASE run' = run
    BY <1>2, CalmSame, RowsKeep DEF StopWrite, DirectInv
  <1>3. CASE run' = [run EXCEPT ![r] = row]
    <2>1. /\ status \in {"cancelled", "cancelling"} /\ late \in BOOLEAN /\ (run[r].late => late)
          /\ run[r].status \in ActiveRunStatuses \/ late
      BY DEF IsActive
    <2> HIDE DEF status, expiry, late
    <2>2. r \in DOMAIN run => DOMAIN row = RunFields /\ row.late = late /\ row.status = status
      BY DEF DirectInv, RowsOK, RunFields
    <2>3. run' = [run EXCEPT ![r] = row] /\ ask' = ask
      BY <1>3 DEF StopWrite
    <2> HIDE DEF row, r
    <2> QED
      BY <2>1, <2>2, <2>3, RowKeeps DEF r
  <1> QED
    BY <1>1, <1>2, <1>3

LEMMA TimeKeeps ==
    ASSUME DirectInv, Time PROVE DirectInv'
  <1>1. PICK r \in DOMAIN run :
          run' = [run EXCEPT ![r] = [run[r] EXCEPT !.aged = TRUE]]
          \/ run' = [run EXCEPT ![r] = [run[r] EXCEPT !.expiry = "past"]]
    BY DEF Time, Ids
  <1>2. ASSUME NEW row, DOMAIN row = RunFields, row.late = run[r].late, row.status = run[r].status,
               run' = [run EXCEPT ![r] = row]
        PROVE  DirectInv'
    BY <1>2, RowKeeps DEF Time, DirectInv, RowsOK
  <1>3. DOMAIN run[r] = RunFields
    BY DEF DirectInv, RowsOK
  <1>4. CASE run' = [run EXCEPT ![r] = [run[r] EXCEPT !.aged = TRUE]]
    <2> DEFINE row == [run[r] EXCEPT !.aged = TRUE]
    <2>1. DOMAIN row = RunFields /\ row.late = run[r].late /\ row.status = run[r].status
      BY <1>3 DEF RunFields
    <2>2. run' = [run EXCEPT ![r] = row]
      BY <1>4
    <2> HIDE DEF row
    <2> QED
      BY <1>2, <2>1, <2>2
  <1>5. CASE run' = [run EXCEPT ![r] = [run[r] EXCEPT !.expiry = "past"]]
    <2> DEFINE row == [run[r] EXCEPT !.expiry = "past"]
    <2>1. DOMAIN row = RunFields /\ row.late = run[r].late /\ row.status = run[r].status
      BY <1>3 DEF RunFields
    <2>2. run' = [run EXCEPT ![r] = row]
      BY <1>5
    <2> HIDE DEF row
    <2> QED
      BY <1>2, <2>1, <2>2
  <1> QED
    BY <1>1, <1>4, <1>5

LEMMA SweepWriteKeeps ==
    ASSUME DirectInv, SweepWrite PROVE DirectInv'
  <1> DEFINE r == sweep[1]
  <1>1. CASE run' = run
    BY <1>1, CalmSame, RowsKeep DEF SweepWrite, DirectInv
  <1>2. ASSUME NEW row, r \in DOMAIN run => DOMAIN row = RunFields /\ row.late = run[r].late,
               row.status \in {"failed", "cancelled"} \/ r \notin DOMAIN run, run' = [run EXCEPT ![r] = row]
        PROVE  DirectInv'
    <2>1. r \in DOMAIN run => row.status \notin ActiveRunStatuses /\ row.status # "waiting" /\ row.late \in BOOLEAN
      BY <1>2 DEF ActiveRunStatuses, DirectInv, RowsOK
    <2>2. ask' = ask
      BY DEF SweepWrite
    <2> HIDE DEF r
    <2> QED
      BY <1>2, <2>1, <2>2, RowKeeps
  <1>3. CASE run' = [run EXCEPT ![r] = [run[r] EXCEPT !.status = "failed"]]
    <2> DEFINE row == [run[r] EXCEPT !.status = "failed"]
    <2>1. r \in DOMAIN run => DOMAIN row = RunFields /\ row.late = run[r].late /\ row.status = "failed"
      BY DEF DirectInv, RowsOK, RunFields
    <2>2. run' = [run EXCEPT ![r] = row]
      BY <1>3
    <2> HIDE DEF row, r
    <2> QED
      BY <1>2, <2>1, <2>2 DEF r
  <1>4. CASE run' = [run EXCEPT ![r] = [run[r] EXCEPT !.status = "cancelled", !.expiry = "none"]]
    <2> DEFINE row == [run[r] EXCEPT !.status = "cancelled", !.expiry = "none"]
    <2>1. r \in DOMAIN run => DOMAIN row = RunFields /\ row.late = run[r].late /\ row.status = "cancelled"
      BY DEF DirectInv, RowsOK, RunFields
    <2>2. run' = [run EXCEPT ![r] = row]
      BY <1>4
    <2> HIDE DEF row, r
    <2> QED
      BY <1>2, <2>1, <2>2 DEF r
  <1> QED
    BY <1>1, <1>3, <1>4 DEF SweepWrite

-----------------------------------------------------------------------------
(* The transcript.  Runs answer one after the other, so whoever answers knows every *)
(* question after the one it answers, and nobody who has still to remove messages   *)
(* removes that one.                                                                *)

\* A request works on its run and has not stored the answer.
Unstored == Working \ {"prune", "last"}

Stored(r) == \E o \in Askers : ask[o].stored = 1 /\ ask[o].run = r
Answered(p) == \E o \in Askers : ask[o].stored = 1 /\ run[ask[o].run].prompt = p

\* A message that was once stored.
Known(id) == id[2] \in Ids /\ (id[1] = "assistant" => Stored(id[2]))

\* The requests that have still to remove messages, and what some of them remove.
Pruners == {o \in Askers : ask[o].at = "prune"}
Doomed(id, P) == \E o \in P : id \in ask[o].removed

\* What a replay removes follows the prompt that it answers.
SoundTurn(x) ==
    /\ x.removed # {} => /\ x.mode \in Replays /\ x.target \in Ids
                         /\ x.at = "read" \/ (x.at \in Working /\ x.target = run[x.run].prompt)
    /\ x.result = "interrupt" => x.mode \notin Replays
    /\ x.at = "pause" => x.result = "interrupt"
    /\ x.at = "claim" => x.mode \in Resumes
    /\ \A id \in x.removed : Known(id)
    /\ \A m \in Questions, y \in text : m.prompt = x.target /\ y.id \in x.removed => m.at < y.at

\* A message, and the run it belongs to.
SoundMessage(m) ==
    /\ m.at \in Nat /\ m.who \in {"user", "assistant"} /\ m.who = m.id[1] /\ m.run = m.id[2] /\ Known(m.id)
    /\ m.who = "user" => m.prompt = m.run
    /\ m.who = "assistant" => m.prompt = run[m.run].prompt

SoundText ==
    /\ \A m \in text : SoundMessage(m)
    /\ \A m, n \in text : m.at = n.at \/ (m.who = n.who /\ m.run = n.run) => m = n
    /\ \E n \in Nat : \A m \in text : m.at <= n
    /\ \A r \in Ids : run[r].prompt \in Ids

OneActive == \A r, o \in Ids : IsActive(r) /\ IsActive(o) => r = o

\* No run has gone on after its end, and no replay was overtaken.
Calmly == \A r \in Ids : ~run[r].late

\* The prompt of a run is there to stay, and only what is removed has been asked since.
Current(r, removed) ==
    \E m \in Questions : /\ m.prompt = run[r].prompt /\ ~Doomed(m.id, Pruners)
                         /\ \A y \in Questions : y.at > m.at => y.id \in removed

\* What an active run answers is current.
Fresh ==
    /\ \A q \in Askers : ask[q].at \in Unstored /\ IsActive(ask[q].run) =>
         /\ Current(ask[q].run, ask[q].removed)
         /\ ask[q].mode \in Replays => Answered(run[ask[q].run].prompt)
    /\ \A r \in Ids : run[r].status = "waiting" => Current(r, {})

\* A prompt keeps an answer when some have removed what they remove: nothing that stays was
\* asked between the two.
Keeps(m, P) ==
    \E a \in Answers : /\ ~Doomed(a.id, P) /\ a.prompt = m.prompt /\ m.at < a.at
                       /\ \A y \in Questions : m.at < y.at /\ y.at < a.at => Doomed(y.id, P)

\* Whichever of those that have still to remove messages do so.
Kept == \A P \in SUBSET Pruners : \A m \in Questions : Answered(m.prompt) /\ ~Doomed(m.id, P) => Keeps(m, P)

TurnsInv ==
    /\ \A q \in Askers : SoundTurn(ask[q])
    /\ SoundText /\ OneActive
    /\ Calmly => Fresh /\ Kept

\* A request goes on, ends, or begins with a run that waits.
Follows(y, x) ==
    /\ y.stored = x.stored /\ (y.stored = 1 => y.run = x.run)
    /\ y.removed # {} => /\ y.removed = x.removed /\ y.target = x.target /\ y.mode = x.mode
                         /\ y.run = x.run /\ x.at \in Working /\ y.at \in Working
    /\ y.at = "prune" => x.at = "prune" /\ y.removed = x.removed
    /\ y.at \in Unstored => /\ y.run = x.run
                            /\ \/ x.at \in Unstored /\ y.mode = x.mode /\ y.removed = x.removed
                               \/ x.run \in Ids /\ run[x.run].status = "waiting" /\ y.mode \notin Replays /\ y.removed = {}
    /\ y.result = "interrupt" => y.mode \notin Replays
    /\ y.at = "pause" => y.result = "interrupt"
    /\ y.at = "claim" => y.mode \in Resumes

\* A row goes on or ends, or its end was overwritten.
RowFollows(r) ==
    /\ run'[r].prompt = run[r].prompt /\ (run[r].late => run'[r].late)
    /\ run'[r].status \in ActiveRunStatuses => IsActive(r) \/ (run'[r].late /\ IndexAdmits(r))
    /\ run'[r].status = "waiting" =>
         \/ run[r].status = "waiting" \/ run'[r].late
         \/ IsActive(r) /\ \E o \in Askers : ask[o].at \in Unstored /\ ask[o].run = r /\ ask[o].removed = {}

LEMMA WorkingIds ==
    ASSUME DirectInv, NEW o \in Askers, ask[o].stored = 1 \/ ask[o].at \in Working
    PROVE  ask[o].run \in Ids
  BY DEF DirectInv, Linked, Busy, Ids

\* What is known and answered stays so.
LEMMA AnsweredKept ==
    ASSUME DirectInv, \A r \in Ids : r \in DOMAIN run' /\ run'[r].prompt = run[r].prompt,
           \A o \in Askers : ask'[o].stored = ask[o].stored /\ (ask[o].stored = 1 => ask'[o].run = ask[o].run)
    PROVE  /\ \A r : Stored(r)' <=> Stored(r)
           /\ \A p : Answered(p)' <=> Answered(p)
           /\ \A id : Known(id) => Known(id)'
  <1>1. \A r : Stored(r)' <=> Stored(r)
    BY DEF Stored
  <1>2. \A o \in Askers : ask[o].stored = 1 => ask[o].run \in Ids
    BY WorkingIds
  <1>3. \A p : Answered(p)' <=> Answered(p)
    BY <1>2 DEF Answered
  <1>4. \A id : Known(id) => Known(id)'
    BY <1>1 DEF Known, Ids
  <1> QED
    BY <1>1, <1>3, <1>4

\* Steps that leave the messages.
LEMMA FollowsKeep ==
    ASSUME DirectInv, TurnsInv, text' = text, DOMAIN run' = DOMAIN run, \A r \in Ids : RowFollows(r),
           \A o \in Askers : ask'[o] = ask[o] \/ Follows(ask'[o], ask[o]),
           NEW s, \A r \in Ids \ {s} : IsActive(r)' => IsActive(r)
    PROVE  TurnsInv'
  <1>1. \A o \in Askers : ask'[o].stored = ask[o].stored /\ (ask[o].stored = 1 => ask'[o].run = ask[o].run)
    BY DEF Follows
  <1>2. \A r \in Ids : r \in DOMAIN run' /\ run'[r].prompt = run[r].prompt
    BY DEF RowFollows, Ids
  <1>3. /\ \A r : Stored(r)' <=> Stored(r)
        /\ \A p : Answered(p)' <=> Answered(p)
        /\ \A id : Known(id) => Known(id)'
    BY <1>1, <1>2, AnsweredKept
  <1>4. Ids' = Ids /\ Questions' = Questions /\ Answers' = Answers
    BY DEF Ids, Questions, Answers
  <1>5. ASSUME NEW o \in Askers PROVE SoundTurn(ask[o])'
    <2>0. SoundTurn(ask[o])
      BY DEF TurnsInv
    <2>1. CASE ask'[o] = ask[o]
      <3>1. ask[o].at \in Working => ask[o].run \in Ids
        BY WorkingIds
      <3> QED
        BY <1>2, <1>3, <1>4, <2>0, <2>1, <3>1 DEF SoundTurn
    <2>2. CASE Follows(ask'[o], ask[o])
      <3>1. ask[o].at \in Working => ask[o].run \in Ids
        BY WorkingIds
      <3>2. ask[o].at \in Working => ask[o].at # "read"
        BY DEF Working, Looping
      <3>3. ask'[o].removed # {} => /\ ask'[o].mode \in Replays /\ ask'[o].target \in Ids'
                                    /\ ask'[o].at \in Working /\ ask'[o].target = run'[ask'[o].run].prompt
        BY <1>2, <1>4, <2>0, <2>2, <3>1, <3>2 DEF SoundTurn, Follows
      <3>4. /\ ask'[o].result = "interrupt" => ask'[o].mode \notin Replays
            /\ ask'[o].at = "pause" => ask'[o].result = "interrupt"
            /\ ask'[o].at = "claim" => ask'[o].mode \in Resumes
        BY <2>2 DEF Follows
      <3>5. ask'[o].removed = {} \/ (ask'[o].removed = ask[o].removed /\ ask'[o].target = ask[o].target)
        BY <2>2 DEF Follows
      <3>6. \A id \in ask'[o].removed : Known(id)'
        BY <1>3, <2>0, <3>5 DEF SoundTurn
      <3>7. \A m \in Questions', y \in text' : m.prompt = ask'[o].target /\ y.id \in ask'[o].removed => m.at < y.at
        BY <1>4, <2>0, <3>5 DEF SoundTurn
      <3> QED
        BY <3>3, <3>4, <3>6, <3>7 DEF SoundTurn
    <2> QED
      BY <2>1, <2>2
  <1>6. SoundText'
    <2>1. ASSUME NEW m \in text PROVE SoundMessage(m)'
      <3>1. SoundMessage(m) /\ m.run \in Ids
        BY DEF TurnsInv, SoundText, SoundMessage, Known
      <3> QED
        BY <1>2, <1>3, <3>1 DEF SoundMessage
    <2> QED
      BY <1>2, <1>4, <2>1 DEF TurnsInv, SoundText
  <1>7. OneActive'
    <2>1. \A r \in Ids : IsActive(r)' => IsActive(r) \/ (r = s /\ IndexAdmits(r))
      BY DEF RowFollows, IsActive
    <2>2. \A r, o \in Ids : IsActive(r)' /\ IsActive(o)' => r = o
      BY <2>1 DEF TurnsInv, OneActive, IndexAdmits
    <2> QED
      BY <1>4, <2>2 DEF OneActive
  <1>8. ASSUME Calmly' PROVE Fresh' /\ Kept'
    <2>1. Calmly /\ Fresh /\ Kept
      BY <1>4, <1>8 DEF Calmly, RowFollows, TurnsInv
    <2>2. Pruners' \subseteq Pruners /\ \A o \in Pruners' : ask'[o].removed = ask[o].removed
      BY DEF Pruners, Follows
    <2>3. ASSUME NEW r \in Ids, NEW R, Current(r, R) PROVE Current(r, R)'
      <3>1. PICK m \in Questions : /\ m.prompt = run[r].prompt /\ ~Doomed(m.id, Pruners)
                                   /\ \A y \in Questions : y.at > m.at => y.id \in R
        BY <2>3 DEF Current
      <3>2. ~Doomed(m.id, Pruners)' /\ m.prompt = run'[r].prompt
        BY <1>2, <2>2, <3>1 DEF Doomed
      <3> QED
        BY <1>4, <3>1, <3>2 DEF Current
    <2>4. ASSUME NEW o \in Askers, ask'[o].at \in Unstored, IsActive(ask[o].run)'
          PROVE  Current(ask[o].run, ask[o].removed)' /\ (ask'[o].mode \in Replays => Answered(run[ask[o].run].prompt)')
      <3>1. ask[o].run \in Ids /\ ask'[o].run = ask[o].run
        <4>1. ask[o].at \in Unstored => ask[o].run \in Ids
          BY WorkingIds DEF Unstored
        <4> QED
          BY <2>4, <4>1 DEF Follows
      <3>2. ~run'[ask[o].run].late
        BY <1>4, <1>8, <3>1 DEF Calmly
      <3>3. IsActive(ask[o].run)
        BY <2>4, <3>1, <3>2 DEF RowFollows, IsActive
      <3>4. CASE ask[o].at \in Unstored /\ ask'[o].mode = ask[o].mode /\ ask'[o].removed = ask[o].removed
        <4>1. Current(ask[o].run, ask[o].removed) /\ (ask[o].mode \in Replays => Answered(run[ask[o].run].prompt))
          BY <2>1, <3>3, <3>4 DEF Fresh
        <4> QED
          BY <1>2, <1>3, <2>3, <3>1, <3>4, <4>1
      <3>5. CASE run[ask[o].run].status = "waiting" /\ ask'[o].mode \notin Replays /\ ask'[o].removed = {}
        <4>1. Current(ask[o].run, {})
          BY <2>1, <3>1, <3>5 DEF Fresh
        <4> QED
          BY <2>3, <3>1, <3>5, <4>1
      <3> QED
        BY <2>4, <3>4, <3>5 DEF Follows
    <2>5. ASSUME NEW r \in Ids, run'[r].status = "waiting" PROVE Current(r, {})'
      <3>1. ~run'[r].late
        BY <1>4, <1>8 DEF Calmly
      <3>2. CASE run[r].status = "waiting"
        BY <2>1, <2>3, <3>2 DEF Fresh
      <3>3. CASE IsActive(r) /\ \E o \in Askers : ask[o].at \in Unstored /\ ask[o].run = r /\ ask[o].removed = {}
        BY <2>1, <2>3, <3>3 DEF Fresh
      <3> QED
        BY <2>5, <3>1, <3>2, <3>3 DEF RowFollows
    <2>6. Fresh'
      BY <1>4, <2>4, <2>5 DEF Fresh
    <2>7. ASSUME NEW P \in SUBSET Pruners', NEW m \in Questions, Answered(m.prompt)', ~Doomed(m.id, P)'
          PROVE  Keeps(m, P)'
      <3>1. P \in SUBSET Pruners /\ \A id : Doomed(id, P)' <=> Doomed(id, P)
        BY <2>2 DEF Doomed
      <3>2. Keeps(m, P)
        BY <1>3, <2>1, <2>7, <3>1 DEF Kept
      <3> QED
        BY <1>4, <3>1, <3>2 DEF Keeps
    <2> QED
      BY <1>4, <2>6, <2>7 DEF Kept
  <1> QED
    BY <1>5, <1>6, <1>7, <1>8 DEF TurnsInv

\* A replay reads the transcript while no run is active.
LEMMA ReadReplayTurns ==
    ASSUME DirectInv, TurnsInv, NEW q \in Askers, ReadReplay(q) PROVE TurnsInv'
  <1>1. PICK mode \in Modes \cap Replays, m \in Answers : \E x \in Preceding(m) :
          ask' = [ask EXCEPT ![q] =
                    [NoAsk EXCEPT !.at = "read", !.mode = mode, !.target = x.prompt, !.removed = Suffix(m),
                     !.since = IF m.run \in Ids /\ There(m.run) THEN m.run ELSE m.after + 1]]
    BY DEF ReadReplay, To
  <1>2. PICK x \in Preceding(m) :
          ask' = [ask EXCEPT ![q] =
                    [NoAsk EXCEPT !.at = "read", !.mode = mode, !.target = x.prompt, !.removed = Suffix(m),
                     !.since = IF m.run \in Ids /\ There(m.run) THEN m.run ELSE m.after + 1]]
    BY <1>1
  <1> DEFINE target == x.prompt
             removed == Suffix(m)
             since == IF m.run \in Ids /\ There(m.run) THEN m.run ELSE m.after + 1
             y == [NoAsk EXCEPT !.at = "read", !.mode = mode, !.target = target, !.removed = removed, !.since = since]
  <1>3. ask' = [ask EXCEPT ![q] = y]
    BY <1>2
  <1> HIDE DEF target, removed, since
  <1>4. /\ y.at = "read" /\ y.mode = mode /\ y.stored = 0 /\ y.result = "none" /\ y.target = target /\ y.removed = removed
    BY DEF NoAsk
  <1> HIDE DEF y
  <1>5. ask'[q] = y /\ \A o \in Askers \ {q} : ask'[o] = ask[o]
    BY <1>3 DEF DirectInv
  <1>6. run' = run /\ text' = text /\ \A r \in Ids : ~IsActive(r)
    BY DEF ReadReplay
  <1>7. ask[q].at = "idle" /\ ask[q].stored = 0
    BY DEF ReadReplay, DirectInv, SoundAsk
  <1>8. \A o \in Askers : ask'[o].stored = ask[o].stored /\ (ask[o].stored = 1 => ask'[o].run = ask[o].run)
    BY <1>4, <1>5, <1>7
  <1>9. /\ \A r : Stored(r)' <=> Stored(r)
        /\ \A p : Answered(p)' <=> Answered(p)
        /\ \A id : Known(id) => Known(id)'
    BY <1>6, <1>8, AnsweredKept DEF Ids
  <1>10. Ids' = Ids /\ Questions' = Questions /\ Answers' = Answers
    BY <1>6 DEF Ids, Questions, Answers
  <1>11. ASSUME NEW o \in Askers \ {q} PROVE SoundTurn(ask[o])'
    <2>1. SoundTurn(ask[o]) /\ ask'[o] = ask[o]
      BY <1>5 DEF TurnsInv
    <2> QED
      BY <1>6, <1>9, <1>10, <2>1 DEF SoundTurn
  <1>12. SoundTurn(ask[q])'
    <2>1. SoundText
      BY DEF TurnsInv
    <2>2. x \in Questions /\ x.at < m.at /\ x \in text /\ x.who = "user" /\ m \in text
      BY DEF Preceding, Questions, Answers
    <2>3. target = x.run /\ x.run \in Ids
      BY <2>1, <2>2 DEF SoundText, SoundMessage, Known, target
    <2>4. \A id \in removed : Known(id)'
      BY <1>9, <2>1 DEF removed, Suffix, SoundText, SoundMessage
    <2>5. ASSUME NEW n \in Questions, n.prompt = target, NEW z \in text, z.id \in removed PROVE n.at < z.at
      <3>1. n = x
        <4>1. n \in text /\ n.who = "user" /\ n.prompt = n.run
          BY <2>1 DEF Questions, SoundText, SoundMessage
        <4> QED
          BY <2>1, <2>2, <2>3, <2>5, <4>1 DEF SoundText
      <3>2. PICK u \in text : u.at >= m.at /\ u.id = z.id
        BY <2>5 DEF removed, Suffix
      <3>3. u = z
        BY <2>1, <3>2 DEF SoundText, SoundMessage
      <3>4. n.at \in Nat /\ z.at \in Nat /\ m.at \in Nat
        BY <2>1, <2>2, <3>1 DEF SoundText, SoundMessage
      <3> QED
        BY <2>2, <3>1, <3>2, <3>3, <3>4
    <2>6. mode \in Replays /\ y.at # "pause" /\ y.at # "claim" /\ y.result # "interrupt"
      BY <1>1, <1>4
    <2> QED
      BY <1>4, <1>5, <1>6, <1>10, <2>3, <2>4, <2>5, <2>6 DEF SoundTurn
  <1>13. SoundText'
    <2>1. \A n \in text : SoundMessage(n) => SoundMessage(n)'
      BY <1>6, <1>9 DEF SoundMessage
    <2> QED
      BY <1>6, <1>10, <2>1 DEF TurnsInv, SoundText
  <1>14. OneActive'
    BY <1>6, <1>10 DEF OneActive, IsActive
  <1>15. ASSUME Calmly' PROVE Fresh' /\ Kept'
    <2>1. Calmly /\ Kept
      BY <1>6, <1>10, <1>15 DEF Calmly, TurnsInv
    <2>2. \A o \in Askers : ask'[o].at \in Unstored => ask'[o].run \in Ids
      <3>1. \A o \in Askers : ask[o].at \in Unstored => ask[o].run \in Ids
        BY WorkingIds DEF Unstored
      <3>2. "read" \notin Unstored
        BY DEF Unstored, Working, Looping
      <3> QED
        BY <1>4, <1>5, <3>1, <3>2
    <2>3. Fresh'
      BY <1>6, <1>10, <2>2 DEF Fresh, IsActive, ActiveRunStatuses
    <2>4. Pruners' = Pruners /\ \A o \in Pruners : ask'[o] = ask[o]
      BY <1>4, <1>5, <1>7 DEF Pruners
    <2>5. ASSUME NEW P \in SUBSET Pruners, NEW n \in Questions, Answered(n.prompt)', ~Doomed(n.id, P)'
          PROVE  Keeps(n, P)'
      <3>1. \A id : Doomed(id, P)' <=> Doomed(id, P)
        BY <2>4 DEF Doomed
      <3>2. Keeps(n, P)
        BY <1>9, <2>1, <2>5, <3>1 DEF Kept
      <3> QED
        BY <1>10, <3>1, <3>2 DEF Keeps
    <2> QED
      BY <1>10, <2>3, <2>4, <2>5 DEF Kept
  <1> QED
    BY <1>11, <1>12, <1>13, <1>14, <1>15 DEF TurnsInv

\* A prune removes what nobody answers, and leaves an answer to every other prompt.
LEMMA PruneTurns ==
    ASSUME DirectInv, TurnsInv, NEW q \in Askers, Prune(q) PROVE TurnsInv'
  <1> DEFINE x == ask[q]
             y == [x EXCEPT !.at = "last"]
  <1>1. x.at = "prune" /\ DOMAIN x = AskFields
    BY DEF Prune, DirectInv, SoundAsk
  <1>2. ask' = [ask EXCEPT ![q] = y] /\ text' = {m \in text : m.id \notin x.removed}
    BY DEF Prune, To, Pruned
  <1>3. PICK n \in Nat : run = [i \in 1 .. n |-> run[i]]
    BY DEF DirectInv, RowsOK
  <1>4. DOMAIN run' = DOMAIN run /\ \A r \in Ids : run'[r] = [run[r] EXCEPT !.status = "gone"] \/ run'[r] = run[r]
    BY DEF Prune, Ids
  <1>5. \A r \in Ids : DOMAIN run[r] = RunFields
    BY DEF DirectInv, RowsOK, Ids
  <1>6. \A r \in Ids : /\ run'[r].prompt = run[r].prompt /\ run'[r].late = run[r].late
                       /\ run'[r].status = "gone" \/ run'[r].status = run[r].status
    <2> SUFFICES ASSUME NEW r \in Ids
                 PROVE  /\ run'[r].prompt = run[r].prompt /\ run'[r].late = run[r].late
                        /\ run'[r].status = "gone" \/ run'[r].status = run[r].status
      OBVIOUS
    <2>1. CASE run'[r] = [run[r] EXCEPT !.status = "gone"]
      BY <1>5, <2>1 DEF RunFields
    <2> QED
      BY <1>4, <2>1
  <1> HIDE DEF x
  <1>7. /\ y.at = "last" /\ y.mode = x.mode /\ y.run = x.run /\ y.stored = x.stored /\ y.result = x.result
        /\ y.target = x.target /\ y.removed = x.removed
    BY <1>1 DEF AskFields
  <1> HIDE DEF y
  <1>8. ask'[q] = y /\ \A o \in Askers \ {q} : ask'[o] = ask[o]
    BY <1>2 DEF DirectInv
  <1>9. x = ask[q]
    BY DEF x
  <1>10. \A o \in Askers : /\ ask'[o].stored = ask[o].stored /\ ask'[o].run = ask[o].run /\ ask'[o].mode = ask[o].mode
                           /\ ask'[o].removed = ask[o].removed /\ ask'[o].target = ask[o].target
                           /\ ask'[o].result = ask[o].result /\ (o # q => ask'[o].at = ask[o].at)
    BY <1>7, <1>8, <1>9
  <1>11. Ids' = Ids /\ text' \subseteq text /\ Questions' \subseteq Questions /\ Answers' \subseteq Answers
    BY <1>2, <1>4 DEF Ids, Questions, Answers
  <1>12. /\ \A r : Stored(r)' <=> Stored(r)
         /\ \A p : Answered(p)' <=> Answered(p)
         /\ \A id : Known(id) => Known(id)'
    BY <1>4, <1>6, <1>10, AnsweredKept DEF Ids
  <1>13. ASSUME NEW o \in Askers PROVE SoundTurn(ask[o])'
    <2>1. SoundTurn(ask[o])
      BY DEF TurnsInv
    <2>2. ask[o].at \in Working => ask[o].run \in Ids
      BY WorkingIds
    <2>3. /\ ask'[o].at \in Working <=> ask[o].at \in Working
          /\ ask'[o].at = "read" <=> ask[o].at = "read"
          /\ ask'[o].at = "pause" <=> ask[o].at = "pause"
          /\ ask'[o].at = "claim" <=> ask[o].at = "claim"
      BY <1>1, <1>7, <1>8, <1>9 DEF Working
    <2>4. ask'[o].removed # {} => /\ ask'[o].mode \in Replays /\ ask'[o].target \in Ids'
                                  /\ ask'[o].at = "read" \/ (ask'[o].at \in Working /\ ask'[o].target = run'[ask'[o].run].prompt)
      BY <1>6, <1>10, <1>11, <2>1, <2>2, <2>3 DEF SoundTurn
    <2> QED
      BY <1>10, <1>11, <1>12, <2>1, <2>3, <2>4 DEF SoundTurn
  <1>14. SoundText'
    <2>1. ASSUME NEW m \in text PROVE SoundMessage(m)'
      <3>1. SoundMessage(m) /\ m.run \in Ids
        BY DEF TurnsInv, SoundText, SoundMessage, Known
      <3> QED
        BY <1>6, <1>12, <3>1 DEF SoundMessage
    <2> QED
      BY <1>6, <1>11, <2>1 DEF TurnsInv, SoundText
  <1>15. \A r \in Ids : IsActive(r)' => IsActive(r)
    BY <1>6 DEF IsActive, ActiveRunStatuses
  <1>16. OneActive'
    BY <1>11, <1>15 DEF TurnsInv, OneActive
  <1>17. ASSUME Calmly' PROVE Fresh' /\ Kept'
    <2>1. Calmly /\ Fresh /\ Kept
      BY <1>6, <1>11, <1>17 DEF Calmly, TurnsInv
    <2>2. Pruners' = Pruners \ {q} /\ q \in Pruners /\ Pruners \subseteq Askers
      BY <1>1, <1>7, <1>8, <1>9, <1>10 DEF Pruners
    <2>3. ASSUME NEW r \in Ids, NEW R, Current(r, R) PROVE Current(r, R)'
      <3>1. PICK m \in Questions : /\ m.prompt = run[r].prompt /\ ~Doomed(m.id, Pruners)
                                   /\ \A z \in Questions : z.at > m.at => z.id \in R
        BY <2>3 DEF Current
      <3>2. ~Doomed(m.id, Pruners)' /\ m.prompt = run'[r].prompt
        BY <1>6, <1>10, <2>2, <3>1 DEF Doomed
      <3>3. m \in Questions'
        BY <1>2, <1>9, <2>2, <3>1 DEF Questions, Doomed
      <3> QED
        BY <1>11, <3>1, <3>2, <3>3 DEF Current
    <2>4. ASSUME NEW o \in Askers, ask'[o].at \in Unstored, IsActive(ask[o].run)'
          PROVE  Current(ask[o].run, ask[o].removed)' /\ (ask'[o].mode \in Replays => Answered(run[ask[o].run].prompt)')
      <3>1. ask[o].at \in Unstored
        BY <1>7, <1>8, <1>10, <2>4 DEF Unstored
      <3>2. ask[o].run \in Ids
        BY <3>1, WorkingIds DEF Unstored
      <3>3. IsActive(ask[o].run)
        BY <1>10, <1>15, <2>4, <3>2
      <3>4. Current(ask[o].run, ask[o].removed) /\ (ask[o].mode \in Replays => Answered(run[ask[o].run].prompt))
        BY <2>1, <3>1, <3>3 DEF Fresh
      <3> QED
        BY <1>6, <1>10, <1>12, <2>3, <3>2, <3>4
    <2>5. Fresh'
      <3>1. \A r \in Ids : run'[r].status = "waiting" => Current(r, {})'
        BY <1>6, <2>1, <2>3 DEF Fresh
      <3> QED
        BY <1>11, <2>4, <3>1 DEF Fresh
    <2>6. ASSUME NEW P \in SUBSET Pruners', NEW m \in Questions', Answered(m.prompt)', ~Doomed(m.id, P)'
          PROVE  Keeps(m, P)'
      <3> DEFINE All == P \cup {q}
      <3>1. All \in SUBSET Pruners /\ q \in All /\ P \subseteq Askers
        BY <2>2
      <3>2. \A id : Doomed(id, All) <=> (Doomed(id, P)' \/ id \in x.removed)
        BY <1>9, <1>10, <3>1 DEF Doomed
      <3> HIDE DEF All
      <3>3. m \in Questions /\ ~Doomed(m.id, All)
        BY <1>2, <1>11, <2>6, <3>2 DEF Questions
      <3>4. Keeps(m, All)
        BY <1>12, <2>1, <2>6, <3>1, <3>3 DEF Kept
      <3>5. PICK a \in Answers : /\ ~Doomed(a.id, All) /\ a.prompt = m.prompt /\ m.at < a.at
                                 /\ \A z \in Questions : m.at < z.at /\ z.at < a.at => Doomed(z.id, All)
        BY <3>4 DEF Keeps
      <3>6. a \in Answers' /\ ~Doomed(a.id, P)'
        BY <1>2, <3>2, <3>5 DEF Answers
      <3>7. \A z \in Questions' : m.at < z.at /\ z.at < a.at => Doomed(z.id, P)'
        BY <1>2, <1>11, <3>2, <3>5 DEF Questions
      <3> QED
        BY <3>5, <3>6, <3>7 DEF Keeps
    <2> QED
      BY <2>5, <2>6 DEF Kept
  <1> QED
    BY <1>13, <1>14, <1>16, <1>17 DEF TurnsInv

LEMMA Least == ASSUME NEW T, T \subseteq Nat, T # {} PROVE \E n \in T : \A m \in T : n <= m
<1>1. PICK x \in T : \A y \in T : ~(<<y, x>> \in OpToRel(<, Nat))
  BY WFMin, NatLessThanWellFounded
<1>2. \A y \in Nat : y < x => <<y, x>> \in OpToRel(<, Nat)
  BY Zenon DEF OpToRel
<1>3. \A y \in T : ~(y < x)
  BY <1>1, <1>2, Zenon
<1> QED  BY <1>3

LEMMA MaxIs == ASSUME NEW n \in Nat, NEW T, T \subseteq 0..n, T # {} PROVE Max(T) \in T /\ \A m \in T : m <= Max(T)
<1> DEFINE U == {n - m : m \in T}
<1>1. U \subseteq Nat /\ U # {}
  <2>1. \A m \in T : m \in 0..n /\ n - m \in Nat
    OBVIOUS
  <2> QED  BY <2>1
<1>2. PICK u \in U : \A v \in U : u <= v
  BY <1>1, Least
<1>3. PICK m \in T : u = n - m
  OBVIOUS
<1>4. \A k \in T : m >= k
  <2> SUFFICES ASSUME NEW k \in T PROVE m >= k
    OBVIOUS
  <2>1. n - k \in U /\ k \in 0..n /\ m \in 0..n
    OBVIOUS
  <2>2. n - m <= n - k
    BY <1>2, <1>3, <2>1
  <2> QED  BY <2>1, <2>2
<1>5. \E x \in T : \A y \in T : x >= y
  BY <1>4
<1>6. Max(T) \in T /\ \A y \in T : Max(T) >= y
  BY <1>5 DEF Max
<1> DEFINE x == Max(T)
<1>7. x \in T /\ \A y \in T : x >= y
  BY <1>6
<1> HIDE DEF x
<1>8. \A y \in T : y \in 0 .. n
  OBVIOUS
<1>9. ASSUME NEW y \in T PROVE y <= x
  <2>1. y \in 0 .. n /\ x \in 0 .. n /\ x >= y
    BY <1>7, <1>8
  <2> QED  BY <2>1
<1> QED  BY <1>7, <1>9 DEF x

\* A message that is stored comes after all others.
LEMMA LatestAt ==
    ASSUME SoundText, NEW id, NEW r, NEW prompt, NEW new, new = Latest(id, r, prompt)
    PROVE  /\ new.id = id /\ new.who = id[1] /\ new.run = r /\ new.prompt = prompt
           /\ new.at \in Nat /\ \A m \in text : m.at < new.at
  <1> DEFINE T == {0} \cup {m.at : m \in text}
  <1>1. PICK n \in Nat : \A m \in text : m.at <= n
    BY DEF SoundText
  <1>2. T \subseteq 0 .. n /\ T # {} /\ \A m \in text : m.at \in T /\ m.at \in Nat
    BY <1>1 DEF SoundText, SoundMessage
  <1>9. \A t \in T : t \in Nat
    BY <1>2
  <1>3. new.at = 1 + Max(T) /\ new.id = id /\ new.who = id[1] /\ new.run = r /\ new.prompt = prompt
    BY DEF Latest
  <1> HIDE DEF T
  <1>4. Max(T) \in T /\ \A t \in T : t <= Max(T)
    BY <1>2, MaxIs
  <1> DEFINE k == Max(T)
  <1>10. k \in T /\ \A t \in T : t <= k
    BY <1>4
  <1>6. new.at = 1 + k
    BY <1>3
  <1> HIDE DEF k
  <1>5. k \in Nat /\ \A m \in text : m.at <= k /\ m.at \in Nat
    BY <1>2, <1>9, <1>10
  <1>7. new.at \in Nat /\ \A m \in text : m.at < new.at
    BY <1>5, <1>6
  <1> QED
    BY <1>3, <1>7

\* A stored answer is the latest message, and only what its request removes lies between it
\* and its prompt.
LEMMA CommitTurns ==
    ASSUME DirectInv, TurnsInv, NEW q \in Askers, Commit(q), DirectInv' PROVE TurnsInv'
  <1> DEFINE x == ask[q]
             r == x.run
             p == run[r].prompt
             id == <<"assistant", r, x.pause>>
             frames == <<"composed">> \o IF StreamsStored(x) THEN <<"delta">> ELSE << >>
             s == Say(x, frames)
             at == IF x.mode \in Replays THEN "prune" ELSE "last"
             y == [s EXCEPT !.stored = 1, !.at = at]
             late == run[r].late \/ ~IsActive(r)
             row == [run[r] EXCEPT !.status = "completed", !.expiry = "none", !.late = late]
  <1>1. /\ SoundAsk(x) /\ SoundTurn(x) /\ SoundText /\ x.at = "commit" /\ x.stored = 0
        /\ x.at \in Unstored /\ x.at \in Working
    BY DEF DirectInv, TurnsInv, SoundAsk, Commit, Unstored, Working, Looping
  <1>2. r \in Ids /\ p \in Ids
    BY <1>1, WorkingIds DEF TurnsInv, SoundText
  <1> PICK new : new = Latest(id, r, p)
    OBVIOUS
  <1>3. ask' = [ask EXCEPT ![q] = y] /\ text' = text \cup {new} /\ run' = [run EXCEPT ![r] = row]
    BY DEF Commit, To
  <1>4. \A o \in Askers : ask[o].stored = 1 => ask[o].run # r
    BY <1>1 DEF DirectInv, Busy
  <1> HIDE DEF late
  <1>5. row.prompt = p /\ row.late = late /\ row.status = "completed" /\ DOMAIN row = RunFields /\ row.late \in BOOLEAN
    <2>1. DOMAIN run[r] = RunFields
      BY <1>2 DEF DirectInv, RowsOK, Ids
    <2>2. late \in BOOLEAN
      BY <1>2 DEF late, DirectInv, RowsOK, Ids
    <2> QED
      BY <2>1, <2>2 DEF RunFields
  <1> HIDE DEF row
  <1>6. DOMAIN run' = DOMAIN run /\ run'[r] = row /\ \A o \in Ids \ {r} : run'[o] = run[o]
    BY <1>2, <1>3, <1>5, WrittenRow DEF DirectInv, Ids
  <1>7. /\ \A o \in Ids : /\ run'[o].prompt = run[o].prompt /\ (run[o].late => run'[o].late)
                          /\ IsActive(o)' => IsActive(o) /\ o # r
                          /\ run'[o].status = "waiting" => run[o].status = "waiting"
        /\ ~run'[r].late => IsActive(r)
    BY <1>5, <1>6 DEF IsActive, ActiveRunStatuses, late
  <1>8. new.id = id /\ new.who = "assistant" /\ new.run = r /\ new.prompt = p /\ new.at \in Nat /\ \A m \in text : m.at < new.at
    BY <1>1, LatestAt
  <1>9. id[1] = "assistant" /\ id[2] = r
    OBVIOUS
  <1>0. x = ask[q] /\ r = x.run /\ p = run[r].prompt
    OBVIOUS
  <1> HIDE DEF x, r, p, id
  <1> HIDE DEF frames
  <1>10. /\ DOMAIN s = AskFields /\ s.mode = x.mode /\ s.run = x.run /\ s.result = x.result
         /\ s.target = x.target /\ s.removed = x.removed
    BY <1>1 DEF Say, SoundAsk, AskFields
  <1> HIDE DEF s, at
  <1>11. /\ y.at = at /\ y.mode = x.mode /\ y.run = x.run /\ y.stored = 1 /\ y.result = x.result
         /\ y.target = x.target /\ y.removed = x.removed
    BY <1>10 DEF AskFields
  <1>12. at \in {"prune", "last"} /\ at \in Working /\ at \notin Unstored /\ (at = "prune" <=> x.mode \in Replays)
    BY DEF at, Working, Unstored
  <1> HIDE DEF y
  <1>13. ask'[q] = y /\ \A o \in Askers \ {q} : ask'[o] = ask[o]
    BY <1>3 DEF DirectInv
  <1>14. Ids' = Ids /\ Questions' = Questions /\ Answers' = Answers \cup {new}
    BY <1>3, <1>6, <1>8 DEF Ids, Questions, Answers
  <1>15. /\ \A i : Stored(i)' <=> Stored(i) \/ i = r
         /\ \A i : Answered(i)' <=> Answered(i) \/ i = p
         /\ \A i : Known(i) => Known(i)'
    <2>1. \A o \in Askers \ {q} : ask'[o].stored = ask[o].stored /\ ask'[o].run = ask[o].run
      BY <1>13
    <2>2. ask'[q].stored = 1 /\ ask'[q].run = r /\ ask[q].stored = 0 /\ q \in Askers
      BY <1>0, <1>1, <1>11, <1>13
    <2>3. \A i : Stored(i)' <=> Stored(i) \/ i = r
      BY <2>1, <2>2 DEF Stored
    <2>4. \A o \in Askers : ask[o].stored = 1 => ask[o].run \in Ids
      BY WorkingIds
    <2>5. \A i : Answered(i)' <=> Answered(i) \/ i = p
      BY <1>0, <1>2, <1>7, <2>1, <2>2, <2>4 DEF Answered
    <2>6. \A i : Known(i) => Known(i)'
      BY <1>14, <2>3 DEF Known
    <2> QED
      BY <2>3, <2>5, <2>6
  <1>16. ~Known(new.id) /\ Known(new.id)' /\ new.id[1] = "assistant" /\ new.id[2] = r
    <2>1. ~Stored(r)
      BY <1>4 DEF Stored
    <2> QED
      BY <1>2, <1>8, <1>9, <1>14, <1>15, <2>1 DEF Known
  <1>17. \A o \in Askers : /\ ask'[o].mode = ask[o].mode /\ ask'[o].removed = ask[o].removed /\ ask'[o].target = ask[o].target
                           /\ ask'[o].result = ask[o].result /\ ask'[o].run = ask[o].run /\ (o # q => ask'[o].at = ask[o].at)
    BY <1>0, <1>11, <1>13
  <1>18. ASSUME NEW o \in Askers PROVE SoundTurn(ask[o])'
    <2>1. SoundTurn(ask[o])
      BY DEF TurnsInv
    <2>2. ask[o].at \in Working => ask[o].run \in Ids
      BY WorkingIds
    <2>3. /\ ask'[o].at \in Working <=> ask[o].at \in Working
          /\ ask'[o].at = "read" <=> ask[o].at = "read"
          /\ ask'[o].at = "pause" <=> ask[o].at = "pause"
          /\ ask'[o].at = "claim" <=> ask[o].at = "claim"
      BY <1>0, <1>1, <1>11, <1>12, <1>13
    <2>4. ask'[o].removed # {} => /\ ask'[o].mode \in Replays /\ ask'[o].target \in Ids'
                                  /\ ask'[o].at = "read" \/ (ask'[o].at \in Working /\ ask'[o].target = run'[ask'[o].run].prompt)
      BY <1>7, <1>14, <1>17, <2>1, <2>2, <2>3 DEF SoundTurn
    <2>5. \A i \in ask'[o].removed : Known(i) /\ Known(i)'
      BY <1>15, <1>17, <2>1 DEF SoundTurn
    <2>6. \A m \in Questions', z \in text' : m.prompt = ask'[o].target /\ z.id \in ask'[o].removed => m.at < z.at
      BY <1>3, <1>14, <1>16, <1>17, <2>1, <2>5 DEF SoundTurn
    <2> QED
      BY <1>17, <2>1, <2>3, <2>4, <2>5, <2>6 DEF SoundTurn
  <1>19. SoundText'
    <2>1. ASSUME NEW m \in text PROVE SoundMessage(m)' /\ SoundMessage(m) /\ m.run \in Ids
      <3>1. SoundMessage(m) /\ m.run \in Ids
        BY <1>1 DEF SoundText, SoundMessage, Known
      <3> QED
        BY <1>7, <1>15, <3>1 DEF SoundMessage
    <2>2. SoundMessage(new)'
      BY <1>0, <1>2, <1>7, <1>8, <1>9, <1>16 DEF SoundMessage
    <2>3. \A m \in text : m.who = "assistant" => m.run # r
      <3>1. \A m \in text : m.who = "assistant" => Stored(m.run)
        BY <2>1 DEF SoundMessage, Known
      <3> QED
        BY <1>4, <3>1 DEF Stored
    <2>4. \A m \in text : m.at \in Nat /\ m.at # new.at
      BY <1>8, <2>1 DEF SoundMessage
    <2>5. \A m, n \in text' : m.at = n.at \/ (m.who = n.who /\ m.run = n.run) => m = n
      <3>1. \A m, n \in text : m.at = n.at \/ (m.who = n.who /\ m.run = n.run) => m = n
        BY <1>1 DEF SoundText
      <3> QED
        BY <1>3, <1>8, <2>3, <2>4, <3>1
    <2>6. \A m \in text' : m.at <= new.at
      BY <1>3, <1>8, <2>4
    <2>7. \A i \in Ids' : run'[i].prompt \in Ids'
      BY <1>1, <1>7, <1>14 DEF SoundText
    <2> QED
      BY <1>3, <1>8, <2>1, <2>2, <2>5, <2>6, <2>7 DEF SoundText
  <1>20. OneActive'
    BY <1>7, <1>14 DEF TurnsInv, OneActive
  <1>21. ASSUME Calmly' PROVE Fresh' /\ Kept'
    <2>1. Calmly /\ Fresh /\ Kept
      BY <1>7, <1>14, <1>21 DEF Calmly, TurnsInv
    <2>2. IsActive(r)
      BY <1>2, <1>7, <1>14, <1>21 DEF Calmly
    <2>3. \A i \in Ids : ~IsActive(i)'
      BY <1>2, <1>7, <2>2 DEF TurnsInv, OneActive
    <2>4. Fresh'
      <3>1. \A o \in Askers : ask'[o].at \in Unstored => ask'[o].run \in Ids
        <4>1. \A o \in Askers : ask[o].at \in Unstored => ask[o].run \in Ids
          BY WorkingIds DEF Unstored
        <4> QED
          BY <1>11, <1>12, <1>13, <4>1
      <3>2. \A i \in Ids : run'[i].status # "waiting"
        BY <2>3 DEF IsActive, ActiveRunStatuses
      <3> QED
        BY <1>14, <2>3, <3>1, <3>2 DEF Fresh
    <2>5. Current(r, x.removed) /\ (x.mode \in Replays => Answered(p))
      BY <1>0, <1>1, <2>1, <2>2 DEF Fresh
    <2>6. PICK c \in Questions : /\ c.prompt = p /\ ~Doomed(c.id, Pruners)
                                 /\ \A z \in Questions : z.at > c.at => z.id \in x.removed
      BY <1>0, <2>5 DEF Current
    <2>7. Pruners' \subseteq Pruners \cup {q} /\ q \notin Pruners /\ (q \in Pruners' => x.mode \in Replays) /\ Pruners \subseteq Askers
      BY <1>0, <1>1, <1>11, <1>12, <1>13 DEF Pruners
    <2>8. \A m \in text : m.at \in Nat
      BY <1>1 DEF SoundText, SoundMessage
    <2>9. ASSUME NEW P \in SUBSET Pruners', NEW m \in Questions, Answered(m.prompt)', ~Doomed(m.id, P)'
          PROVE  Keeps(m, P)'
      <3> DEFINE B == P \ {q}
      <3>1. B \in SUBSET Pruners /\ P \subseteq Askers
        BY <2>7
      <3>2. \A i : Doomed(i, P)' <=> (Doomed(i, B) \/ (q \in P /\ i \in x.removed))
        BY <1>0, <1>17, <3>1 DEF Doomed
      <3> HIDE DEF B
      <3>3. m \in text /\ c \in text /\ m.at \in Nat /\ c.at \in Nat
        BY <2>8 DEF Questions
      <3>4. m.prompt = c.prompt => m = c
        BY <1>1, <3>3 DEF SoundText, SoundMessage, Questions
      <3>5. CASE m.prompt = p /\ (x.mode \notin Replays \/ q \in P)
        <4>1. ~Doomed(new.id, P)'
          <5>1. \A o \in Askers : new.id \notin ask[o].removed
            BY <1>16 DEF TurnsInv, SoundTurn
          <5> QED
            BY <1>17, <3>1, <5>1 DEF Doomed
        <4>2. \A z \in Questions : m.at < z.at => Doomed(z.id, P)'
          <5>1. x.mode \notin Replays => x.removed = {}
            BY <1>1 DEF SoundTurn
          <5>2. \A z \in Questions : m.at < z.at => z.at > c.at
            BY <2>6, <3>4, <3>5
          <5> QED
            BY <2>6, <3>2, <3>5, <5>1, <5>2
        <4>3. m.at < new.at
          BY <1>8, <3>3
        <4> QED
          BY <1>8, <1>14, <3>5, <4>1, <4>2, <4>3 DEF Keeps
      <3>6. CASE Answered(m.prompt)
        <4>1. ~Doomed(m.id, B)
          BY <2>9, <3>2
        <4>2. PICK a \in Answers : /\ ~Doomed(a.id, B) /\ a.prompt = m.prompt /\ m.at < a.at
                                   /\ \A z \in Questions : m.at < z.at /\ z.at < a.at => Doomed(z.id, B)
          BY <2>1, <3>1, <3>6, <4>1 DEF Kept, Keeps
        <4>3. a \in Answers' /\ \A z \in Questions' : m.at < z.at /\ z.at < a.at => Doomed(z.id, P)'
          BY <1>14, <3>2, <4>2
        <4>4. CASE ~(q \in P /\ a.id \in x.removed)
          BY <3>2, <4>2, <4>3, <4>4 DEF Keeps
        <4>5. CASE q \in P /\ a.id \in x.removed /\ m.prompt # p
          <5>1. x.target = p /\ a \in text /\ a.at \in Nat
            BY <1>0, <1>1, <2>8, <4>5 DEF SoundTurn, Answers
          <5>2. c.at < a.at
            BY <1>1, <2>6, <4>5, <5>1 DEF SoundTurn
          <5>3. ~(m.at > c.at)
            BY <2>6, <2>9, <3>2, <4>5
          <5>4. m.at # c.at
            BY <1>1, <2>6, <3>3, <4>5 DEF SoundText
          <5>5. Doomed(c.id, B)
            BY <3>3, <4>2, <5>2, <5>3, <5>4
          <5> QED
            BY <2>6, <3>1, <5>5 DEF Doomed
        <4> QED
          BY <3>5, <4>4, <4>5
      <3>7. ~(x.mode \notin Replays \/ q \in P) => Answered(p)
        BY <2>5
      <3> QED
        BY <1>15, <2>9, <3>5, <3>6, <3>7
    <2> QED
      BY <1>14, <2>4, <2>9 DEF Kept
  <1> QED
    BY <1>18, <1>19, <1>20, <1>21 DEF TurnsInv

\* The only active run is the one that begins.
LEMMA BeginsAlone ==
    ASSUME DirectInv, TurnsInv, NEW q \in Askers, Admit(q), NEW row, run' = Append(run, row), NEW y,
           ask' = [ask EXCEPT ![q] = y], y.at # "prune", y.stored = 0, row.status = "running",
           NEW n, n = Len(run) + 1
    PROVE  /\ n \notin Ids /\ Ids' = Ids \cup {n} /\ run'[n] = row
           /\ \A r \in Ids : run'[r] = run[r] /\ ~IsActive(r)'
           /\ OneActive' /\ Pruners' = Pruners /\ q \notin Pruners
           /\ \A o \in Askers \ {q} : ask'[o].at \in Unstored => ask'[o].run \in Ids
           /\ \A r : Stored(r)' <=> Stored(r)
           /\ \A p : Answered(p)' <=> Answered(p)
           /\ \A id : Known(id) => Known(id)'
           /\ Calmly' => Calmly /\ Fresh /\ Kept
  <1>1. PICK k \in Nat : run = [i \in 1 .. k |-> run[i]]
    BY DEF DirectInv, RowsOK
  <1>2. /\ n \in Nat /\ Ids = 1 .. (n - 1) /\ Ids' = 1 .. n /\ run'[n] = row /\ \A r \in Ids : run'[r] = run[r]
    <2> DEFINE S == {run[i] : i \in DOMAIN run} \cup {row}
    <2>1. DOMAIN run = 1 .. k /\ run \in [1 .. k -> S] /\ row \in S
      BY <1>1
    <2> HIDE DEF S
    <2>2. run \in Seq(S) /\ Len(run) = k
      BY <2>1
    <2>3. /\ DOMAIN run = 1 .. k /\ DOMAIN run' = 1 .. (k + 1) /\ run'[k + 1] = row /\ \A i \in 1 .. k : run'[i] = run[i]
      BY <2>1, <2>2
    <2> QED
      BY <2>2, <2>3 DEF Ids
  <1>3. n \notin Ids /\ Ids' = Ids \cup {n}
    BY <1>2
  <1>4. \A r \in Ids : ~IsActive(r) /\ ~IsActive(r)'
    BY <1>2, <1>3 DEF Admit, IndexAdmits, IsActive
  <1>5. ask'[q] = y /\ \A o \in Askers \ {q} : ask'[o] = ask[o]
    BY DEF DirectInv
  <1>6. ask[q].at \in {"idle", "read"} /\ ask[q].stored = 0
    BY DEF Admit, DirectInv, SoundAsk
  <1>7. Pruners' = Pruners /\ q \notin Pruners
    BY <1>5, <1>6 DEF Pruners
  <1>8. OneActive'
    BY <1>3, <1>4 DEF OneActive
  <1>9. \A o \in Askers : ask'[o].stored = ask[o].stored /\ (ask[o].stored = 1 => ask'[o].run = ask[o].run)
    BY <1>5, <1>6
  <1>10. /\ \A r : Stored(r)' <=> Stored(r)
         /\ \A p : Answered(p)' <=> Answered(p)
         /\ \A id : Known(id) => Known(id)'
    BY <1>2, <1>3, <1>9, AnsweredKept DEF Ids
  <1>11. \A o \in Askers \ {q} : ask'[o].at \in Unstored => ask'[o].run \in Ids
    <2>1. \A o \in Askers : ask[o].at \in Unstored => ask[o].run \in Ids
      BY WorkingIds DEF Unstored
    <2> QED
      BY <1>5, <2>1
  <1>12. Calmly' => Calmly /\ Fresh /\ Kept
    BY <1>2, <1>3 DEF Calmly, TurnsInv
  <1> QED
    BY <1>2, <1>3, <1>4, <1>5, <1>7, <1>8, <1>10, <1>11, <1>12

\* A replay is admitted with the transcript that it read before.
LEMMA AdmitReplayTurns ==
    ASSUME DirectInv, TurnsInv, NEW q \in Askers, Admit(q), ask[q].at = "read" PROVE TurnsInv'
  <1> DEFINE x == ask[q]
             r == Len(run) + 1
             p == IF x.at = "idle" THEN "start" ELSE "graph"
             z == [x EXCEPT !.run = r, !.at = p]
             late == Overtaken(z)
             row == [status |-> "running", prompt |-> z.target, pauses |-> 0, expiry |-> "none", aged |-> FALSE, late |-> late]
  <1>1. /\ ask' = [ask EXCEPT ![q] = z] /\ text' = text /\ run' = Append(run, row)
        /\ p = "graph" /\ \E m \in Questions : m.prompt = z.target
    BY DEF Admit, To
  <1>2. SoundTurn(x) /\ SoundText /\ DOMAIN x = AskFields /\ x.stored = 0 /\ x = ask[q] /\ r = Len(run) + 1
    BY DEF TurnsInv, DirectInv, SoundAsk
  <1>0. late = Overtaken(z)
    OBVIOUS
  <1> HIDE DEF late
  <1>3. row.status = "running" /\ row.prompt = z.target /\ row.late = late
    OBVIOUS
  <1> HIDE DEF row, r, p, x
  <1>4. /\ z.at = "graph" /\ z.run = r /\ z.mode = x.mode /\ z.stored = 0 /\ z.result = x.result
        /\ z.target = x.target /\ z.removed = x.removed
    BY <1>1, <1>2 DEF AskFields
  <1> HIDE DEF z
  <1>5. /\ r \notin Ids /\ Ids' = Ids \cup {r} /\ run'[r] = row
        /\ \A i \in Ids : run'[i] = run[i] /\ ~IsActive(i)'
        /\ OneActive' /\ Pruners' = Pruners /\ q \notin Pruners
        /\ \A o \in Askers \ {q} : ask'[o].at \in Unstored => ask'[o].run \in Ids
        /\ \A i : Stored(i)' <=> Stored(i)
        /\ \A i : Answered(i)' <=> Answered(i)
        /\ \A id : Known(id) => Known(id)'
        /\ Calmly' => Calmly /\ Fresh /\ Kept
    <2>1. /\ q \in Askers /\ Admit(q) /\ run' = Append(run, row) /\ ask' = [ask EXCEPT ![q] = z] /\ z.at # "prune"
          /\ z.stored = 0 /\ row.status = "running" /\ r = Len(run) + 1 /\ DirectInv /\ TurnsInv
      BY <1>1, <1>2, <1>3, <1>4
    <2>2. r \notin Ids
      BY <2>1, BeginsAlone
    <2>10. Ids' = Ids \cup {r}
      BY <2>1, BeginsAlone
    <2>11. run'[r] = row
      BY <2>1, BeginsAlone
    <2>3. \A i \in Ids : run'[i] = run[i] /\ ~IsActive(i)'
      BY <2>1, BeginsAlone
    <2>4. OneActive' /\ Pruners' = Pruners /\ q \notin Pruners
      BY <2>1, BeginsAlone
    <2>5. \A o \in Askers \ {q} : ask'[o].at \in Unstored => ask'[o].run \in Ids
      BY <2>1, BeginsAlone
    <2>6. \A i : Stored(i)' <=> Stored(i)
      BY <2>1, BeginsAlone
    <2>7. \A i : Answered(i)' <=> Answered(i)
      BY <2>1, BeginsAlone
    <2>8. \A i : Known(i) => Known(i)'
      BY <2>1, BeginsAlone
    <2>9. Calmly' => Calmly /\ Fresh /\ Kept
      BY <2>1, BeginsAlone
    <2> QED
      BY <2>2, <2>3, <2>4, <2>5, <2>6, <2>7, <2>8, <2>9, <2>10, <2>11
  <1>12. ask'[q] = z /\ \A o \in Askers \ {q} : ask'[o] = ask[o]
    BY <1>1 DEF DirectInv
  <1>6. Questions' = Questions /\ Answers' = Answers
    BY <1>1 DEF Questions, Answers
  <1>7. z.target \in Ids
    BY <1>1, <1>2 DEF SoundText, SoundMessage, Known, Questions
  <1>8. ASSUME NEW o \in Askers \ {q} PROVE SoundTurn(ask[o])'
    <2>1. SoundTurn(ask[o]) /\ ask'[o] = ask[o]
      BY <1>5, <1>12 DEF TurnsInv
    <2>2. ask[o].at \in Working => ask[o].run \in Ids /\ run'[ask[o].run] = run[ask[o].run]
      BY <1>5, <1>12, WorkingIds
    <2>3. ask[o].removed # {} => ask[o].target \in Ids'
      BY <1>5, <1>12, <2>1 DEF SoundTurn
    <2> QED
      BY <1>1, <1>5, <1>12, <1>6, <2>1, <2>2, <2>3 DEF SoundTurn
  <1>9. SoundTurn(ask[q])'
    <2>1. z.at \in Working /\ z.at # "pause" /\ z.at # "claim" /\ z.target = run'[z.run].prompt
      BY <1>3, <1>4, <1>5, <1>12 DEF Working, Looping
    <2> QED
      BY <1>1, <1>2, <1>4, <1>5, <1>12, <1>6, <1>7, <2>1 DEF SoundTurn
  <1>10. SoundText'
    <2>1. \A m \in text : SoundMessage(m)'
      BY <1>2, <1>5, <1>12 DEF SoundText, SoundMessage, Known
    <2>2. \A i \in Ids' : run'[i].prompt \in Ids'
      BY <1>2, <1>3, <1>5, <1>12, <1>7 DEF SoundText
    <2> QED
      BY <1>1, <1>2, <2>1, <2>2 DEF SoundText
  <1>11. ASSUME Calmly' PROVE Fresh' /\ Kept'
    <2>1. ~Overtaken(z) /\ Kept
      BY <1>0, <1>3, <1>5, <1>12, <1>11 DEF Calmly
    <2>2. PICK m \in Questions : m.prompt = z.target
      BY <1>1
    <2>3. /\ \A y \in Questions : y.at > m.at => y.id \in z.removed
          /\ \A o \in Askers : ask[o].at = "prune" => m.id \notin ask[o].removed
          /\ \E y \in Answers : y.prompt = z.target
      BY <2>1, <2>2 DEF Overtaken
    <2>4. Current(ask[q].run, ask[q].removed)'
      <3>1. ~Doomed(m.id, Pruners)'
        BY <1>5, <1>12, <2>3 DEF Doomed, Pruners
      <3>2. ask'[q].run = r /\ ask'[q].removed = z.removed /\ m.prompt = run'[ask'[q].run].prompt
        BY <1>3, <1>4, <1>5, <1>12, <2>2
      <3> QED
        BY <1>6, <2>3, <3>1, <3>2 DEF Current
    <2>5. Answered(run[ask[q].run].prompt)'
      <3>1. PICK y \in Answers : y.prompt = z.target
        BY <2>3
      <3>2. y.run \in Ids /\ y.prompt = run[y.run].prompt /\ Stored(y.run)
        BY <1>2 DEF SoundText, SoundMessage, Known, Answers
      <3>3. Answered(z.target)
        BY <3>1, <3>2 DEF Answered, Stored
      <3>4. run'[ask'[q].run].prompt = z.target
        BY <1>3, <1>4, <1>5, <1>12
      <3> QED
        BY <1>5, <1>12, <3>3, <3>4
    <2>6. \A o \in Askers : ask'[o].at \in Unstored /\ IsActive(ask[o].run)' => o = q
      BY <1>5, <1>12 DEF IsActive
    <2>7. \A i \in Ids' : run'[i].status # "waiting"
      BY <1>3, <1>5, <1>12 DEF IsActive, ActiveRunStatuses
    <2>8. Fresh'
      BY <2>4, <2>5, <2>6, <2>7 DEF Fresh
    <2>9. ASSUME NEW P \in SUBSET Pruners, NEW n \in Questions, Answered(n.prompt)', ~Doomed(n.id, P)'
          PROVE  Keeps(n, P)'
      <3>1. \A id : Doomed(id, P)' <=> Doomed(id, P)
        BY <1>5, <1>12 DEF Doomed, Pruners
      <3>2. Keeps(n, P)
        BY <1>5, <1>12, <2>1, <2>9, <3>1 DEF Kept
      <3> QED
        BY <1>6, <3>1, <3>2 DEF Keeps
    <2> QED
      BY <1>5, <1>12, <1>6, <2>8, <2>9 DEF Kept
  <1> QED
    BY <1>5, <1>12, <1>8, <1>9, <1>10, <1>11 DEF TurnsInv

\* A message is sent, as the latest of the transcript.
LEMMA AdmitMessageTurns ==
    ASSUME DirectInv, TurnsInv, NEW q \in Askers, Admit(q), ask[q].at = "idle" PROVE TurnsInv'
  <1> DEFINE r == Len(run) + 1
             id == <<"user", r, 0>>
             row == [status |-> "running", prompt |-> r, pauses |-> 0, expiry |-> "none", aged |-> FALSE, late |-> FALSE]
  <1> PICK new : new = Latest(id, r, r)
    OBVIOUS
  <1>1. PICK mode \in Modes \ (Replays \cup Resumes) :
          ask' = [ask EXCEPT ![q] = [[ask[q] EXCEPT !.run = r, !.at = "start"] EXCEPT !.mode = mode]]
    BY DEF Admit, To
  <1>2. text' = text \cup {new} /\ run' = Append(run, row)
    BY DEF Admit
  <1> DEFINE z == [[ask[q] EXCEPT !.run = r, !.at = "start"] EXCEPT !.mode = mode]
  <1>3. ask' = [ask EXCEPT ![q] = z] /\ SoundText /\ ask[q] = NoAsk /\ r = Len(run) + 1 /\ id[1] = "user" /\ id[2] = r
    BY <1>1 DEF TurnsInv, DirectInv, SoundAsk
  <1>4. row.status = "running" /\ row.prompt = r /\ row.late = FALSE
    OBVIOUS
  <1> HIDE DEF row, r, id
  <1>5. /\ z.at = "start" /\ z.run = r /\ z.mode = mode /\ z.stored = 0 /\ z.result = "none"
        /\ z.target = 0 /\ z.removed = {}
    BY <1>3 DEF NoAsk
  <1> HIDE DEF z
  <1>6. /\ r \notin Ids /\ Ids' = Ids \cup {r} /\ run'[r] = row
        /\ \A i \in Ids : run'[i] = run[i] /\ ~IsActive(i)'
        /\ OneActive' /\ Pruners' = Pruners /\ q \notin Pruners
        /\ \A o \in Askers \ {q} : ask'[o].at \in Unstored => ask'[o].run \in Ids
        /\ \A i : Stored(i)' <=> Stored(i)
        /\ \A i : Answered(i)' <=> Answered(i)
        /\ \A i : Known(i) => Known(i)'
        /\ Calmly' => Calmly /\ Fresh /\ Kept
    <2>1. /\ q \in Askers /\ Admit(q) /\ run' = Append(run, row) /\ ask' = [ask EXCEPT ![q] = z] /\ z.at # "prune"
          /\ z.stored = 0 /\ row.status = "running" /\ r = Len(run) + 1 /\ DirectInv /\ TurnsInv
      BY <1>2, <1>3, <1>4, <1>5
    <2>2. r \notin Ids
      BY <2>1, BeginsAlone
    <2>10. Ids' = Ids \cup {r}
      BY <2>1, BeginsAlone
    <2>11. run'[r] = row
      BY <2>1, BeginsAlone
    <2>3. \A i \in Ids : run'[i] = run[i] /\ ~IsActive(i)'
      BY <2>1, BeginsAlone
    <2>4. OneActive' /\ Pruners' = Pruners /\ q \notin Pruners
      BY <2>1, BeginsAlone
    <2>5. \A o \in Askers \ {q} : ask'[o].at \in Unstored => ask'[o].run \in Ids
      BY <2>1, BeginsAlone
    <2>6. \A i : Stored(i)' <=> Stored(i)
      BY <2>1, BeginsAlone
    <2>7. \A i : Answered(i)' <=> Answered(i)
      BY <2>1, BeginsAlone
    <2>8. \A i : Known(i) => Known(i)'
      BY <2>1, BeginsAlone
    <2>9. Calmly' => Calmly /\ Fresh /\ Kept
      BY <2>1, BeginsAlone
    <2> QED
      BY <2>2, <2>3, <2>4, <2>5, <2>6, <2>7, <2>8, <2>9, <2>10, <2>11
  <1>15. ask'[q] = z /\ \A o \in Askers \ {q} : ask'[o] = ask[o]
    BY <1>3 DEF DirectInv
  <1>7. new.id = id /\ new.who = "user" /\ new.run = r /\ new.prompt = r /\ new.at \in Nat /\ \A m \in text : m.at < new.at
    BY <1>3, LatestAt
  <1>8. Questions' = Questions \cup {new} /\ Answers' = Answers
    BY <1>2, <1>7 DEF Questions, Answers
  <1>9. ~Known(new.id) /\ Known(new.id)'
    BY <1>3, <1>6, <1>15, <1>7 DEF Known
  <1>10. \A m \in text : SoundMessage(m) /\ m.run \in Ids /\ m.at \in Nat
    BY <1>3 DEF SoundText, SoundMessage, Known
  <1>11. ASSUME NEW o \in Askers \ {q} PROVE SoundTurn(ask[o])'
    <2>1. SoundTurn(ask[o]) /\ ask'[o] = ask[o]
      BY <1>6, <1>15 DEF TurnsInv
    <2>2. ask[o].at \in Working => ask[o].run \in Ids
      BY WorkingIds
    <2>3. \A m \in Questions', y \in text' : m.prompt = ask'[o].target /\ y.id \in ask'[o].removed => m.at < y.at
      <3>1. new.id \notin ask[o].removed
        BY <1>9, <2>1 DEF SoundTurn
      <3>2. ask[o].removed # {} => ask[o].target # r
        BY <1>6, <1>15, <2>1 DEF SoundTurn
      <3>3. ask'[o].target = ask[o].target /\ ask'[o].removed = ask[o].removed
        BY <2>1
      <3>4. \A m \in Questions, y \in text : m.prompt = ask[o].target /\ y.id \in ask[o].removed => m.at < y.at
        BY <2>1 DEF SoundTurn
      <3> QED
        BY <1>2, <1>7, <1>8, <3>1, <3>2, <3>3, <3>4
    <2> QED
      BY <1>6, <1>15, <2>1, <2>2, <2>3 DEF SoundTurn
  <1>12. SoundTurn(ask[q])'
    BY <1>5, <1>6, <1>15 DEF SoundTurn
  <1>13. SoundText'
    <2>1. \A m \in text : SoundMessage(m)'
      BY <1>6, <1>15, <1>10 DEF SoundMessage
    <2>2. SoundMessage(new)'
      BY <1>3, <1>6, <1>15, <1>7, <1>9 DEF SoundMessage
    <2>3. \A m, n \in text' : m.at = n.at \/ (m.who = n.who /\ m.run = n.run) => m = n
      <3>1. \A m, n \in text : m.at = n.at \/ (m.who = n.who /\ m.run = n.run) => m = n
        BY <1>3 DEF SoundText
      <3>2. \A m \in text : m.at # new.at /\ m.run # new.run
        BY <1>6, <1>15, <1>7, <1>10
      <3> QED
        BY <1>2, <3>1, <3>2
    <2>4. \A m \in text' : m.at <= new.at
      BY <1>2, <1>7, <1>10
    <2>5. \A i \in Ids' : run'[i].prompt \in Ids'
      BY <1>3, <1>4, <1>6, <1>15 DEF SoundText
    <2> QED
      BY <1>2, <1>7, <2>1, <2>2, <2>3, <2>4, <2>5 DEF SoundText
  <1>14. ASSUME Calmly' PROVE Fresh' /\ Kept'
    <2>1. Kept
      BY <1>6, <1>15, <1>14
    <2>2. \A o \in Askers : new.id \notin ask[o].removed
      BY <1>9 DEF TurnsInv, SoundTurn
    <2>3. Pruners \subseteq Askers /\ \A o \in Pruners : ask'[o] = ask[o]
      BY <1>6, <1>15 DEF Pruners
    <2>4. Current(ask[q].run, ask[q].removed)' /\ ask'[q].mode \notin Replays
      <3>1. ~Doomed(new.id, Pruners)'
        BY <1>6, <1>15, <2>2, <2>3 DEF Doomed
      <3>2. ask'[q].run = r /\ new.prompt = run'[ask'[q].run].prompt /\ ask'[q].mode \notin Replays
        BY <1>1, <1>4, <1>5, <1>6, <1>15, <1>7
      <3>3. \A y \in Questions' : ~(y.at > new.at)
        BY <1>7, <1>8, <1>10 DEF Questions
      <3> QED
        BY <1>8, <3>1, <3>2, <3>3 DEF Current
    <2>5. \A o \in Askers : ask'[o].at \in Unstored /\ IsActive(ask[o].run)' => o = q
      BY <1>6, <1>15 DEF IsActive
    <2>6. \A i \in Ids' : run'[i].status # "waiting"
      BY <1>4, <1>6, <1>15 DEF IsActive, ActiveRunStatuses
    <2>7. Fresh'
      BY <2>4, <2>5, <2>6 DEF Fresh
    <2>8. ASSUME NEW P \in SUBSET Pruners, NEW m \in Questions', Answered(m.prompt)', ~Doomed(m.id, P)'
          PROVE  Keeps(m, P)'
      <3>1. \A i : Doomed(i, P)' <=> Doomed(i, P)
        BY <2>3 DEF Doomed
      <3>2. m # new
        <4>1. \A o \in Askers : ask[o].stored = 1 => ask[o].run \in Ids /\ run[ask[o].run].prompt \in Ids
          BY <1>3, WorkingIds DEF SoundText
        <4> QED
          BY <1>6, <1>15, <1>7, <2>8, <4>1 DEF Answered
      <3>3. m \in Questions
        BY <1>8, <3>2
      <3>4. PICK a \in Answers : /\ ~Doomed(a.id, P) /\ a.prompt = m.prompt /\ m.at < a.at
                                 /\ \A y \in Questions : m.at < y.at /\ y.at < a.at => Doomed(y.id, P)
        BY <1>6, <1>15, <2>1, <2>8, <3>1, <3>3 DEF Kept, Keeps
      <3>5. ~(new.at < a.at)
        BY <1>7, <1>10 DEF Answers
      <3>6. a \in Answers' /\ \A y \in Questions' : m.at < y.at /\ y.at < a.at => Doomed(y.id, P)'
        BY <1>8, <3>1, <3>4, <3>5
      <3> QED
        BY <3>1, <3>4, <3>6 DEF Keeps
    <2> QED
      BY <1>6, <1>15, <2>7, <2>8 DEF Kept
  <1> QED
    BY <1>6, <1>15, <1>11, <1>12, <1>13, <1>14 DEF TurnsInv

\* Rows stay, or one is written.
LEMMA SameRowsTurns ==
    ASSUME DirectInv, TurnsInv, text' = text, run' = run,
           \A o \in Askers : ask'[o] = ask[o] \/ Follows(ask'[o], ask[o])
    PROVE  TurnsInv'
  <1>1. DOMAIN run' = DOMAIN run /\ \A r \in Ids : IsActive(r)' => IsActive(r)
    BY DEF IsActive
  <1>2. \A r \in Ids : RowFollows(r)
    BY DEF RowFollows, IsActive
  <1>3. \A r \in Ids \ {0} : IsActive(r)' => IsActive(r)
    BY <1>1
  <1> QED
    BY <1>1, <1>2, <1>3, FollowsKeep

LEMMA OneRowTurns ==
    ASSUME DirectInv, TurnsInv, text' = text, NEW r, NEW row, run' = [run EXCEPT ![r] = row],
           r \in Ids => /\ row.prompt = run[r].prompt /\ (run[r].late => row.late)
                        /\ row.status \in ActiveRunStatuses => IsActive(r) \/ (row.late /\ IndexAdmits(r))
                        /\ row.status = "waiting" =>
                             \/ run[r].status = "waiting" \/ row.late
                             \/ IsActive(r) /\ \E o \in Askers : ask[o].at \in Unstored /\ ask[o].run = r /\ ask[o].removed = {},
           \A o \in Askers : ask'[o] = ask[o] \/ Follows(ask'[o], ask[o])
    PROVE  TurnsInv'
  <1>1. PICK n \in Nat : run = [i \in 1 .. n |-> run[i]]
    BY DEF DirectInv, RowsOK
  <1>2. CASE r \notin Ids
    <2>1. run' = run
      BY <1>1, <1>2 DEF Ids
    <2> QED
      BY <2>1, SameRowsTurns
  <1>3. CASE r \in Ids
    <2>1. DOMAIN run' = DOMAIN run /\ run'[r] = row /\ \A i \in Ids \ {r} : run'[i] = run[i]
      BY <1>1, <1>3 DEF Ids
    <2>2. \A i \in Ids : RowFollows(i)
      <3>1. RowFollows(r)
        BY <1>3, <2>1 DEF RowFollows
      <3>2. \A i \in Ids \ {r} : RowFollows(i)
        BY <2>1 DEF RowFollows, IsActive
      <3> QED
        BY <3>1, <3>2
    <2>3. \A i \in Ids \ {r} : IsActive(i)' => IsActive(i)
      BY <2>1 DEF IsActive
    <2> QED
      BY <2>1, <2>2, <2>3, FollowsKeep
  <1> QED
    BY <1>2, <1>3

\* A status that ends a run is written.
LEMMA WriteTurns ==
    ASSUME DirectInv, TurnsInv, text' = text, NEW r \in Ids, NEW status, status \notin ActiveRunStatuses, Write(r, status),
           \A o \in Askers : ask'[o] = ask[o] \/ Follows(ask'[o], ask[o])
    PROVE  TurnsInv'
  <1> DEFINE e == IF status \in {"completed", "failed"} THEN "none" ELSE run[r].expiry
             row == [run[r] EXCEPT !.status = status, !.expiry = e]
  <1>1. run' = [run EXCEPT ![r] = row] /\ DOMAIN run[r] = RunFields
    BY DEF Write, DirectInv, RowsOK, Ids
  <1> HIDE DEF e
  <1>2. row.prompt = run[r].prompt /\ row.late = run[r].late /\ row.status = status
    BY <1>1 DEF RunFields
  <1> HIDE DEF row
  <1>3. row.status # "waiting" /\ row.status \notin ActiveRunStatuses
    BY <1>2 DEF ActiveRunStatuses
  <1> QED
    BY <1>1, <1>2, <1>3, OneRowTurns

\* One request takes a step.
LEMMA OneFollows ==
    ASSUME DirectInv, NEW q \in Askers, NEW y, ask' = [ask EXCEPT ![q] = y], Follows(y, ask[q])
    PROVE  \A o \in Askers : ask'[o] = ask[o] \/ Follows(ask'[o], ask[o])
  <1>1. ask'[q] = y /\ \A o \in Askers \ {q} : ask'[o] = ask[o]
    BY DEF DirectInv
  <1> QED
    BY <1>1

\* A request ends.
LEMMA EndFollows ==
    ASSUME DirectInv, NEW q \in Askers, NEW x, End(q, x), x.stored = ask[q].stored, x.run = ask[q].run
    PROVE  \A o \in Askers : ask'[o] = ask[o] \/ Follows(ask'[o], ask[o])
  <1> DEFINE y == [NoAsk EXCEPT !.at = "done", !.mode = x.mode, !.run = x.run, !.stored = x.stored, !.wire = x.wire]
  <1>1. ask' = [ask EXCEPT ![q] = y]
    BY DEF End, To
  <1>2. y.at = "done" /\ y.run = x.run /\ y.stored = x.stored /\ y.removed = {} /\ y.result = "none"
    BY DEF NoAsk
  <1> HIDE DEF y
  <1>3. Follows(y, ask[q])
    BY <1>2 DEF Follows, Unstored, Working, Looping
  <1> QED
    BY <1>1, <1>3, OneFollows

\* A request works on.
LEMMA OnFollows ==
    ASSUME NEW x, NEW y, x.at \in Unstored, y.at \in Unstored, y.run = x.run, y.stored = x.stored, y.mode = x.mode,
           y.removed = x.removed, y.target = x.target, y.result = "interrupt" => y.mode \notin Replays,
           y.at = "pause" => y.result = "interrupt"
    PROVE  Follows(y, x)
  BY DEF Follows, Unstored, Working, Looping

LEMMA SaySame ==
    ASSUME NEW x, DOMAIN x = AskFields, NEW frames, NEW z, z = Say(x, frames)
    PROVE  /\ DOMAIN z = AskFields /\ z.at = x.at /\ z.run = x.run /\ z.stored = x.stored /\ z.mode = x.mode
           /\ z.removed = x.removed /\ z.target = x.target /\ z.result = x.result
  BY DEF Say, AskFields

LEMMA MarkTurns ==
    ASSUME DirectInv, TurnsInv, NEW q \in Askers, ask[q].at \in Working, MarkCancelled(q, ask[q]) PROVE TurnsInv'
  <1> DEFINE z == Say(ask[q], <<"cancelled">>)
  <1>1. DOMAIN ask[q] = AskFields /\ ask[q].run \in Ids
    BY WorkingIds DEF DirectInv, SoundAsk
  <1>2. z.run = ask[q].run /\ z.stored = ask[q].stored
    BY <1>1, SaySame
  <1>3. End(q, z) /\ Write(ask[q].run, "cancelled") /\ text' = text
    BY DEF MarkCancelled
  <1> HIDE DEF z
  <1>4. \A o \in Askers : ask'[o] = ask[o] \/ Follows(ask'[o], ask[o])
    BY <1>2, <1>3, EndFollows
  <1>5. "cancelled" \notin ActiveRunStatuses
    BY DEF ActiveRunStatuses
  <1> QED
    BY <1>1, <1>3, <1>4, <1>5, WriteTurns

\* A request moves on, or says something.
LEMMA MovesTurns ==
    ASSUME DirectInv, TurnsInv, text' = text, run' = run, NEW q \in Askers, ask[q].at \in Unstored, NEW p,
           p \in Unstored \ {"pause"} \/ (p = "pause" /\ ask[q].result = "interrupt"),
           ask' = [ask EXCEPT ![q] = [ask[q] EXCEPT !.at = p]]
    PROVE  TurnsInv'
  <1> DEFINE x == ask[q]
             y == [x EXCEPT !.at = p]
  <1>1. DOMAIN x = AskFields /\ (x.result = "interrupt" => x.mode \notin Replays) /\ ask' = [ask EXCEPT ![q] = y]
        /\ x.at \in Unstored /\ (p = "pause" => x.result = "interrupt")
    BY DEF DirectInv, SoundAsk, TurnsInv, SoundTurn
  <1>2. p \in Unstored
    BY DEF Unstored, Working
  <1>6. x = ask[q]
    OBVIOUS
  <1> HIDE DEF x
  <1>3. /\ y.at = p /\ y.run = x.run /\ y.stored = x.stored /\ y.mode = x.mode /\ y.removed = x.removed
        /\ y.target = x.target /\ y.result = x.result
    BY <1>1 DEF AskFields
  <1> HIDE DEF y
  <1>4. Follows(y, x)
    BY <1>1, <1>2, <1>3, OnFollows
  <1>5. \A o \in Askers : ask'[o] = ask[o] \/ Follows(ask'[o], ask[o])
    BY <1>1, <1>4, <1>6, OneFollows
  <1> QED
    BY <1>5, SameRowsTurns

\* The steps at which a stream may find that it was stopped, and otherwise moves on.
LEMMA AsksTurns ==
    ASSUME DirectInv, TurnsInv, NEW q \in Askers, Start(q) \/ Recorded(q) \/ FinalResumed(q) \/ LastAsked(q) PROVE TurnsInv'
  <1> DEFINE x == ask[q]
  <1>1. x.at \in {"start", "recorded", "final", "asked"} /\ x.at \in Unstored /\ x.at \in Working
    BY DEF Start, Recorded, FinalResumed, LastAsked, Unstored, Working, Looping
  <1>2. CASE MarkCancelled(q, x)
    BY <1>1, <1>2, MarkTurns
  <1>3. CASE ~MarkCancelled(q, x)
    <2>1. PICK p : /\ p \in {"graph", "item", "commit"} \/ (p = OutcomeResumed(x) /\ p \in {"pause", "commit", "answer"})
                   /\ ask' = [ask EXCEPT ![q] = [ask[q] EXCEPT !.at = p]] /\ run' = run /\ text' = text
      <3>1. OutcomeResumed(x) \in {"pause", "commit", "answer"}
        BY DEF OutcomeResumed
      <3> QED
        BY <1>3, <3>1 DEF Start, Recorded, FinalResumed, LastAsked, To
    <2>2. p \in Unstored \ {"pause"} \/ (p = "pause" /\ x.result = "interrupt")
      BY <2>1 DEF OutcomeResumed, Unstored, Working, Looping
    <2> QED
      BY <1>1, <2>1, <2>2, MovesTurns
  <1> QED
    BY <1>2, <1>3

LEMMA FinalTurns ==
    ASSUME DirectInv, TurnsInv, NEW q \in Askers, Final(q) PROVE TurnsInv'
  <1> DEFINE p == Outcome(ask[q])
  <1>1. ask[q].at \in Unstored /\ text' = text /\ run' = run /\ ask' = [ask EXCEPT ![q] = [ask[q] EXCEPT !.at = p]]
    BY DEF Final, Unstored, Working, Looping, To
  <1>2. p \in Unstored \ {"pause"} \/ (p = "pause" /\ ask[q].result = "interrupt")
    BY DEF Outcome, Unstored, Working, Looping
  <1> HIDE DEF p
  <1> QED
    BY <1>1, <1>2, MovesTurns

\* A request learns or says something and works on.
LEMMA WorksTurns ==
    ASSUME DirectInv, TurnsInv, text' = text, run' = run, NEW q \in Askers, ask[q].at \in Unstored, NEW y,
           ask' = [ask EXCEPT ![q] = y], y.at \in Unstored \ {"pause"}, y.run = ask[q].run, y.stored = ask[q].stored,
           y.mode = ask[q].mode, y.removed = ask[q].removed, y.target = ask[q].target,
           y.result = "interrupt" => ask[q].mode \notin Replays
    PROVE  TurnsInv'
  <1>1. Follows(y, ask[q])
    BY OnFollows
  <1>2. \A o \in Askers : ask'[o] = ask[o] \/ Follows(ask'[o], ask[o])
    BY <1>1, OneFollows
  <1> QED
    BY <1>2, SameRowsTurns

LEMMA GraphItemTurns ==
    ASSUME DirectInv, TurnsInv, NEW q \in Askers, GraphItem(q) PROVE TurnsInv'
  <1> DEFINE x == ask[q]
  <1>1. DOMAIN x = AskFields /\ x.at \in Unstored /\ text' = text /\ run' = run /\ x = ask[q]
    BY DEF DirectInv, SoundAsk, GraphItem, Unstored, Working, Looping
  <1>2. PICK e \in IF x.mode = "resume" THEN EmitsResumed(x) ELSE Emits(x) :
          LET y == [x EXCEPT !.item = e.item, !.found = e.found, !.result = e.result]
          IN  To(q, IF Records(x, e.item, e.found)
                    THEN [Say(y, <<"retrieval">>) EXCEPT !.context = e.found, !.at = "recorded"]
                    ELSE [y EXCEPT !.at = "item"])
    BY DEF GraphItem
  <1>3. e.result = "interrupt" => x.mode \notin Replays
    <2>1. ASSUME NEW f \in Emits(x), f.result = "interrupt" PROVE x.mode \notin Replays
      BY <2>1 DEF Emits, MayPause
    <2>2. CASE e \in Emits(x)
      BY <2>1, <2>2
    <2>3. CASE x.mode = "resume"
      BY <2>3 DEF Replays
    <2> QED
      BY <1>2, <2>2, <2>3
  <1> DEFINE y == [x EXCEPT !.item = e.item, !.found = e.found, !.result = e.result]
             z == Say(y, <<"retrieval">>)
  <1>4. ask' = [ask EXCEPT ![q] = [z EXCEPT !.context = e.found, !.at = "recorded"]]
        \/ ask' = [ask EXCEPT ![q] = [y EXCEPT !.at = "item"]]
    BY <1>2 DEF To
  <1> HIDE DEF x
  <1>5. /\ DOMAIN y = AskFields /\ y.run = x.run /\ y.stored = x.stored /\ y.mode = x.mode
        /\ y.removed = x.removed /\ y.target = x.target /\ y.result = e.result
    BY <1>1 DEF AskFields
  <1> HIDE DEF y
  <1>6. /\ DOMAIN z = AskFields /\ z.run = x.run /\ z.stored = x.stored /\ z.mode = x.mode
        /\ z.removed = x.removed /\ z.target = x.target /\ z.result = e.result
    BY <1>5, SaySame
  <1> HIDE DEF z
  <1>7. CASE ask' = [ask EXCEPT ![q] = [z EXCEPT !.context = e.found, !.at = "recorded"]]
    <2> DEFINE v == [z EXCEPT !.context = e.found, !.at = "recorded"]
    <2>1. /\ v.at = "recorded" /\ v.run = x.run /\ v.stored = x.stored /\ v.mode = x.mode
          /\ v.removed = x.removed /\ v.target = x.target /\ v.result = e.result
      BY <1>6 DEF AskFields
    <2>2. ask' = [ask EXCEPT ![q] = v] /\ "recorded" \in Unstored \ {"pause"}
      BY <1>7 DEF Unstored, Working, Looping
    <2> HIDE DEF v
    <2> QED
      BY <1>1, <1>3, <2>1, <2>2, WorksTurns
  <1>8. CASE ask' = [ask EXCEPT ![q] = [y EXCEPT !.at = "item"]]
    <2> DEFINE v == [y EXCEPT !.at = "item"]
    <2>1. /\ v.at = "item" /\ v.run = x.run /\ v.stored = x.stored /\ v.mode = x.mode
          /\ v.removed = x.removed /\ v.target = x.target /\ v.result = e.result
      BY <1>5 DEF AskFields
    <2>2. ask' = [ask EXCEPT ![q] = v] /\ "item" \in Unstored \ {"pause"}
      BY <1>8 DEF Unstored, Working, Looping
    <2> HIDE DEF v
    <2> QED
      BY <1>1, <1>3, <2>1, <2>2, WorksTurns
  <1> QED
    BY <1>4, <1>7, <1>8

LEMMA GraphResultTurns ==
    ASSUME DirectInv, TurnsInv, NEW q \in Askers, GraphResult(q) PROVE TurnsInv'
  <1> DEFINE x == ask[q]
  <1>1. DOMAIN x = AskFields /\ x.at \in Unstored /\ text' = text /\ run' = run /\ x = ask[q]
    BY DEF DirectInv, SoundAsk, GraphResult, Unstored, Working, Looping
  <1>2. PICK e \in Collects(x) :
          ask' = [ask EXCEPT ![q] = [x EXCEPT !.found = e.found, !.context = e.found, !.result = e.result, !.at = "final"]]
    BY DEF GraphResult, To
  <1>3. e.result = "interrupt" => x.mode \notin Replays
    BY <1>2 DEF Collects, MayPause
  <1> DEFINE v == [x EXCEPT !.found = e.found, !.context = e.found, !.result = e.result, !.at = "final"]
  <1>4. ask' = [ask EXCEPT ![q] = v] /\ "final" \in Unstored \ {"pause"}
    BY <1>2 DEF Unstored, Working, Looping
  <1> HIDE DEF x
  <1>5. /\ v.at = "final" /\ v.run = x.run /\ v.stored = x.stored /\ v.mode = x.mode
        /\ v.removed = x.removed /\ v.target = x.target /\ v.result = e.result
    BY <1>1 DEF AskFields
  <1> HIDE DEF v
  <1> QED
    BY <1>1, <1>3, <1>4, <1>5, WorksTurns

LEMMA ItemInvokesTurns ==
    ASSUME DirectInv, TurnsInv, NEW q \in Askers, ItemInvokes(q) PROVE TurnsInv'
  <1> DEFINE x == ask[q]
             z == Say(x, <<"invoked">>)
             v == [z EXCEPT !.invoked = TRUE, !.at = "deliver"]
             w == [x EXCEPT !.at = "deliver"]
  <1>1. x.at \in Unstored /\ text' = text /\ run' = run /\ x = ask[q] /\ "deliver" \in Unstored \ {"pause"}
        /\ (ask' = [ask EXCEPT ![q] = v] \/ ask' = [ask EXCEPT ![q] = w])
    BY DEF ItemInvokes, Unstored, Working, Looping, To
  <1>2. DOMAIN x = AskFields /\ (x.result = "interrupt" => x.mode \notin Replays)
    BY DEF DirectInv, SoundAsk, TurnsInv, SoundTurn
  <1>3. CASE ask' = [ask EXCEPT ![q] = v]
    <2>1. z = Say(x, <<"invoked">>)
      OBVIOUS
    <2> HIDE DEF z, x
    <2>2. /\ DOMAIN z = AskFields /\ z.run = x.run /\ z.stored = x.stored /\ z.mode = x.mode
          /\ z.removed = x.removed /\ z.target = x.target /\ z.result = x.result
      BY <1>2, <2>1, SaySame
    <2>3. /\ v.at = "deliver" /\ v.run = x.run /\ v.stored = x.stored /\ v.mode = x.mode
          /\ v.removed = x.removed /\ v.target = x.target /\ v.result = x.result
      BY <2>2 DEF AskFields
    <2> HIDE DEF v
    <2> QED
      BY <1>1, <1>2, <1>3, <2>3, WorksTurns
  <1>4. CASE ask' = [ask EXCEPT ![q] = w]
    BY <1>1, <1>4, MovesTurns
  <1> QED
    BY <1>1, <1>3, <1>4

LEMMA DeliverTurns ==
    ASSUME DirectInv, TurnsInv, NEW q \in Askers, Deliver(q) PROVE TurnsInv'
  <1> DEFINE x == ask[q]
  <1>1. x.at \in Unstored /\ x.at \in Working /\ x = ask[q]
    BY DEF Deliver, Unstored, Working, Looping
  <1>5. DOMAIN x = AskFields /\ (x.result = "interrupt" => x.mode \notin Replays)
    BY DEF DirectInv, SoundAsk, TurnsInv, SoundTurn
  <1>2. CASE MarkCancelled(q, x)
    BY <1>1, <1>2, MarkTurns
  <1>3. CASE x.item = "delta" /\ ~MarkCancelled(q, x)
    <2> DEFINE z == Say(x, <<"delta">>)
               n == z.deltas + 1
               v == [z EXCEPT !.deltas = n, !.at = "graph"]
    <2>1. ask' = [ask EXCEPT ![q] = v] /\ run' = run /\ text' = text
      BY <1>3 DEF Deliver, To
    <2>2. z = Say(x, <<"delta">>) /\ "graph" \in Unstored \ {"pause"}
      BY DEF Unstored, Working, Looping
    <2> HIDE DEF z, x, n
    <2>3. /\ DOMAIN z = AskFields /\ z.run = x.run /\ z.stored = x.stored /\ z.mode = x.mode
          /\ z.removed = x.removed /\ z.target = x.target /\ z.result = x.result
      BY <1>5, <2>2, SaySame
    <2>4. /\ v.at = "graph" /\ v.run = x.run /\ v.stored = x.stored /\ v.mode = x.mode
          /\ v.removed = x.removed /\ v.target = x.target /\ v.result = x.result
      BY <2>3 DEF AskFields
    <2> HIDE DEF v
    <2> QED
      BY <1>1, <1>5, <2>1, <2>2, <2>4, WorksTurns
  <1>4. CASE x.item # "delta" /\ ~MarkCancelled(q, x)
    <2> DEFINE p == IF x.item = "result" THEN "final" ELSE "graph"
    <2>1. ask' = [ask EXCEPT ![q] = [ask[q] EXCEPT !.at = p]] /\ run' = run /\ text' = text
      BY <1>4 DEF Deliver, To
    <2>2. p \in Unstored \ {"pause"}
      BY DEF Unstored, Working, Looping
    <2> HIDE DEF p
    <2> QED
      BY <1>1, <2>1, <2>2, MovesTurns
  <1> QED
    BY <1>2, <1>3, <1>4

LEMMA AnswerTurns ==
    ASSUME DirectInv, TurnsInv, NEW q \in Askers, Answer(q) PROVE TurnsInv'
  <1> DEFINE x == ask[q]
             frames == IF x.invoked THEN << >> ELSE <<"invoked">>
             z == Say(x, frames)
             v == [z EXCEPT !.invoked = TRUE, !.at = "fallback"]
  <1>1. x.at \in Unstored /\ text' = text /\ run' = run /\ x = ask[q] /\ "fallback" \in Unstored \ {"pause"}
        /\ ask' = [ask EXCEPT ![q] = v]
    BY DEF Answer, Unstored, Working, Looping, To
  <1>2. DOMAIN x = AskFields /\ (x.result = "interrupt" => x.mode \notin Replays)
    BY DEF DirectInv, SoundAsk, TurnsInv, SoundTurn
  <1> HIDE DEF frames
  <1>3. z = Say(x, frames)
    OBVIOUS
  <1> HIDE DEF z, x
  <1>4. /\ DOMAIN z = AskFields /\ z.run = x.run /\ z.stored = x.stored /\ z.mode = x.mode
        /\ z.removed = x.removed /\ z.target = x.target /\ z.result = x.result
    BY <1>2, <1>3, SaySame
  <1>5. /\ v.at = "fallback" /\ v.run = x.run /\ v.stored = x.stored /\ v.mode = x.mode
        /\ v.removed = x.removed /\ v.target = x.target /\ v.result = x.result
    BY <1>4 DEF AskFields
  <1> HIDE DEF v
  <1> QED
    BY <1>1, <1>2, <1>5, WorksTurns

LEMMA FallbackTurns ==
    ASSUME DirectInv, TurnsInv, NEW q \in Askers, Fallback(q) PROVE TurnsInv'
  <1> DEFINE x == ask[q]
  <1>1. x.at \in Unstored /\ x.at \in Working /\ x = ask[q]
    BY DEF Fallback, Unstored, Working, Looping
  <1>4. DOMAIN x = AskFields /\ (x.result = "interrupt" => x.mode \notin Replays)
    BY DEF DirectInv, SoundAsk, TurnsInv, SoundTurn
  <1>2. CASE MarkCancelled(q, x)
    BY <1>1, <1>2, MarkTurns
  <1>3. CASE ~MarkCancelled(q, x)
    <2> DEFINE frames == IF x.deltas = 0 THEN <<"delta">> ELSE << >>
               z == Say(x, frames)
               p == IF x.mode \in {"replay", "syncresume"} THEN "commit" ELSE "asked"
               v == [z EXCEPT !.at = p]
    <2>1. ask' = [ask EXCEPT ![q] = v] /\ run' = run /\ text' = text
      BY <1>3 DEF Fallback, To
    <2>2. p \in Unstored \ {"pause"}
      BY DEF Unstored, Working, Looping
    <2> HIDE DEF frames, p
    <2>3. z = Say(x, frames)
      OBVIOUS
    <2> HIDE DEF z, x
    <2>4. /\ DOMAIN z = AskFields /\ z.run = x.run /\ z.stored = x.stored /\ z.mode = x.mode
          /\ z.removed = x.removed /\ z.target = x.target /\ z.result = x.result
      BY <1>4, <2>3, SaySame
    <2>5. /\ v.at = p /\ v.run = x.run /\ v.stored = x.stored /\ v.mode = x.mode
          /\ v.removed = x.removed /\ v.target = x.target /\ v.result = x.result
      BY <2>4 DEF AskFields
    <2> HIDE DEF v
    <2> QED
      BY <1>1, <1>4, <2>1, <2>2, <2>5, WorksTurns
  <1> QED
    BY <1>2, <1>3

\* A run is paused for a selection; only a first phase or a resumed one asks for one.
LEMMA PauseTurns ==
    ASSUME DirectInv, TurnsInv, NEW q \in Askers, Pause(q) PROVE TurnsInv'
  <1> DEFINE x == ask[q]
             r == x.run
             n == run[r].pauses + 1
             e == IF run[r].expiry = "none" THEN "set" ELSE run[r].expiry
             late == run[r].late \/ ~IsActive(r)
             row == [run[r] EXCEPT !.status = "waiting", !.pauses = n, !.expiry = e, !.late = late]
             z == Say(x, <<"interrupted">>)
             y == [z EXCEPT !.at = "paused"]
  <1>1. x.at = "pause" /\ IndexAdmits(r) /\ text' = text /\ run' = [run EXCEPT ![r] = row]
        /\ (ask' = [ask EXCEPT ![q] = y] \/ End(q, x))
    BY DEF Pause, To
  <1>2. x.at \in Unstored /\ x.at \in Working
    BY <1>1 DEF Unstored, Working, Looping
  <1>3. r \in Ids /\ DOMAIN run[r] = RunFields
    BY <1>2, WorkingIds DEF DirectInv, RowsOK, Ids
  <1>4. DOMAIN x = AskFields /\ SoundTurn(x)
    BY DEF DirectInv, SoundAsk, TurnsInv
  <1>5. x.result = "interrupt" /\ x.mode \notin Replays /\ x.removed = {}
    BY <1>1, <1>4 DEF SoundTurn
  <1>6. row.prompt = run[r].prompt /\ row.late = late /\ row.status = "waiting"
    <2> HIDE DEF n, e, late
    <2> QED
      BY <1>3 DEF RunFields
  <1>7. /\ row.late <=> run[r].late \/ ~IsActive(r)
        /\ "waiting" \in ActiveRunStatuses
    BY <1>6 DEF ActiveRunStatuses
  <1>8. z = Say(x, <<"interrupted">>) /\ x = ask[q]
    OBVIOUS
  <1> HIDE DEF z, x, row, r
  <1>9. /\ DOMAIN z = AskFields /\ z.run = x.run /\ z.stored = x.stored /\ z.removed = x.removed
        /\ z.mode = x.mode /\ z.result = x.result
    BY <1>4, <1>8, SaySame
  <1>10. y.at = "paused" /\ y.run = x.run /\ y.stored = x.stored /\ y.removed = {} /\ y.mode = x.mode /\ y.result = x.result
    BY <1>5, <1>9 DEF AskFields
  <1> HIDE DEF y
  <1>11. Follows(y, x)
    BY <1>5, <1>10 DEF Follows, Unstored, Working, Looping
  <1>12. \A o \in Askers : ask'[o] = ask[o] \/ Follows(ask'[o], ask[o])
    BY <1>1, <1>8, <1>11, OneFollows, EndFollows
  <1>13. x.run = r
    BY DEF r
  <1>14. ask[q].at \in Unstored /\ ask[q].run = r /\ ask[q].removed = {}
    BY <1>2, <1>5, <1>8, <1>13
  <1> QED
    BY <1>1, <1>3, <1>6, <1>7, <1>12, <1>14, OneRowTurns

\* A request ends and leaves the rows.
LEMMA QuietTurns ==
    ASSUME DirectInv, TurnsInv, text' = text, run' = run, NEW q \in Askers, NEW x, End(q, x),
           x.stored = ask[q].stored, x.run = ask[q].run
    PROVE  TurnsInv'
  BY EndFollows, SameRowsTurns

\* What a request says changes neither its run nor what it has stored.
LEMMA SaidSame ==
    ASSUME DirectInv, NEW q \in Askers, NEW frames
    PROVE  Say(ask[q], frames).stored = ask[q].stored /\ Say(ask[q], frames).run = ask[q].run
  BY SaySame DEF DirectInv, SoundAsk

LEMMA CompleteTurns ==
    ASSUME DirectInv, TurnsInv, NEW q \in Askers, Complete(q) PROVE TurnsInv'
  BY SaidSame, QuietTurns DEF Complete

LEMMA RaiseTurns ==
    ASSUME DirectInv, TurnsInv, NEW q \in Askers, Raise(q) PROVE TurnsInv'
  <1> DEFINE frames == IF Reports(ask[q]) THEN <<"failed">> ELSE << >>
             z == Say(ask[q], frames)
  <1>1. End(q, z) /\ text' = text /\ ask[q].at \in Working
        /\ (run' = run \/ Write(ask[q].run, "failed"))
    BY DEF Raise
  <1> HIDE DEF frames
  <1>2. z.stored = ask[q].stored /\ z.run = ask[q].run
    BY SaidSame
  <1> HIDE DEF z
  <1>3. ask[q].run \in Ids /\ "failed" \notin ActiveRunStatuses
    BY <1>1, WorkingIds DEF ActiveRunStatuses
  <1>4. \A o \in Askers : ask'[o] = ask[o] \/ Follows(ask'[o], ask[o])
    BY <1>1, <1>2, EndFollows
  <1> QED
    BY <1>1, <1>3, <1>4, SameRowsTurns, WriteTurns

\* A client goes away, or reads a paused stream to its end, or the process dies.
LEMMA CutOffTurns ==
    ASSUME DirectInv, TurnsInv, NEW q \in Askers, EndPaused(q) \/ Disconnect(q) \/ Crash(q) PROVE TurnsInv'
  <1> DEFINE x == ask[q]
             r == x.run
  <1>1. End(q, x) /\ text' = text
    BY DEF EndPaused, Disconnect, Crash
  <1>2. \A o \in Askers : ask'[o] = ask[o] \/ Follows(ask'[o], ask[o])
    BY <1>1, EndFollows
  <1>3. CASE run' = run
    BY <1>1, <1>2, <1>3, SameRowsTurns
  <1>4. CASE run' # run
    <2>1. /\ r \in Ids
          /\ \/ run' = [run EXCEPT ![r] = [run[r] EXCEPT !.status = "cancelled"]]
             \/ run' = [run EXCEPT ![r] = [run[r] EXCEPT !.status = "failed", !.expiry = "none"]]
      <3>1. Disconnect(q)
        BY <1>4 DEF EndPaused, Crash
      <3>2. x.at \in Working \cup {"paused"}
        BY <3>1 DEF Disconnect, Working, Looping
      <3>3. r \in Ids
        BY <3>2 DEF DirectInv, Linked, Waiting, Busy, Ids
      <3> QED
        BY <1>4, <3>1, <3>3 DEF Disconnect
    <2>2. ASSUME NEW row, row.prompt = run[r].prompt, row.late = run[r].late, row.status \in {"cancelled", "failed"},
                 run' = [run EXCEPT ![r] = row]
          PROVE  TurnsInv'
      <3>1. row.status \notin ActiveRunStatuses /\ row.status # "waiting"
        BY <2>2 DEF ActiveRunStatuses
      <3> HIDE DEF r
      <3> QED
        BY <1>1, <1>2, <2>2, <3>1, OneRowTurns
    <2>3. DOMAIN run[r] = RunFields
      BY <2>1 DEF DirectInv, RowsOK, Ids
    <2>4. CASE run' = [run EXCEPT ![r] = [run[r] EXCEPT !.status = "cancelled"]]
      <3> DEFINE row == [run[r] EXCEPT !.status = "cancelled"]
      <3>1. row.prompt = run[r].prompt /\ row.late = run[r].late /\ row.status = "cancelled"
        BY <2>3 DEF RunFields
      <3>2. run' = [run EXCEPT ![r] = row]
        BY <2>4
      <3> HIDE DEF row, r
      <3> QED
        BY <2>2, <3>1, <3>2
    <2>5. CASE run' = [run EXCEPT ![r] = [run[r] EXCEPT !.status = "failed", !.expiry = "none"]]
      <3> DEFINE row == [run[r] EXCEPT !.status = "failed", !.expiry = "none"]
      <3>1. row.prompt = run[r].prompt /\ row.late = run[r].late /\ row.status = "failed"
        BY <2>3 DEF RunFields
      <3>2. run' = [run EXCEPT ![r] = row]
        BY <2>5
      <3> HIDE DEF row, r
      <3> QED
        BY <2>2, <3>1, <3>2
    <2> QED
      BY <2>1, <2>4, <2>5
  <1> QED
    BY <1>3, <1>4

\* A resume reads a run that waits.
LEMMA ReadResumeTurns ==
    ASSUME DirectInv, TurnsInv, NEW q \in Askers, ReadResume(q) PROVE TurnsInv'
  <1>1. PICK mode \in Modes \cap Resumes, r \in Ids, at \in {"claim", "reject", "expire"} :
          ask' = [ask EXCEPT ![q] = [NoAsk EXCEPT !.at = at, !.mode = mode, !.run = r, !.pause = run[r].pauses]]
    BY DEF ReadResume, To
  <1> DEFINE n == run[r].pauses
             y == [NoAsk EXCEPT !.at = at, !.mode = mode, !.run = r, !.pause = n]
  <1>2. text' = text /\ run' = run /\ ask' = [ask EXCEPT ![q] = y] /\ ask[q].at = "idle" /\ ask[q].stored = 0
    BY <1>1 DEF ReadResume, DirectInv, SoundAsk
  <1> HIDE DEF n
  <1>3. y.at = at /\ y.mode \in Resumes /\ y.stored = 0 /\ y.removed = {} /\ y.result = "none"
    BY DEF NoAsk
  <1> HIDE DEF y
  <1>4. Follows(y, ask[q])
    BY <1>2, <1>3 DEF Follows, Unstored, Working, Looping
  <1> QED
    BY <1>2, <1>4, OneFollows, SameRowsTurns

\* A refused resume ends its run, whatever that has become.
LEMMA RefuseResumeTurns ==
    ASSUME DirectInv, TurnsInv, NEW q \in Askers, RefuseResume(q) PROVE TurnsInv'
  <1> DEFINE x == ask[q]
             r == x.run
             row == [run[r] EXCEPT !.status = "cancelled", !.expiry = "none"]
  <1>1. End(q, x) /\ text' = text /\ r \in Ids /\ DOMAIN run[r] = RunFields
    BY DEF RefuseResume, DirectInv, Linked, Waiting, RowsOK, Ids
  <1>2. \A o \in Askers : ask'[o] = ask[o] \/ Follows(ask'[o], ask[o])
    BY <1>1, EndFollows
  <1>3. CASE run' = run
    BY <1>1, <1>3, QuietTurns
  <1>4. CASE Write(r, "failed")
    BY <1>1, <1>2, <1>4, WriteTurns DEF ActiveRunStatuses
  <1>5. CASE run' = [run EXCEPT ![r] = row]
    <2> HIDE DEF r
    <2>1. row.prompt = run[r].prompt /\ row.late = run[r].late /\ row.status = "cancelled"
      BY <1>1 DEF RunFields
    <2> HIDE DEF row
    <2>2. row.status \notin ActiveRunStatuses /\ row.status # "waiting"
      BY <2>1 DEF ActiveRunStatuses
    <2> QED
      BY <1>1, <1>2, <1>5, <2>1, <2>2, OneRowTurns
  <1> QED
    BY <1>3, <1>4, <1>5 DEF RefuseResume

\* A resume claims the pause that it read, or ends.
LEMMA ClaimResumeTurns ==
    ASSUME DirectInv, TurnsInv, NEW q \in Askers, ClaimResume(q) PROVE TurnsInv'
  <1> DEFINE x == ask[q]
             r == x.run
  <1>1. x.at = "claim" /\ text' = text /\ DOMAIN x = AskFields /\ SoundTurn(x) /\ x.stored = 0 /\ r \in Ids
    BY DEF ClaimResume, DirectInv, SoundAsk, TurnsInv, Linked, Waiting, Ids
  <1>2. x.mode \in Resumes /\ x.mode \notin Replays /\ x.removed = {}
    BY <1>1 DEF SoundTurn, Resumes, Replays
  <1>3. CASE ~Claimable(x)
    BY <1>1, <1>3, QuietTurns DEF ClaimResume
  <1>4. CASE Claimable(x)
    <2> DEFINE row == [run[r] EXCEPT !.status = "running"]
               y == [x EXCEPT !.at = "graph"]
    <2>1. run' = [run EXCEPT ![r] = row] /\ ask' = [ask EXCEPT ![q] = y] /\ run[r].status = "waiting"
      BY <1>4 DEF ClaimResume, Claimable, To
    <2>2. DOMAIN run[r] = RunFields
      BY <1>1 DEF DirectInv, RowsOK, Ids
    <2>3. row.prompt = run[r].prompt /\ row.late = run[r].late /\ row.status = "running"
      BY <2>2 DEF RunFields
    <2>4. IsActive(r)
      BY <2>1 DEF IsActive, ActiveRunStatuses
    <2>5. x = ask[q] /\ r = x.run
      OBVIOUS
    <2> HIDE DEF row, x, r
    <2>6. y.at = "graph" /\ y.run = x.run /\ y.mode = x.mode /\ y.removed = {} /\ y.stored = x.stored
      BY <1>1, <1>2 DEF AskFields
    <2> HIDE DEF y
    <2>7. Follows(y, x)
      BY <1>1, <1>2, <2>1, <2>5, <2>6 DEF Follows, Unstored, Working, Looping
    <2>8. \A o \in Askers : ask'[o] = ask[o] \/ Follows(ask'[o], ask[o])
      BY <2>1, <2>5, <2>7, OneFollows
    <2> QED
      BY <1>1, <2>1, <2>3, <2>4, <2>8, OneRowTurns
  <1> QED
    BY <1>3, <1>4

\* What a stop has read of a run.
SoundStop == stop = NoStop \/ stop.seen \in {"running", "waiting"}

LEMMA StopsAreSound == DirectSpec => []SoundStop
  <1>1. DirectInit => SoundStop
    BY DEF DirectInit, SoundStop
  <1>2. ASSUME SoundStop, [DirectNext]_tvars PROVE SoundStop'
    <2>1. CASE UNCHANGED stop
      BY <1>2, <2>1 DEF SoundStop
    <2>2. CASE StopRead \/ StopWrite
      BY <2>2 DEF StopRead, StopWrite, SoundStop
    <2>3. ASSUME NEW q \in Askers, ReadReplay(q) \/ Admit(q) \/ ReadResume(q) \/ RefuseResume(q) \/ ClaimResume(q) PROVE UNCHANGED stop
      BY <2>3 DEF ReadReplay, Admit, ReadResume, RefuseResume, ClaimResume, Write
    <2>4. ASSUME NEW q \in Askers, Work(q) PROVE UNCHANGED stop
      BY <2>4 DEF Work, Start, GraphItem, Recorded, ItemInvokes, Deliver, GraphResult, Final, FinalResumed, Pause, Answer,
                  Fallback, LastAsked, Commit, Prune, Complete, Raise, MarkCancelled
    <2>5. ASSUME NEW q \in Askers, EndPaused(q) \/ Disconnect(q) \/ Crash(q) PROVE UNCHANGED stop
      BY <2>5 DEF EndPaused, Disconnect, Crash
    <2>6. CASE Time \/ SweepRead \/ SweepWrite
      BY <2>1, <2>6 DEF Time, SweepRead, SweepWrite
    <2>7. CASE UNCHANGED tvars
      BY <2>1, <2>7 DEF tvars
    <2> QED
      BY <1>2, <2>1, <2>2, <2>3, <2>4, <2>5, <2>6, <2>7 DEF DirectNext
  <1> QED
    BY <1>1, <1>2, PTL DEF DirectSpec

\* A stop writes; only a stop that found the run running reopens it, and the index admits that.
LEMMA StopWriteTurns ==
    ASSUME DirectInv, TurnsInv, SoundStop, StopWrite PROVE TurnsInv'
  <1> DEFINE r == stop.run
             status == IF stop.seen = "waiting" THEN "cancelled" ELSE "cancelling"
             expiry == IF stop.seen = "waiting" THEN "none" ELSE run[r].expiry
             late == run[r].late \/ ~IsActive(r)
             row == [run[r] EXCEPT !.status = status, !.expiry = expiry, !.late = late]
  <1>1. text' = text /\ ask' = ask
    BY DEF StopWrite
  <1>2. \A o \in Askers : ask'[o] = ask[o] \/ Follows(ask'[o], ask[o])
    BY <1>1
  <1>3. CASE run' = run
    BY <1>1, <1>2, <1>3, SameRowsTurns
  <1>4. CASE run' # run
    <2>1. run' = [run EXCEPT ![r] = row] /\ (stop.seen = "running" => IndexAdmits(r)) /\ stop.seen \in {"running", "waiting"}
      BY <1>4 DEF StopWrite, SoundStop
    <2>2. /\ status \in {"cancelled", "cancelling"} /\ (status = "cancelling" => IndexAdmits(r))
          /\ (run[r].late => late) /\ (IsActive(r) \/ late)
      BY <2>1
    <2> HIDE DEF status, expiry, late
    <2>3. r \in Ids => row.prompt = run[r].prompt /\ row.late = late /\ row.status = status
      BY DEF DirectInv, RowsOK, RunFields, Ids
    <2> HIDE DEF row, r
    <2>4. /\ status # "waiting" /\ (status \in ActiveRunStatuses => IndexAdmits(r))
      BY <2>2 DEF ActiveRunStatuses
    <2>5. r \in Ids => /\ row.prompt = run[r].prompt /\ (run[r].late => row.late)
                       /\ row.status \in ActiveRunStatuses => IsActive(r) \/ (row.late /\ IndexAdmits(r))
                       /\ row.status # "waiting"
      BY <2>2, <2>3, <2>4
    <2> QED
      BY <1>1, <1>2, <2>1, <2>5, OneRowTurns
  <1> QED
    BY <1>3, <1>4

LEMMA TimeTurns ==
    ASSUME DirectInv, TurnsInv, Time PROVE TurnsInv'
  <1>1. PICK r \in Ids :
          /\ IsActive(r)
          /\ \/ run' = [run EXCEPT ![r] = [run[r] EXCEPT !.aged = TRUE]]
             \/ run' = [run EXCEPT ![r] = [run[r] EXCEPT !.expiry = "past"]]
    BY DEF Time
  <1>2. ASSUME NEW row, row.prompt = run[r].prompt, row.late = run[r].late, row.status = run[r].status,
               run' = [run EXCEPT ![r] = row]
        PROVE  TurnsInv'
    <2>1. text' = text /\ \A o \in Askers : ask'[o] = ask[o] \/ Follows(ask'[o], ask[o])
      BY DEF Time
    <2> QED
      BY <1>1, <1>2, <2>1, OneRowTurns
  <1>3. DOMAIN run[r] = RunFields
    BY DEF DirectInv, RowsOK, Ids
  <1>4. CASE run' = [run EXCEPT ![r] = [run[r] EXCEPT !.aged = TRUE]]
    <2> DEFINE row == [run[r] EXCEPT !.aged = TRUE]
    <2>1. row.prompt = run[r].prompt /\ row.late = run[r].late /\ row.status = run[r].status
      BY <1>3 DEF RunFields
    <2>2. run' = [run EXCEPT ![r] = row]
      BY <1>4
    <2> HIDE DEF row
    <2> QED
      BY <1>2, <2>1, <2>2
  <1>5. CASE run' = [run EXCEPT ![r] = [run[r] EXCEPT !.expiry = "past"]]
    <2> DEFINE row == [run[r] EXCEPT !.expiry = "past"]
    <2>1. row.prompt = run[r].prompt /\ row.late = run[r].late /\ row.status = run[r].status
      BY <1>3 DEF RunFields
    <2>2. run' = [run EXCEPT ![r] = row]
      BY <1>5
    <2> HIDE DEF row
    <2> QED
      BY <1>2, <2>1, <2>2
  <1> QED
    BY <1>1, <1>4, <1>5

LEMMA SweepWriteTurns ==
    ASSUME DirectInv, TurnsInv, SweepWrite PROVE TurnsInv'
  <1> DEFINE r == sweep[1]
  <1>1. text' = text /\ \A o \in Askers : ask'[o] = ask[o] \/ Follows(ask'[o], ask[o])
    BY DEF SweepWrite
  <1>2. CASE run' = run
    BY <1>1, <1>2, SameRowsTurns
  <1>3. ASSUME NEW row, r \in Ids => row.prompt = run[r].prompt /\ row.late = run[r].late /\ row.status \in {"failed", "cancelled"},
               run' = [run EXCEPT ![r] = row]
        PROVE  TurnsInv'
    <2>1. r \in Ids => row.status \notin ActiveRunStatuses /\ row.status # "waiting"
      BY <1>3 DEF ActiveRunStatuses
    <2> HIDE DEF r
    <2> QED
      BY <1>1, <1>3, <2>1, OneRowTurns
  <1>4. r \in Ids => DOMAIN run[r] = RunFields
    BY DEF DirectInv, RowsOK, Ids
  <1>5. CASE run' = [run EXCEPT ![r] = [run[r] EXCEPT !.status = "failed"]]
    <2> DEFINE row == [run[r] EXCEPT !.status = "failed"]
    <2>1. r \in Ids => row.prompt = run[r].prompt /\ row.late = run[r].late /\ row.status = "failed"
      BY <1>4 DEF RunFields
    <2>2. run' = [run EXCEPT ![r] = row]
      BY <1>5
    <2> HIDE DEF row, r
    <2> QED
      BY <1>3, <2>1, <2>2 DEF r
  <1>6. CASE run' = [run EXCEPT ![r] = [run[r] EXCEPT !.status = "cancelled", !.expiry = "none"]]
    <2> DEFINE row == [run[r] EXCEPT !.status = "cancelled", !.expiry = "none"]
    <2>1. r \in Ids => row.prompt = run[r].prompt /\ row.late = run[r].late /\ row.status = "cancelled"
      BY <1>4 DEF RunFields
    <2>2. run' = [run EXCEPT ![r] = row]
      BY <1>6
    <2> HIDE DEF row, r
    <2> QED
      BY <1>3, <2>1, <2>2 DEF r
  <1> QED
    BY <1>2, <1>5, <1>6 DEF SweepWrite

-----------------------------------------------------------------------------
(* The results. *)

LEMMA DirectInitially == ASSUME DirectInit PROVE DirectInv
  <1>1. run = << >> /\ DOMAIN ask = Askers /\ \A q \in Askers : ask[q] = NoAsk
    BY DEF DirectInit
  <1>2. RowsOK(run)
    <2>1. run = [i \in 1 .. 0 |-> run[i]] /\ DOMAIN run = {}
      BY <1>1
    <2> QED
      BY <2>1 DEF RowsOK
  <1>3. ASSUME NEW x, x = NoAsk PROVE SoundAsk(x) /\ Linked(x, run) /\ ~Busy(x)
    <2>1. /\ DOMAIN x = AskFields /\ x.at = "idle" /\ x.mode = "none" /\ x.run = 0 /\ x.found = "none"
          /\ x.context = "none" /\ x.invoked = FALSE /\ x.stored = 0 /\ x.wire = << >>
      BY <1>3 DEF NoAsk, AskFields
    <2>2. /\ x.wire \in Seq(Frames) /\ Open(x.wire) /\ InOrder(x.wire, x.mode)
          /\ ~Has(x.wire, "retrieval") /\ ~Has(x.wire, "invoked")
      <3>1. DOMAIN x.wire = {} /\ x.wire \in Seq(Frames)
        BY <2>1
      <3> QED
        BY <3>1 DEF Open, InOrder, Single, Has
    <2>3. x.invoked \in BOOLEAN
      BY <2>1, Zenon
    <2>4. ~Busy(x)
      BY <2>1 DEF Busy, Working, Looping
    <2>5. SoundAsk(x)
      BY <1>3, <2>1, <2>2, <2>3 DEF SoundAsk, Streams
    <2>6. Linked(x, run)
      BY <2>1, <2>4 DEF Linked, Owed, Waiting
    <2> QED
      BY <2>4, <2>5, <2>6
  <1> QED
    BY <1>1, <1>2, <1>3 DEF DirectInv

LEMMA DirectSteps == ASSUME DirectInv, [DirectNext]_tvars PROVE DirectInv'
  <1>1. CASE UNCHANGED tvars
    BY <1>1, CalmSame, RowsKeep DEF tvars, DirectInv
  <1>2. ASSUME NEW q \in Askers, ReadReplay(q) \/ Admit(q) \/ ReadResume(q) \/ RefuseResume(q) \/ ClaimResume(q) PROVE DirectInv'
    BY <1>2, ReadReplayKeeps, AdmitKeeps, ReadResumeKeeps, RefuseResumeKeeps, ClaimResumeKeeps
  <1>3. ASSUME NEW q \in Askers, Work(q) PROVE DirectInv'
    BY <1>3, StartKeeps, GraphItemKeeps, ItemInvokesKeeps, DeliverKeeps, GraphResultKeeps, PauseKeeps, AnswerKeeps,
       FallbackKeeps, CommitKeeps, PruneKeeps, CompleteKeeps, RaiseKeeps DEF Work
  <1>4. ASSUME NEW q \in Askers, EndPaused(q) \/ Disconnect(q) \/ Crash(q) PROVE DirectInv'
    BY <1>4, CutOffKeeps
  <1>5. CASE StopRead \/ SweepRead
    BY <1>5, CalmSame, RowsKeep DEF StopRead, SweepRead, DirectInv
  <1>6. CASE StopWrite \/ Time \/ SweepWrite
    BY <1>6, StopWriteKeeps, TimeKeeps, SweepWriteKeeps
  <1> QED
    BY <1>1, <1>2, <1>3, <1>4, <1>5, <1>6 DEF DirectNext

\* The inductive invariant of the requests and rows of a conversation holds in every state.
THEOREM DirectInvariance == DirectSpec => []DirectInv
  BY DirectInitially, DirectSteps, PTL DEF DirectSpec

LEMMA AtMostOne ==
    ASSUME NEW A, \A p, q \in A : p = q
    PROVE  Cardinality(A) <= 1
  <1>1. CASE A = {}
    BY <1>1, FS_EmptySet
  <1>2. CASE A # {}
    <2>1. PICK a \in A : TRUE
      BY <1>2
    <2>2. A = {a}
      BY <2>1
    <2>3. Cardinality({a}) = 1
      BY FS_Singleton
    <2> QED
      BY <2>2, <2>3
  <1> QED
    BY <1>1, <1>2

\* A run stores at most one answer, however often it is paused, resumed, stopped, swept or
\* overwritten.
THEOREM AnswersAreSingle == DirectSpec => []OneAnswerPerRun
  <1>1. DirectInv => OneAnswerPerRun
    <2> SUFFICES ASSUME DirectInv, NEW r \in Ids
                 PROVE  Cardinality({q \in Askers : ask[q].run = r /\ ask[q].stored = 1}) <= 1
      BY DEF OneAnswerPerRun
    <2> DEFINE A == {q \in Askers : ask[q].run = r /\ ask[q].stored = 1}
    <2>1. \A p, q \in A : p = q
      BY DEF DirectInv, Busy
    <2> HIDE DEF A
    <2>2. Cardinality(A) <= 1
      BY <2>1, AtMostOne
    <2> QED
      BY <2>2 DEF A
  <1> QED
    BY <1>1, DirectInvariance, PTL

LEMMA TurnsInitially == ASSUME DirectInit PROVE TurnsInv
  <1>1. run = << >> /\ text = {} /\ Ids = {} /\ \A q \in Askers : ask[q] = NoAsk
    BY DEF DirectInit, Ids
  <1>2. \A q \in Askers : ask[q].at = "idle" /\ ask[q].removed = {} /\ ask[q].result = "none"
    BY <1>1 DEF NoAsk
  <1>3. \A q \in Askers : SoundTurn(ask[q])
    BY <1>2 DEF SoundTurn
  <1>4. SoundText
    BY <1>1 DEF SoundText
  <1>5. OneActive
    BY <1>1 DEF OneActive
  <1>6. Fresh
    BY <1>1, <1>2 DEF Fresh, Unstored, Working, Looping
  <1>7. Kept
    BY <1>1 DEF Kept, Questions
  <1> QED
    BY <1>3, <1>4, <1>5, <1>6, <1>7 DEF TurnsInv

LEMMA TurnsSteps == ASSUME DirectInv, DirectInv', SoundStop, TurnsInv, [DirectNext]_tvars PROVE TurnsInv'
  <1>1. CASE UNCHANGED tvars
    BY <1>1, SameRowsTurns DEF tvars
  <1>2. ASSUME NEW q \in Askers, ReadReplay(q) \/ Admit(q) \/ ReadResume(q) \/ RefuseResume(q) \/ ClaimResume(q) PROVE TurnsInv'
    <2>1. Admit(q) => ask[q].at \in {"read", "idle"}
      BY DEF Admit
    <2> QED
      BY <1>2, <2>1, ReadReplayTurns, AdmitReplayTurns, AdmitMessageTurns, ReadResumeTurns, RefuseResumeTurns,
         ClaimResumeTurns
  <1>3. ASSUME NEW q \in Askers, Work(q) PROVE TurnsInv'
    BY <1>3, AsksTurns, FinalTurns, GraphItemTurns, ItemInvokesTurns, DeliverTurns, GraphResultTurns, PauseTurns,
       AnswerTurns, FallbackTurns, CommitTurns, PruneTurns, CompleteTurns, RaiseTurns DEF Work
  <1>4. ASSUME NEW q \in Askers, EndPaused(q) \/ Disconnect(q) \/ Crash(q) PROVE TurnsInv'
    BY <1>4, CutOffTurns
  <1>5. CASE StopRead \/ SweepRead
    BY <1>5, SameRowsTurns DEF StopRead, SweepRead
  <1>6. CASE StopWrite \/ Time \/ SweepWrite
    BY <1>6, StopWriteTurns, TimeTurns, SweepWriteTurns
  <1> QED
    BY <1>1, <1>2, <1>3, <1>4, <1>5, <1>6 DEF DirectNext

LEMMA TurnsInvariance == DirectSpec => []TurnsInv
  BY TurnsInitially, TurnsSteps, DirectInvariance, StopsAreSound, PTL DEF DirectSpec

\* A run stores one answer, and an answered prompt of the transcript keeps an answer, whatever
\* replays fail, are abandoned, repeated or overlap, as long as no run goes on after its end
\* and no replay is admitted after it was overtaken.
THEOREM AnswersAreSound == DirectSpec => []AnswersSound
  <1>1. TurnsInv => AnswerKept
    <2> SUFFICES ASSUME TurnsInv, Calmly, NEW q \in Askers, ask[q].stored = 1,
                        NEW m \in Questions, m.prompt = run[ask[q].run].prompt
                 PROVE  \E a \in Answers : a.prompt = m.prompt
      BY DEF AnswerKept, Calmly
    <2>1. Kept /\ {} \in SUBSET Pruners
      BY DEF TurnsInv
    <2>2. Answered(m.prompt) /\ ~Doomed(m.id, {})
      BY DEF Answered, Doomed
    <2>3. Keeps(m, {})
      BY <2>1, <2>2 DEF Kept
    <2> QED
      BY <2>3 DEF Keeps
  <1> QED
    BY <1>1, TurnsInvariance, AnswersAreSingle, PTL DEF AnswersSound

\* What a stream sends is in order, and its last frame is what became of the run, whatever
\* stops, sweeps, disconnects and other requests interleave with it.
THEOREM WiresAreSound == DirectSpec => []WireSound
  <1>1. DirectInv => WireSound
    <2> SUFFICES ASSUME DirectInv PROVE WireSound
      OBVIOUS
    <2>1. ASSUME NEW q \in Askers
          PROVE  LET w == ask[q].wire
                 IN  /\ Count(w, "retrieval") <= 1 /\ Count(w, "invoked") <= 1
                     /\ \A i \in DOMAIN w : w[i] = "delta" /\ ask[q].mode # "resume" =>
                          \E j, k \in 1 .. i : w[j] = "retrieval" /\ w[k] = "invoked"
                     /\ \A i \in DOMAIN w : w[i] \in Ends => i = Len(w)
      <3> DEFINE w == ask[q].wire
      <3>1. InOrder(w, ask[q].mode)
        BY DEF DirectInv, SoundAsk
      <3>2. ASSUME NEW f, Single(w, f) PROVE Count(w, f) <= 1
        <4> DEFINE A == {i \in DOMAIN w : w[i] = f}
        <4>1. \A i, j \in A : i = j
          BY <3>2 DEF Single
        <4> HIDE DEF A
        <4>2. Cardinality(A) <= 1
          BY <4>1, AtMostOne
        <4> QED
          BY <4>2 DEF A, Count
      <3> HIDE DEF w
      <3>3. Count(w, "retrieval") <= 1 /\ Count(w, "invoked") <= 1
        BY <3>1, <3>2 DEF InOrder
      <3>4. /\ \A i \in DOMAIN w : w[i] = "delta" /\ ask[q].mode # "resume" =>
                 \E j, k \in 1 .. i : w[j] = "retrieval" /\ w[k] = "invoked"
            /\ \A i \in DOMAIN w : w[i] \in Ends => i = Len(w)
        BY <3>1 DEF InOrder
      <3> QED
        BY <3>3, <3>4 DEF w
    <2>2. ASSUME NEW q \in Askers, ask[q].wire # << >>
          PROVE  LET w == ask[q].wire
                 IN  /\ Last(w) = "completed" => ask[q].stored = 1
                     /\ Last(w) = "cancelled" => ask[q].stored = 0
                     /\ Last(w) = "failed" /\ ask[q].mode = "stream" => ask[q].stored = 0 \/ run[ask[q].run].late
      <3>1. SoundAsk(ask[q]) /\ Owed(ask[q], run)
        BY DEF DirectInv, Linked
      <3> QED
        BY <2>2, <3>1 DEF SoundAsk, Owed
    <2> QED
      BY <2>1, <2>2 DEF WireSound, WireOrdered, WireHonest
  <1> QED
    BY <1>1, DirectInvariance, PTL
=============================================================================
