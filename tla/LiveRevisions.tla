----------------------------- MODULE LiveRevisions -----------------------------
(***************************************************************************)
(* How a page learns that the ledger changed: the revision tuple that      *)
(* every commit publishes (src/src/storage/mod.rs), the event stream of    *)
(* the server (src/src/api.rs) and the feed of the page                    *)
(* (src/frontend/src/data/revisionFeed.ts), which falls back to polling    *)
(* when the stream breaks.                                                 *)
(*                                                                         *)
(* Every writer publishes before it gives up the one connection of the     *)
(* ledger (storage/lifecycle.rs, storage/metadata.rs, storage/usage.rs,    *)
(* usage/ledger.rs), and every reader needs that connection, so the tuple  *)
(* that is committed and the tuple that is published are one variable.     *)
(*                                                                         *)
(* The listeners of the feed run in the task that accepts a tuple, so the  *)
(* modules that extend this one compose the operators below with their     *)
(* own handlers.                                                           *)
(***************************************************************************)
EXTENDS Integers, Sequences

CONSTANTS
  MaxData,    \* bound: commits that change data
  MaxStatus,  \* bound: status changes
  MaxBreaks,  \* bound: broken streams and failed polls
  MaxPipe,    \* bound: events on their way in one stream
  Waiting,    \* a request the server has not answered yet
  NoAsk,      \* no request is in flight
  Failure     \* an answer that refuses

ASSUME FeedAssumption ==
  /\ MaxData \in Nat /\ MaxStatus \in Nat /\ MaxBreaks \in Nat /\ MaxPipe \in Nat \ {0}
  /\ Waiting # NoAsk /\ Failure \notin {Waiting, NoAsk}
  /\ {Waiting, NoAsk, Failure} \cap [data : Int, status : Int] = {}

VARIABLES
  ledger,  \* the committed and published tuple
  stream,  \* the event stream: up, the tuple it sent last, the events on their way
  feed,    \* the page's feed: last accepted tuple, polling, the revision request
  breaks

liveVars == <<ledger, stream, feed, breaks>>

Tuples   == [data : 0..MaxData, status : 0..MaxStatus]
NoTuple  == [data |-> -1, status |-> -1]

Larger(a, b) == IF a > b THEN a ELSE b

\* The tuple a takes a component of b back.
Behind(a, b) == a.data < b.data \/ a.status < b.status

LiveTypeOK ==
  /\ ledger \in Tuples
  /\ stream \in [up : BOOLEAN, seen : Tuples \union {NoTuple}, pipe : Seq(Tuples)]
  /\ Len(stream.pipe) <= MaxPipe
  /\ feed \in [tuple : Tuples \union {NoTuple}, polling : BOOLEAN, asked : Tuples \union {NoAsk, Waiting}]
  /\ breaks \in 0..MaxBreaks

------------------------------------------------------------------------------
(* The server. *)

\* publish_revisions: a component never goes back, whatever is published.
Published(t) ==
  [data |-> Larger(ledger.data, t.data), status |-> Larger(ledger.status, t.status)]

\* The stream sends the latest tuple once it differs from the one it sent.
Emit ==
  /\ stream.up /\ stream.seen # ledger /\ Len(stream.pipe) < MaxPipe
  /\ stream' = [stream EXCEPT !.seen = ledger, !.pipe = Append(@, ledger)]
  /\ UNCHANGED <<ledger, feed, breaks>>

\* GET /api/revision reads the ledger.
AnswerRevision ==
  /\ feed.asked = Waiting
  /\ feed' = [feed EXCEPT !.asked = ledger]
  /\ UNCHANGED <<ledger, stream, breaks>>

\* EventSource opens the stream again; its first event is the current tuple.
Reconnect ==
  /\ ~stream.up
  /\ stream' = [up |-> TRUE, seen |-> ledger, pipe |-> << ledger >>]
  /\ UNCHANGED <<ledger, feed, breaks>>

------------------------------------------------------------------------------
(* The feed. *)

\* accept: a tuple that takes a component back is dropped before anything else.
Accepts(t) == ~Behind(t, feed.tuple)

\* The feed after a tuple of the stream, which also ends the polling.
AfterEvent(t) ==
  IF Accepts(t) THEN [feed EXCEPT !.tuple = t, !.polling = FALSE] ELSE feed

\* The feed after the answer of a revision request.
AfterAnswer(t) ==
  IF Accepts(t) THEN [feed EXCEPT !.tuple = t, !.asked = NoAsk]
  ELSE [feed EXCEPT !.asked = NoAsk]

\* An event of the stream arrives.
TakeEvent ==
  /\ stream.pipe # << >>
  /\ feed' = AfterEvent(Head(stream.pipe))
  /\ stream' = [stream EXCEPT !.pipe = Tail(@)]
  /\ UNCHANGED <<ledger, breaks>>

\* The answer of a revision request arrives.
TakeAnswer ==
  /\ feed.asked \in Tuples
  /\ feed' = AfterAnswer(feed.asked)
  /\ UNCHANGED <<ledger, stream, breaks>>

\* Mutant of Broken: the feed waits for the stream to come back.
BrokenUnnoticed ==
  /\ stream.up /\ breaks < MaxBreaks
  /\ stream' = [stream EXCEPT !.up = FALSE, !.pipe = << >>]
  /\ breaks' = breaks + 1
  /\ UNCHANGED <<ledger, feed>>

\* The stream breaks and loses what it carried; its error handler starts polling.
Broken ==
  /\ stream.up /\ breaks < MaxBreaks
  /\ stream' = [stream EXCEPT !.up = FALSE, !.pipe = << >>]
  /\ feed' = [feed EXCEPT !.polling = TRUE]
  /\ breaks' = breaks + 1
  /\ UNCHANGED ledger

\* A revision request is sent: by the poll timer, or by hand.  The one before it is
\* taken to be over by then.
Ask == feed.asked = NoAsk /\ feed' = [feed EXCEPT !.asked = Waiting]

PollTick ==
  /\ feed.polling /\ Ask
  /\ UNCHANGED <<ledger, stream, breaks>>

\* A revision request fails; the error listeners run.
AskFails ==
  /\ feed.asked # NoAsk /\ breaks < MaxBreaks
  /\ feed' = [feed EXCEPT !.asked = NoAsk]
  /\ breaks' = breaks + 1
  /\ UNCHANGED <<ledger, stream>>
==============================================================================
