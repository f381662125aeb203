---------------------------- MODULE ResultStream ----------------------------
(***************************************************************************)
(* Results that are streamed (runtime/streaming.py): the cloud sends a     *)
(* result in pieces, on one connection with the pieces of others; the      *)
(* StreamManager hands each message to the receiver of its call, and the   *)
(* caller waits for at most 300 seconds for the end of the stream.         *)
(*                                                                         *)
(* The piece number i of a stream is <<id, i>>.  The code that would       *)
(* create the receivers is not written; here they may come too late.       *)
(***************************************************************************)
EXTENDS RpcMessages, Sequences

CONSTANTS
    Streams,   \* ids of calls whose result is streamed
    ContentOf, \* the content type of each result
    MaxChunks  \* bound on the pieces of a result

\* A StreamReceiver: its pieces so far, with Nothing in the holes.
Receivers ==
    [chunks : Seq((Streams \X Nat) \cup {Nothing}), content : {"json", "text"}, complete : BOOLEAN]

ASSUME StreamAssumption ==
    /\ MaxChunks \in Nat /\ ContentOf \in [Streams -> {"json", "text"}]
    /\ Nothing \notin Receivers

VARIABLES
    stage,    \* how far the cloud is with each result
    sent,     \* how many of its pieces are sent
    wire,     \* messages on the connection
    receiver, \* _streams, and the receivers a caller still holds
    listed,   \* the ids in _streams
    late,     \* receivers created after the stream began
    outcome   \* what each caller got: Nothing yet, a timeout, or the result

streamVars == <<stage, sent, wire, receiver, listed, late, outcome>>

TimedOut == <<"timeout", <<>>>>

Fresh == [chunks |-> <<>>, content |-> "json", complete |-> FALSE]

StreamInit ==
    /\ stage = [s \in Streams |-> "none"]
    /\ sent = [s \in Streams |-> 0]
    /\ wire = <<>>
    /\ receiver = [s \in Streams |-> Nothing]
    /\ listed = {}
    /\ late = {}
    /\ outcome = [s \in Streams |-> Nothing]

\* The cloud: start, pieces in order, end.
Started(s) ==
    /\ stage[s] = "none"
    /\ stage' = [stage EXCEPT ![s] = "open"]
    /\ wire' = Append(wire, ToJson(make_stream_start(s, ContentOf[s])))
    /\ UNCHANGED <<sent, receiver, listed, late, outcome>>

Sent(s) ==
    /\ stage[s] = "open" /\ sent[s] < MaxChunks
    /\ sent' = [sent EXCEPT ![s] = @ + 1]
    /\ wire' = Append(wire, ToJson(make_stream_chunk(s, <<s, sent[s]>>, sent[s])))
    /\ UNCHANGED <<stage, receiver, listed, late, outcome>>

Ended(s) ==
    /\ stage[s] = "open"
    /\ stage' = [stage EXCEPT ![s] = "ended"]
    /\ wire' = Append(wire, ToJson(make_stream_end(s)))
    /\ UNCHANGED <<sent, receiver, listed, late, outcome>>

ConnectionLost ==
    /\ wire # <<>>
    /\ wire' = <<>>
    /\ stage' = [s \in Streams |-> "ended"]
    /\ UNCHANGED <<sent, receiver, listed, late, outcome>>

\* create_stream
CreateStream(s) ==
    /\ receiver[s] = Nothing
    /\ receiver' = [receiver EXCEPT ![s] = Fresh]
    /\ listed' = listed \cup {s}
    /\ late' = IF stage[s] = "none" THEN late ELSE late \cup {s}
    /\ UNCHANGED <<stage, sent, wire, outcome>>

\* Mutant: a piece is put behind the place that was made for it.
OnChunkAppends(r, data, index) ==
    [r EXCEPT !.chunks = @ \o [i \in 1..(index + 1 - Len(@)) |-> Nothing] \o <<data>>]

\* on_chunk: the list grows up to the index, with None in the holes.
OnChunk(r, data, index) ==
    [r EXCEPT !.chunks =
        [i \in 1..(IF index < Len(@) THEN Len(@) ELSE index + 1) |->
            IF i = index + 1 THEN data ELSE IF i <= Len(@) THEN @[i] ELSE Nothing]]

\* handle_message: what is for no listed stream is dropped; an error message ends nothing.
HandleMessage ==
    /\ wire # <<>>
    /\ wire' = Tail(wire)
    /\ LET m == FromJson(Head(wire))
           s == m.id
       IN  IF s \notin listed THEN UNCHANGED <<receiver, listed>>
           ELSE CASE m.type = "stream.start" ->
                     receiver' = [receiver EXCEPT ![s].content = m.metadata] /\ UNCHANGED listed
                [] m.type = "stream.chunk" ->
                     /\ receiver' = [receiver EXCEPT ![s] = OnChunk(@, m.result, m.metadata)]
                     /\ UNCHANGED listed
                [] m.type = "stream.end" ->
                     receiver' = [receiver EXCEPT ![s].complete = TRUE] /\ listed' = listed \ {s}
    /\ UNCHANGED <<stage, sent, late, outcome>>

\* _assemble: text is joined, and a single piece stands for itself.
Assemble(r) ==
    <<IF r.content = "text" THEN "joined" ELSE IF Len(r.chunks) = 1 THEN "single" ELSE "list",
      r.chunks>>

\* wait: the end of the stream, or of the caller's patience, after which the receiver
\* stays listed.
Wait(s) ==
    /\ receiver[s] # Nothing /\ outcome[s] = Nothing
    /\ outcome' = [outcome EXCEPT ![s] =
                      IF receiver[s].complete THEN Assemble(receiver[s]) ELSE TimedOut]
    /\ UNCHANGED <<stage, sent, wire, receiver, listed, late>>

StreamStep(s) ==
    \/ Started(s) \/ Sent(s) \/ Ended(s) \/ CreateStream(s) \/ Wait(s)

StreamOver == (\A s \in Streams : outcome[s] # Nothing) /\ UNCHANGED streamVars

StreamNext == (\E s \in Streams : StreamStep(s)) \/ HandleMessage \/ ConnectionLost \/ StreamOver

StreamSpec == StreamInit /\ [][StreamNext]_streamVars

-----------------------------------------------------------------------------
(* Properties                                                              *)

StreamTypeOK ==
    /\ stage \in [Streams -> {"none", "open", "ended"}]
    /\ sent \in [Streams -> 0..MaxChunks]
    /\ \A i \in DOMAIN wire : wire[i].id \in Streams
    /\ receiver \in [Streams -> Receivers \cup {Nothing}]
    /\ listed \subseteq {s \in Streams : receiver[s] # Nothing /\ ~receiver[s].complete}
    /\ late \subseteq Streams

\* What a caller gets that was in time to create its receiver is the result the cloud
\* sent, whole and in order, however its pieces were mixed with those of other results
\* and whichever connections were lost.
StreamWhole ==
    \A s \in Streams \ late :
        outcome[s] \notin {Nothing, TimedOut} =>
            outcome[s] = Assemble([chunks |-> [i \in 1..sent[s] |-> <<s, i - 1>>],
                                   content |-> ContentOf[s], complete |-> TRUE])
=============================================================================
