---------------------------- MODULE RpcMessages ----------------------------
(***************************************************************************)
(* The messages between client and cloud (shared/protocol.py): what their  *)
(* constructors put into them, and what is left of them on the wire.       *)
(* Nothing stands for None, and in params and metadata for the empty       *)
(* dictionary that takes its place.  Timestamps are left out.              *)
(***************************************************************************)
EXTENDS Naturals

CONSTANTS Nothing

Types == {"call", "result", "error", "stream.start", "stream.chunk", "stream.end"}

Optional == {"method", "params", "result", "error", "metadata"}

Message(type, id) ==
    [type |-> type, id |-> id, method |-> Nothing, params |-> Nothing,
     result |-> Nothing, error |-> Nothing, metadata |-> Nothing]

make_call(id, method, params)   == [Message("call", id) EXCEPT !.method = method, !.params = params]
make_result(id, result)         == [Message("result", id) EXCEPT !.result = result]
make_error(id, code)            == [Message("error", id) EXCEPT !.error = code]
make_stream_start(id, content)  == [Message("stream.start", id) EXCEPT !.metadata = content]
make_stream_chunk(id, data, index) ==
    [Message("stream.chunk", id) EXCEPT !.result = data, !.metadata = index]
make_stream_end(id)             == Message("stream.end", id)

\* to_json: what is missing or empty is left out.
ToJson(m) == [f \in {"type", "id"} \cup {f \in Optional : m[f] # Nothing} |-> m[f]]

\* from_json: a missing type is a call's, and what is missing is empty.
FromJson(d) ==
    [f \in {"type", "id"} \cup Optional |->
        IF f \in DOMAIN d THEN d[f] ELSE IF f = "type" THEN "call" ELSE Nothing]
=============================================================================
