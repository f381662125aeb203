----------------------------- MODULE RpcProofs -----------------------------
(***************************************************************************)
(* Proofs about the messages between client and cloud, the calls of the    *)
(* daemon and the results that are streamed: a message is what it was      *)
(* after the wire, no call is lost between the daemon, the dispatcher and  *)
(* the connection, and a streamed result arrives whole.                    *)
(***************************************************************************)
EXTENDS CloudServices, CloudApiProofs

-----------------------------------------------------------------------------
(* Messages                                                                *)

Fields == {"type", "id"} \cup Optional

\* to_json leaves out only what from_json puts back: a message with a type and an id
\* survives both.
THEOREM MessageSurvives ==
    ASSUME NEW m, m = [f \in Fields |-> m[f]]
    PROVE  FromJson(ToJson(m)) = m
<1> DEFINE d == ToJson(m)
<1>1. DOMAIN d = {"type", "id"} \cup {f \in Optional : m[f] # Nothing}
    BY DEF ToJson
<1>2. \A f \in DOMAIN d : d[f] = m[f]
    BY DEF ToJson
<1>3. \A f \in Fields : (IF f \in DOMAIN d THEN d[f] ELSE IF f = "type" THEN "call" ELSE Nothing) = m[f]
    BY <1>1, <1>2 DEF Fields
<1> HIDE DEF d
<1>4. FromJson(d) = [f \in Fields |-> m[f]]
    BY <1>3 DEF FromJson, Fields
<1>5. QED  BY <1>4 DEF d

\* The constructors of protocol.py make such messages.
LEMMA ConstructorsMake ==
    ASSUME NEW c, NEW x, NEW y
    PROVE  /\ make_call(c, x, y) = [f \in Fields |-> make_call(c, x, y)[f]]
           /\ make_result(c, x) = [f \in Fields |-> make_result(c, x)[f]]
           /\ make_error(c, x) = [f \in Fields |-> make_error(c, x)[f]]
BY DEF make_call, make_result, make_error, Message, Fields, Optional

\* The id is always on the wire.
LEMMA IdOnWire ==
    ASSUME NEW c, NEW x, NEW y
    PROVE  /\ ToJson(make_call(c, x, y)).id = c
           /\ ToJson(make_result(c, x)).id = c
           /\ ToJson(make_error(c, x)).id = c
BY DEF make_call, make_result, make_error, Message, ToJson, Optional

\* What the dispatcher may answer, each kind of method with answers of its own.
Known == {c \in CallIds : MethodOf[c] \in Handlers}

Replies ==
    {ToJson(make_result(c, c)) : c \in Known}
    \cup {ToJson(make_error(c, "EXECUTION_ERROR")) : c \in Known}
    \cup {ToJson(make_error(c, "METHOD_NOT_FOUND")) : c \in CallIds \ Known}

Requests == {CallOf(c) : c \in CallIds}

\* What the endpoint reads is the call that rpc_call made.
LEMMA RequestArrives ==
    ASSUME NEW d \in Requests
    PROVE  /\ d.id \in CallIds
           /\ FromJson(d) = make_call(d.id, MethodOf[d.id], d.id)
           /\ FromJson(d).id = d.id
<1>1. PICK c \in CallIds : d = ToJson(make_call(c, MethodOf[c], c))
    BY DEF Requests, CallOf
<1>2. d.id = c
    BY <1>1, IdOnWire
<1>3. FromJson(d) = make_call(c, MethodOf[c], c)
    BY <1>1, ConstructorsMake, MessageSurvives
<1>4. make_call(c, MethodOf[c], c).id = c
    BY DEF make_call, Message
<1>5. QED  BY <1>2, <1>3, <1>4

\* What the daemon reads is an answer that dispatch could have given to that call.
LEMMA ReplyArrives ==
    ASSUME NEW d \in Replies
    PROVE  /\ d.id \in CallIds /\ FromJson(d).id = d.id
           /\ Outcome(FromJson(d)) \in Answers(d.id)
<1>1. CASE \E c \in Known : d = ToJson(make_result(c, c))
    <2>1. PICK c \in Known : d = ToJson(make_result(c, c))
        BY <1>1
    <2>2. FromJson(d) = make_result(c, c) /\ d.id = c
        BY <2>1, ConstructorsMake, MessageSurvives, IdOnWire
    <2>3. /\ make_result(c, c).id = c /\ make_result(c, c).type = "result"
          /\ make_result(c, c).result = c
        BY DEF make_result, Message
    <2>4. QED  BY <2>2, <2>3 DEF Known, Outcome, Answers
<1>2. ASSUME NEW e \in {"EXECUTION_ERROR", "METHOD_NOT_FOUND"}, NEW c \in CallIds,
             d = ToJson(make_error(c, e)), e = "EXECUTION_ERROR" <=> MethodOf[c] \in Handlers
      PROVE  /\ d.id \in CallIds /\ FromJson(d).id = d.id
             /\ Outcome(FromJson(d)) \in Answers(d.id)
    <2>1. FromJson(d) = make_error(c, e) /\ d.id = c
        BY <1>2, ConstructorsMake, MessageSurvives, IdOnWire
    <2>2. /\ make_error(c, e).id = c /\ make_error(c, e).type = "error"
          /\ make_error(c, e).error = e
        BY DEF make_error, Message
    <2>3. QED  BY <1>2, <2>1, <2>2 DEF Outcome, Answers
<1>3. QED  BY <1>1, <1>2 DEF Replies, Known

\* The dispatcher answers every call, with an answer for that call.
LEMMA DispatchAnswers ==
    ASSUME NEW c \in CallIds
    PROVE  LET m == make_call(c, MethodOf[c], c)
           IN  /\ Dispatch(m) # {}
               /\ \A reply \in Dispatch(m) : ToJson(reply) \in Replies /\ ToJson(reply).id = c
<1> DEFINE m == make_call(c, MethodOf[c], c)
<1>1. m.id = c /\ m.params = c /\ m.method = MethodOf[c]
    BY DEF make_call, Message
<1> HIDE DEF m
<1>2. IF c \in Known
      THEN ToJson(make_result(c, c)) \in Replies /\ ToJson(make_error(c, "EXECUTION_ERROR")) \in Replies
      ELSE ToJson(make_error(c, "METHOD_NOT_FOUND")) \in Replies
    BY DEF Replies
<1>3. ToJson(make_result(c, c)).id = c /\ \A e : ToJson(make_error(c, e)).id = c
    BY IdOnWire
<1>4. /\ Dispatch(m) # {}
      /\ \A reply \in Dispatch(m) :
            IF c \in Known THEN reply = make_result(c, c) \/ reply = make_error(c, "EXECUTION_ERROR")
            ELSE reply = make_error(c, "METHOD_NOT_FOUND")
    BY <1>1 DEF Dispatch, Known
<1>5. QED  BY <1>2, <1>3, <1>4 DEF m

-----------------------------------------------------------------------------
(* Calls                                                                   *)

\* What is on the connection.
WireInv ==
    /\ up \in Seq(Requests)
    /\ down \in Seq(Replies)
    /\ serving # Nothing => \E c \in CallIds : serving = make_call(c, MethodOf[c], c)
    /\ caller = [c \in CallIds |-> caller[c]]

ExchangeInv == WireInv /\ NoCallLost

\* A message that is sent adds its id to those on the wire.
LEMMA IdsAppended ==
    ASSUME NEW S, NEW w \in Seq(S), NEW d
    PROVE  IdsOn(Append(w, d)) = IdsOn(w) \cup {d.id}
<1>1. Len(Append(w, d)) = Len(w) + 1 /\ Len(w) \in Nat
    OBVIOUS
<1>2. DOMAIN w = 1..Len(w) /\ DOMAIN Append(w, d) = 1..(Len(w) + 1)
    OBVIOUS
<1>3. \A i \in 1..Len(w) : Append(w, d)[i] = w[i]
    OBVIOUS
<1>4. Append(w, d)[Len(w) + 1] = d
    OBVIOUS
<1>5. QED  BY <1>1, <1>2, <1>3, <1>4 DEF IdsOn

\* A message that is received takes at most its own id away.
LEMMA IdsTaken ==
    ASSUME NEW S, NEW w \in Seq(S), w # <<>>
    PROVE  /\ Head(w) \in S /\ Tail(w) \in Seq(S)
           /\ IdsOn(w) \subseteq IdsOn(Tail(w)) \cup {Head(w).id}
<1>1. Len(w) \in Nat \ {0} /\ Len(Tail(w)) = Len(w) - 1
    OBVIOUS
<1>2. Head(w) = w[1] /\ \A i \in 1..Len(Tail(w)) : Tail(w)[i] = w[i + 1]
    OBVIOUS
<1>3. ASSUME NEW i \in DOMAIN w, i # 1 PROVE w[i].id \in IdsOn(Tail(w))
    <2>1. i - 1 \in DOMAIN Tail(w) /\ Tail(w)[i - 1] = w[i]
        BY <1>1, <1>2, <1>3
    <2>2. QED  BY <2>1 DEF IdsOn
<1>4. QED  BY <1>2, <1>3 DEF IdsOn

LEMMA ExchangeStarts == ExchangeInit => ExchangeInv
<1>1. Nothing # Waiting
    BY ExchangeAssumption
<1>2. ExchangeInit => WireInv
    BY DEF ExchangeInit, WireInv
<1>3. ExchangeInit => \A c \in CallIds : caller[c] # Waiting
    BY <1>1 DEF ExchangeInit
<1>4. QED  BY <1>2, <1>3 DEF ExchangeInv, NoCallLost

LEMMA CallKeeps == ASSUME ExchangeInv, NEW c \in CallIds, RpcCall(c) PROVE ExchangeInv'
<1> USE DEF ExchangeInv
<1>1. CASE linked
    <2>1. CallOf(c) \in Requests /\ CallOf(c).id = c
        BY IdOnWire DEF Requests, CallOf
    <2>2. up \in Seq(Requests) /\ up' = Append(up, CallOf(c))
        BY <1>1 DEF RpcCall, WireInv
    <2>3. up' \in Seq(Requests)
        BY <2>1, <2>2
    <2>4. IdsOn(up') = IdsOn(up) \cup {c}
        BY <2>1, <2>2, IdsAppended
    <2>5. WireInv'
        BY <1>1, <2>3 DEF RpcCall, WireInv
    <2>6. \A x \in CallIds \ {c} : caller'[x] = caller[x]
        BY <1>1 DEF RpcCall, WireInv
    <2>7. pending' = pending \cup {c} /\ UNCHANGED <<down, serving, stranded>>
        BY <1>1 DEF RpcCall
    <2>8. UNCHANGED IdsOn(down)
        BY <2>7 DEF IdsOn
    <2>9. NoCallLost'
        BY <2>4, <2>6, <2>7, <2>8 DEF NoCallLost
    <2>10. QED  BY <2>5, <2>9
<1>2. CASE ~linked
    <2>1. WireInv'
        BY <1>2 DEF RpcCall, WireInv
    <2>2. caller'[c] # Waiting /\ \A x \in CallIds \ {c} : caller'[x] = caller[x]
        BY <1>2 DEF RpcCall, WireInv, CallError, Waiting
    <2>3. NoCallLost'
        BY <1>2, <2>2 DEF RpcCall, NoCallLost, IdsOn
    <2>4. QED  BY <2>1, <2>3
<1>3. QED  BY <1>1, <1>2

LEMMA TakeKeeps == ASSUME ExchangeInv, TakeCall PROVE ExchangeInv'
<1> USE DEF ExchangeInv
<1>1. up \in Seq(Requests) /\ up # <<>>
    BY DEF TakeCall, WireInv
<1>2. /\ Head(up) \in Requests /\ Tail(up) \in Seq(Requests)
      /\ IdsOn(up) \subseteq IdsOn(Tail(up)) \cup {Head(up).id}
    BY <1>1, IdsTaken
<1>3. /\ Head(up).id \in CallIds
      /\ serving' = make_call(Head(up).id, MethodOf[Head(up).id], Head(up).id)
      /\ serving'.id = Head(up).id
    BY <1>2, RequestArrives DEF TakeCall
<1>4. serving' # Nothing
    <2>1. PICK c \in CallIds : Head(up) = CallOf(c)
        BY <1>2 DEF Requests
    <2>2. QED  BY <2>1, ExchangeAssumption DEF TakeCall
<1>5. WireInv'
    BY <1>2, <1>3 DEF TakeCall, WireInv
<1>6. NoCallLost'
    BY <1>2, <1>3, <1>4 DEF TakeCall, NoCallLost, IdsOn
<1>7. QED  BY <1>5, <1>6

LEMMA AnswerKeeps == ASSUME ExchangeInv, AnswerCall PROVE ExchangeInv'
<1> USE DEF ExchangeInv
<1>1. PICK c \in CallIds : serving = make_call(c, MethodOf[c], c)
    BY DEF AnswerCall, WireInv
<1>2. serving.id = c
    BY <1>1 DEF make_call, Message
<1>3. PICK reply \in Dispatch(serving) : down' = Append(down, ToJson(reply))
    BY <1>1, DispatchAnswers DEF AnswerCall
<1>4. ToJson(reply) \in Replies /\ ToJson(reply).id = c
    BY <1>1, <1>3, DispatchAnswers
<1>5. down' \in Seq(Replies) /\ IdsOn(down') = IdsOn(down) \cup {c}
    BY <1>3, <1>4, IdsAppended DEF WireInv
<1>6. WireInv'
    BY <1>5 DEF AnswerCall, WireInv
<1>7. NoCallLost'
    BY <1>2, <1>5 DEF AnswerCall, NoCallLost, IdsOn
<1>8. QED  BY <1>6, <1>7

LEMMA ReplyKeeps == ASSUME ExchangeInv, HandleReply PROVE ExchangeInv'
<1> USE DEF ExchangeInv
<1> DEFINE id == Head(down).id
<1>1. down \in Seq(Replies) /\ down # <<>>
    BY DEF HandleReply, WireInv
<1>2. /\ Head(down) \in Replies /\ Tail(down) \in Seq(Replies)
      /\ IdsOn(down) \subseteq IdsOn(Tail(down)) \cup {id}
    BY <1>1, IdsTaken
<1>3. id \in CallIds /\ FromJson(Head(down)).id = id
    BY <1>2, ReplyArrives
<1>4. Outcome(FromJson(Head(down))) # Waiting
    BY DEF Outcome, Waiting
<1>5. /\ pending' = pending \ {id} /\ down' = Tail(down)
      /\ caller' = IF id \in pending /\ caller[id] = Waiting
                   THEN [caller EXCEPT ![id] = Outcome(FromJson(Head(down)))] ELSE caller
      /\ UNCHANGED <<up, serving, stranded>>
    BY <1>3 DEF HandleReply
<1> HIDE DEF id
<1>6. WireInv'
    BY <1>2, <1>5 DEF WireInv
<1>7. ASSUME NEW x \in CallIds \ stranded, caller'[x] = Waiting
      PROVE  x # id /\ caller[x] = Waiting
    \* One that waited for this answer was known, so it has got it.
    BY <1>3, <1>4, <1>5, <1>7 DEF NoCallLost, WireInv
<1>8. NoCallLost'
    <2> SUFFICES ASSUME NEW x \in CallIds \ stranded, caller'[x] = Waiting
                 PROVE  /\ x \in pending'
                        /\ x \in IdsOn(up) \cup IdsOn(Tail(down))
                                \cup (IF serving = Nothing THEN {} ELSE {serving.id})
        BY <1>5 DEF NoCallLost, IdsOn
    <2>1. x # id /\ caller[x] = Waiting
        BY <1>7
    <2>2. /\ x \in pending
          /\ x \in IdsOn(up) \cup IdsOn(down) \cup (IF serving = Nothing THEN {} ELSE {serving.id})
        BY <2>1 DEF NoCallLost
    <2>3. QED  BY <1>2, <1>5, <2>1, <2>2
<1>9. QED  BY <1>6, <1>8

LEMMA TimeOutKeeps == ASSUME ExchangeInv, NEW c \in CallIds, CallTimesOut(c) PROVE ExchangeInv'
<1> USE DEF ExchangeInv
<1>1. WireInv'
    BY DEF CallTimesOut, WireInv
<1>2. \A x \in CallIds : caller'[x] = Waiting => caller[x] = Waiting
    BY DEF CallTimesOut, WireInv, Timeout, Waiting
<1>3. NoCallLost'
    BY <1>2 DEF CallTimesOut, NoCallLost, IdsOn
<1>4. QED  BY <1>1, <1>3

\* Whoever waits when the connection is lost is stranded.
LEMMA LossKeeps == ASSUME ExchangeInv, LinkLost PROVE ExchangeInv'
<1> USE DEF ExchangeInv
<1>1. WireInv'
    BY DEF LinkLost, WireInv
<1>2. NoCallLost'
    BY ExchangeAssumption DEF LinkLost, NoCallLost
<1>3. QED  BY <1>1, <1>2

LEMMA ExchangeStep == ExchangeInv /\ [ExchangeNext]_exchangeVars => ExchangeInv'
<1> SUFFICES ASSUME ExchangeInv, [ExchangeNext]_exchangeVars PROVE ExchangeInv'
    OBVIOUS
<1>1. CASE LinkMade
    BY <1>1 DEF LinkMade, ExchangeInv, WireInv, NoCallLost, IdsOn
<1>2. CASE UNCHANGED exchangeVars
    BY <1>2 DEF exchangeVars, ExchangeInv, WireInv, NoCallLost, IdsOn
<1>3. QED
    BY <1>1, <1>2, CallKeeps, TakeKeeps, AnswerKeeps, ReplyKeeps, TimeOutKeeps, LossKeeps
       DEF ExchangeNext, ExchangeOver

\* Between rpc_call, the endpoint and dispatch no call is lost while its connection lasts,
\* for any calls, methods and handlers.
THEOREM CallsAreKept == ExchangeSpec => []NoCallLost
<1>1. ExchangeSpec => []ExchangeInv
    BY ExchangeStarts, ExchangeStep, PTL DEF ExchangeSpec
<1>2. ExchangeInv => NoCallLost
    BY DEF ExchangeInv
<1>3. QED  BY <1>1, <1>2, PTL

\* Which calls end how, and that only those that were made are pending.
LEMMA ExchangeStaysTyped ==
    ASSUME ExchangeInv, ExchangeTypeOK, [ExchangeNext]_exchangeVars
    PROVE  ExchangeTypeOK'
<1> DEFINE Ends(c) == {Nothing, Waiting, CallError, Timeout} \cup Answers(c)
<1>1. /\ \A c \in CallIds : caller[c] \in Ends(c)
      /\ pending \subseteq {c \in CallIds : caller[c] # Nothing}
      /\ linked \in BOOLEAN /\ caller = [c \in CallIds |-> caller[c]]
    BY DEF ExchangeTypeOK, Answers, ExchangeInv, WireInv
<1>2. \A c \in CallIds : Nothing \notin {Waiting, CallError, Timeout} \cup Answers(c)
    BY ExchangeAssumption DEF Answers
<1>3. SUFFICES /\ \A c \in CallIds : caller'[c] \in Ends(c)
               /\ pending' \subseteq {c \in CallIds : caller'[c] # Nothing}
               /\ linked' \in BOOLEAN
    <2>1. WireInv'
        BY ExchangeStep DEF ExchangeInv
    <2>2. serving' # Nothing => serving'.id \in CallIds
        <3>1. SUFFICES ASSUME serving' # Nothing PROVE serving'.id \in CallIds
            OBVIOUS
        <3>2. PICK c \in CallIds : serving' = make_call(c, MethodOf[c], c)
            BY <2>1, <3>1 DEF WireInv
        <3>3. make_call(c, MethodOf[c], c).id = c
            BY DEF make_call, Message
        <3>4. QED  BY <3>2, <3>3
    <2>3. QED  BY <1>3, <2>2 DEF ExchangeTypeOK, Answers
<1> HIDE DEF Ends
<1>4. \A c \in CallIds : {Waiting, CallError, Timeout} \cup Answers(c) \subseteq Ends(c)
    BY DEF Ends
<1>5. ASSUME NEW c \in CallIds, RpcCall(c) \/ CallTimesOut(c)
      PROVE  /\ \A x \in CallIds : caller'[x] \in Ends(x)
             /\ pending' \subseteq {x \in CallIds : caller'[x] # Nothing}
             /\ linked' \in BOOLEAN
    BY <1>1, <1>2, <1>4, <1>5 DEF RpcCall, CallTimesOut
<1>6. CASE HandleReply
    <2>1. down \in Seq(Replies) /\ down # <<>>
        BY <1>6 DEF HandleReply, ExchangeInv, WireInv
    <2>2. Head(down) \in Replies
        BY <2>1, IdsTaken
    <2> DEFINE id == Head(down).id
               end == Outcome(FromJson(Head(down)))
    <2>3. id \in CallIds /\ FromJson(Head(down)).id = id /\ end \in Answers(id)
        BY <2>2, ReplyArrives
    <2>4. /\ pending' = pending \ {id} /\ UNCHANGED linked
          /\ caller' = IF id \in pending /\ caller[id] = Waiting
                       THEN [caller EXCEPT ![id] = end] ELSE caller
        BY <1>6, <2>3 DEF HandleReply
    <2> HIDE DEF id, end
    <2>5. QED  BY <1>1, <1>2, <1>4, <2>3, <2>4
<1>7. CASE TakeCall \/ AnswerCall \/ LinkLost \/ LinkMade \/ ExchangeOver \/ UNCHANGED exchangeVars
    <2>1. UNCHANGED <<caller, pending>> /\ linked' \in BOOLEAN
        BY <1>1, <1>7 DEF TakeCall, AnswerCall, LinkLost, LinkMade, ExchangeOver, exchangeVars
    <2>2. QED  BY <1>1, <2>1
<1>8. QED  BY <1>5, <1>6, <1>7 DEF ExchangeNext

\* A call ends with its own answer, of a kind that its method can have, or with an exception
\* of rpc_call: no answer reaches another call.
THEOREM ExchangeTypeCorrect == ExchangeSpec => []ExchangeTypeOK
<1>1. ExchangeInit => ExchangeTypeOK
    BY DEF ExchangeInit, ExchangeTypeOK
<1>2. QED  BY <1>1, ExchangeStarts, ExchangeStep, ExchangeStaysTyped, PTL DEF ExchangeSpec

-----------------------------------------------------------------------------
(* The life of a call.  A call is in one place at a time: on its way up,     *)
(* served, or its answer on its way down.                                    *)

Unique(w) == \A i, j \in DOMAIN w : w[i].id = w[j].id => i = j

ServedNow == IF serving = Nothing THEN {} ELSE {serving.id}

OncePlaced ==
    /\ Unique(up) /\ Unique(down)
    /\ IdsOn(up) \cap IdsOn(down) = {}
    /\ ServedNow \cap (IdsOn(up) \cup IdsOn(down)) = {}
    /\ \A c \in CallIds : caller[c] = Nothing => c \notin IdsOn(up) \cup IdsOn(down) \cup ServedNow

\* Whoever waits is known, also when the connection was lost.
KnownWaits == \A c \in CallIds : caller[c] = Waiting => c \in pending

OnceInv == ExchangeInv /\ ExchangeTypeOK /\ OncePlaced /\ KnownWaits

LEMMA UniqueAppended ==
    ASSUME NEW S, NEW w \in Seq(S), NEW d, Unique(w), d.id \notin IdsOn(w)
    PROVE  Unique(Append(w, d))
<1>1. Len(w) \in Nat /\ DOMAIN w = 1..Len(w) /\ DOMAIN Append(w, d) = 1..(Len(w) + 1)
    OBVIOUS
<1>2. \A i \in 1..Len(w) : Append(w, d)[i] = w[i] /\ w[i].id # d.id
    BY <1>1 DEF IdsOn
<1>3. Append(w, d)[Len(w) + 1] = d
    OBVIOUS
<1>4. QED  BY <1>1, <1>2, <1>3 DEF Unique

LEMMA UniqueTaken ==
    ASSUME NEW S, NEW w \in Seq(S), w # <<>>, Unique(w)
    PROVE  Unique(Tail(w)) /\ IdsOn(Tail(w)) = IdsOn(w) \ {Head(w).id} /\ Head(w).id \in IdsOn(w)
<1>1. Len(w) \in Nat \ {0} /\ Len(Tail(w)) = Len(w) - 1 /\ Head(w) = w[1]
    OBVIOUS
<1>2. DOMAIN w = 1..Len(w) /\ DOMAIN Tail(w) = 1..(Len(w) - 1)
    BY <1>1
<1>3. \A i \in 1..(Len(w) - 1) : Tail(w)[i] = w[i + 1]
    BY <1>1
<1>4. ASSUME NEW i \in DOMAIN Tail(w) PROVE Tail(w)[i].id \in IdsOn(w) \ {Head(w).id}
    <2>1. i + 1 \in DOMAIN w /\ 1 \in DOMAIN w /\ i + 1 # 1 /\ Tail(w)[i] = w[i + 1]
        BY <1>1, <1>2, <1>3
    <2>2. QED  BY <1>1, <2>1 DEF IdsOn, Unique
<1>5. IdsOn(w) \subseteq IdsOn(Tail(w)) \cup {Head(w).id}
    BY IdsTaken
<1>6. ASSUME NEW i \in DOMAIN Tail(w), NEW j \in DOMAIN Tail(w), Tail(w)[i].id = Tail(w)[j].id
      PROVE  i = j
    <2>1. i + 1 \in DOMAIN w /\ j + 1 \in DOMAIN w
        BY <1>1, <1>2
    <2>2. w[i + 1].id = w[j + 1].id
        BY <1>2, <1>3, <1>6
    <2>3. i + 1 = j + 1
        BY <2>1, <2>2 DEF Unique
    <2>4. QED  BY <1>1, <1>2, <2>3
<1>7. Head(w).id \in IdsOn(w)
    BY <1>1, <1>2 DEF IdsOn
<1>8. Unique(Tail(w))
    BY <1>6 DEF Unique
<1>9. IdsOn(Tail(w)) \subseteq IdsOn(w) \ {Head(w).id}
    BY <1>4 DEF IdsOn
<1>10. QED  BY <1>5, <1>7, <1>8, <1>9

\* The steps of a call in CallLifecycle, from the stages and the outcomes.
LEMMA MovesMapped ==
    ASSUME NEW c \in CallIds, NEW to, Stage(c)' = to,
           \A x \in CallIds \ {c} : Stage(x)' = Stage(x), UNCHANGED caller
    PROVE  Lifecycle!Moves(c, Stage(c), to)
BY DEF Lifecycle!Moves

LEMMA EndsMapped ==
    ASSUME NEW c \in CallIds, NEW end, end # Nothing, end # Waiting,
           caller = [x \in CallIds |-> caller[x]], caller' = [caller EXCEPT ![c] = end],
           \A x \in CallIds \ {c} : Stage(x)' = Stage(x)
    PROVE  Lifecycle!Ends(c, end)
<1>1. Stage(c)' = "over"
    BY DEF Stage
<1>2. \A x \in CallIds : caller'[x] = IF x = c THEN end ELSE caller[x]
    OBVIOUS
<1>3. QED  BY <1>1, <1>2 DEF Lifecycle!Ends

LEMMA StutterMapped ==
    ASSUME \A x \in CallIds : Stage(x)' = Stage(x), UNCHANGED caller
    PROVE  UNCHANGED Lifecycle!vars
BY DEF Lifecycle!vars

LEMMA CallMapped ==
    ASSUME OnceInv, NEW c \in CallIds, RpcCall(c)
    PROVE  OncePlaced' /\ KnownWaits' /\ (Lifecycle!Moves(c, "new", "sent") \/ Lifecycle!Refuse(c))
<1> USE DEF OnceInv, ExchangeInv, WireInv
<1>1. caller[c] = Nothing /\ Stage(c) = "new" /\ c \notin IdsOn(up) \cup IdsOn(down) \cup ServedNow
    BY DEF RpcCall, OncePlaced, Stage
<1>2. /\ pending' = pending \cup {c} /\ UNCHANGED <<down, serving>>
      /\ \A x \in CallIds \ {c} : caller'[x] = caller[x]
    BY DEF RpcCall
<1>3. UNCHANGED <<IdsOn(down), ServedNow>> /\ Unique(down)'
    BY <1>2 DEF ServedNow, OncePlaced
<1>4. Nothing \notin {Waiting, CallError} /\ Waiting # CallError
    BY ExchangeAssumption DEF Waiting, CallError
<1>5. CASE linked
    <2>1. CallOf(c) \in Requests /\ CallOf(c).id = c
        BY IdOnWire DEF Requests, CallOf
    <2>2. up \in Seq(Requests) /\ up' = Append(up, CallOf(c)) /\ caller' = [caller EXCEPT ![c] = Waiting]
        BY <1>5 DEF RpcCall
    <2>3. IdsOn(up') = IdsOn(up) \cup {c}
        BY <2>1, <2>2, IdsAppended
    <2>4. Unique(up')
        BY <1>1, <2>1, <2>2, UniqueAppended DEF OncePlaced
    <2>5. OncePlaced' /\ KnownWaits'
        BY <1>1, <1>2, <1>3, <1>4, <2>2, <2>3, <2>4 DEF OncePlaced, KnownWaits
    <2>6. Stage(c)' = "sent" /\ \A x \in CallIds \ {c} : Stage(x)' = Stage(x)
        BY <1>2, <1>3, <1>4, <2>2, <2>3 DEF Stage
    <2>7. Lifecycle!Moves(c, "new", "sent")
        BY <1>1, <1>2, <1>4, <2>2, <2>6 DEF Lifecycle!Moves
    <2>8. QED  BY <2>5, <2>7
<1>6. CASE ~linked
    <2>1. UNCHANGED up /\ caller' = [caller EXCEPT ![c] = CallError]
        BY <1>6 DEF RpcCall
    <2>2. OncePlaced' /\ KnownWaits'
        BY <1>1, <1>2, <1>3, <1>4, <2>1 DEF OncePlaced, KnownWaits
    <2>3. \A x \in CallIds \ {c} : Stage(x)' = Stage(x)
        BY <1>2, <2>1 DEF Stage
    <2>4. Lifecycle!Refuse(c)
        BY <1>1, <1>4, <2>1, <2>3, EndsMapped DEF Lifecycle!Refuse
    <2>5. QED  BY <2>2, <2>4
<1>7. QED  BY <1>5, <1>6

LEMMA TakeMapped ==
    ASSUME OnceInv, TakeCall
    PROVE  /\ OncePlaced' /\ KnownWaits'
           /\ (\E c \in CallIds : Lifecycle!Moves(c, "sent", "served")) \/ UNCHANGED Lifecycle!vars
<1> USE DEF OnceInv, ExchangeInv, WireInv
<1>0. PICK c : c = Head(up).id
    OBVIOUS
<1>1. up \in Seq(Requests) /\ up # <<>> /\ up' = Tail(up) /\ UNCHANGED <<caller, pending, down>>
    BY DEF TakeCall
<1>2. Head(up) \in Requests
    BY <1>1, IdsTaken
<1>3. c \in CallIds /\ FromJson(Head(up)).id = c
    BY <1>0, <1>2, RequestArrives
<1>4. FromJson(Head(up)) # Nothing
    <2>1. PICK x \in CallIds : Head(up) = CallOf(x)
        BY <1>2 DEF Requests
    <2>2. QED  BY <2>1, ExchangeAssumption
<1>5. ServedNow = {} /\ ServedNow' = {c}
    BY <1>3, <1>4 DEF TakeCall, ServedNow
<1>6. Unique(up') /\ IdsOn(up') = IdsOn(up) \ {c} /\ c \in IdsOn(up)
    BY <1>0, <1>1, UniqueTaken DEF OncePlaced
<1>7. OncePlaced' /\ KnownWaits'
    BY <1>1, <1>5, <1>6 DEF OncePlaced, KnownWaits
<1>8. \A x \in CallIds : x \in IdsOn(down)' <=> x \in IdsOn(down)
    BY <1>1
<1>9. ASSUME NEW x \in CallIds
      PROVE  /\ serving # Nothing /\ serving.id = x <=> x \in ServedNow
             /\ (serving # Nothing /\ serving.id = x)' <=> x \in ServedNow'
    BY DEF ServedNow
<1>10. \A x \in CallIds \ {c} : Stage(x)' = Stage(x)
    BY <1>1, <1>5, <1>6, <1>8, <1>9 DEF Stage
<1>11. CASE caller[c] = Waiting
    <2>1. Stage(c) = "sent" /\ Stage(c)' = "served"
        BY <1>1, <1>3, <1>5, <1>6, <1>9, <1>11, ExchangeAssumption DEF Stage
    <2>2. QED  BY <1>1, <1>3, <1>7, <1>10, <2>1, MovesMapped
<1>12. CASE caller[c] # Waiting
    <2>1. Stage(c)' = Stage(c)
        BY <1>1, <1>12 DEF Stage
    <2>2. QED  BY <1>1, <1>7, <1>10, <2>1, StutterMapped
<1>13. QED  BY <1>11, <1>12

LEMMA AnswerMapped ==
    ASSUME OnceInv, AnswerCall
    PROVE  /\ OncePlaced' /\ KnownWaits'
           /\ (\E c \in CallIds : Lifecycle!Moves(c, "served", "answered")) \/ UNCHANGED Lifecycle!vars
<1> USE DEF OnceInv, ExchangeInv, WireInv
<1>1. PICK c \in CallIds : serving = make_call(c, MethodOf[c], c)
    BY DEF AnswerCall
<1>2. serving.id = c
    BY <1>1 DEF make_call, Message
<1>3. PICK reply \in Dispatch(serving) : down' = Append(down, ToJson(reply))
    BY <1>1, DispatchAnswers DEF AnswerCall
<1>4. ToJson(reply) \in Replies /\ ToJson(reply).id = c
    BY <1>1, <1>3, DispatchAnswers
<1>5. ServedNow = {c} /\ ServedNow' = {} /\ UNCHANGED <<caller, pending, up>>
    BY <1>2 DEF AnswerCall, ServedNow
<1>6. IdsOn(down') = IdsOn(down) \cup {c}
    BY <1>3, <1>4, IdsAppended
<1>7. Unique(down')
    BY <1>3, <1>4, <1>5, UniqueAppended DEF OncePlaced
<1>8. OncePlaced' /\ KnownWaits'
    BY <1>5, <1>6, <1>7 DEF OncePlaced, KnownWaits
<1>9. ASSUME NEW x \in CallIds
      PROVE  /\ serving # Nothing /\ serving.id = x <=> x \in ServedNow
             /\ (serving # Nothing /\ serving.id = x)' <=> x \in ServedNow'
    BY DEF ServedNow
<1>10. \A x \in CallIds \ {c} : Stage(x)' = Stage(x)
    BY <1>5, <1>6, <1>9 DEF Stage
<1>11. CASE caller[c] = Waiting
    <2>1. c \notin IdsOn(up)
        BY <1>5 DEF OncePlaced
    <2>2. Stage(c) = "served" /\ Stage(c)' = "answered"
        BY <1>5, <1>6, <1>9, <1>11, <2>1, ExchangeAssumption DEF Stage
    <2>3. QED  BY <1>5, <1>8, <1>10, <2>2, MovesMapped
<1>12. CASE caller[c] # Waiting
    <2>1. Stage(c)' = Stage(c)
        BY <1>5, <1>12 DEF Stage
    <2>2. QED  BY <1>5, <1>8, <1>10, <2>1, StutterMapped
<1>13. QED  BY <1>11, <1>12

LEMMA ReplyMapped ==
    ASSUME OnceInv, HandleReply
    PROVE  /\ OncePlaced' /\ KnownWaits'
           /\ (\E c \in CallIds : Lifecycle!Finish(c)) \/ UNCHANGED Lifecycle!vars
<1> USE DEF OnceInv, ExchangeInv, WireInv
<1>0. PICK c, end : c = Head(down).id /\ end = Outcome(FromJson(Head(down)))
    OBVIOUS
<1>1. down \in Seq(Replies) /\ down # <<>> /\ down' = Tail(down) /\ UNCHANGED <<up, serving>>
    BY DEF HandleReply
<1>2. Head(down) \in Replies
    BY <1>1, IdsTaken
<1>3. c \in CallIds /\ FromJson(Head(down)).id = c /\ end \in Answers(c)
    BY <1>0, <1>2, ReplyArrives
<1>4. Unique(down') /\ IdsOn(down') = IdsOn(down) \ {c} /\ c \in IdsOn(down)
    BY <1>0, <1>1, UniqueTaken DEF OncePlaced
<1>5. end # Nothing /\ end # Waiting
    BY <1>3, ExchangeAssumption DEF Answers, Waiting
<1>6. /\ pending' = pending \ {c}
      /\ caller' = IF c \in pending /\ caller[c] = Waiting THEN [caller EXCEPT ![c] = end] ELSE caller
    BY <1>0, <1>3 DEF HandleReply
<1>7. caller[c] = Waiting => c \in pending
    BY <1>3 DEF KnownWaits
<1>8. UNCHANGED ServedNow
    BY <1>1 DEF ServedNow
<1>9. OncePlaced' /\ KnownWaits'
    BY <1>1, <1>3, <1>4, <1>5, <1>6, <1>8 DEF OncePlaced, KnownWaits
<1>10. \A x \in CallIds \ {c} : Stage(x)' = Stage(x)
    BY <1>1, <1>3, <1>4, <1>6 DEF Stage
<1>11. CASE caller[c] = Waiting
    <2>1. caller' = [caller EXCEPT ![c] = end]
        BY <1>6, <1>7, <1>11
    <2>2. Lifecycle!Ends(c, end)
        BY <1>3, <1>5, <1>10, <2>1, EndsMapped
    <2>3. c \notin IdsOn(up) \cup ServedNow
        BY <1>4 DEF OncePlaced
    <2>4. ~(serving # Nothing /\ serving.id = c)
        BY <2>3 DEF ServedNow
    <2>5. Stage(c) = "answered"
        BY <1>4, <1>11, <2>3, <2>4, ExchangeAssumption DEF Stage
    <2>6. Lifecycle!Finish(c)
        BY <1>3, <2>2, <2>5 DEF Lifecycle!Finish
    <2>7. QED  BY <1>3, <1>9, <2>6
<1>12. CASE caller[c] # Waiting
    <2>1. UNCHANGED caller
        BY <1>6, <1>12
    <2>2. Stage(c)' = Stage(c)
        BY <1>12, <2>1 DEF Stage
    <2>3. QED  BY <1>9, <1>10, <2>1, <2>2, StutterMapped
<1>13. QED  BY <1>11, <1>12

LEMMA TimeOutMapped ==
    ASSUME OnceInv, NEW c \in CallIds, CallTimesOut(c)
    PROVE  OncePlaced' /\ KnownWaits' /\ Lifecycle!GiveUp(c)
<1> USE DEF OnceInv, ExchangeInv, WireInv
<1>1. /\ caller[c] = Waiting /\ caller' = [caller EXCEPT ![c] = Timeout]
      /\ UNCHANGED <<pending, up, down, serving>>
    BY DEF CallTimesOut
<1>2. Timeout # Nothing /\ Timeout # Waiting /\ Waiting # Nothing
    BY ExchangeAssumption DEF Timeout, Waiting
<1>3. UNCHANGED ServedNow
    BY <1>1 DEF ServedNow
<1>4. OncePlaced' /\ KnownWaits'
    BY <1>1, <1>2, <1>3 DEF OncePlaced, KnownWaits
<1>5. \A x \in CallIds \ {c} : Stage(x)' = Stage(x)
    BY <1>1 DEF Stage
<1>6. Stage(c) \in Lifecycle!InFlight \cup {"lost"}
    BY <1>1, <1>2 DEF Stage, Lifecycle!InFlight
<1>7. Lifecycle!GiveUp(c)
    BY <1>1, <1>2, <1>5, <1>6, EndsMapped DEF Lifecycle!GiveUp
<1>8. QED  BY <1>4, <1>7

LEMMA LossMapped ==
    ASSUME OnceInv, LinkLost
    PROVE  OncePlaced' /\ KnownWaits' /\ Lifecycle!Lose
<1> USE DEF OnceInv, ExchangeInv, WireInv
<1>1. up' = <<>> /\ down' = <<>> /\ serving' = Nothing /\ UNCHANGED <<caller, pending>>
    BY DEF LinkLost
<1>2. IdsOn(up') = {} /\ IdsOn(down') = {} /\ Unique(up') /\ Unique(down')
    BY <1>1 DEF IdsOn, Unique
<1>3. ServedNow' = {}
    BY <1>1 DEF ServedNow
<1>4. OncePlaced' /\ KnownWaits'
    BY <1>1, <1>2, <1>3 DEF OncePlaced, KnownWaits
<1>5. \A x \in CallIds : Stage(x)' = IF Stage(x) \in Lifecycle!InFlight THEN "lost" ELSE Stage(x)
    BY <1>1, <1>2 DEF Stage, Lifecycle!InFlight
<1>6. Lifecycle!Lose
    BY <1>1, <1>5 DEF Lifecycle!Lose
<1>7. QED  BY <1>4, <1>6

LEMMA NothingMapped ==
    ASSUME OnceInv, LinkMade \/ UNCHANGED exchangeVars
    PROVE  OncePlaced' /\ KnownWaits' /\ UNCHANGED Lifecycle!vars
<1>1. UNCHANGED <<caller, pending, up, down, serving>>
    BY DEF LinkMade, exchangeVars
<1>2. OncePlaced' /\ KnownWaits'
    BY <1>1 DEF OnceInv, OncePlaced, KnownWaits, ServedNow
<1>3. UNCHANGED Lifecycle!vars
    BY <1>1, StutterMapped DEF Stage
<1>4. QED  BY <1>2, <1>3

LEMMA ExchangeMapped ==
    ASSUME OnceInv, [ExchangeNext]_exchangeVars
    PROVE  OnceInv' /\ [Lifecycle!Next]_(Lifecycle!vars)
<1>1. ExchangeInv' /\ ExchangeTypeOK'
    BY ExchangeStep, ExchangeStaysTyped DEF OnceInv
<1>2. OncePlaced' /\ KnownWaits' /\ [Lifecycle!Next]_(Lifecycle!vars)
    BY CallMapped, TakeMapped, AnswerMapped, ReplyMapped, TimeOutMapped, LossMapped, NothingMapped
       DEF ExchangeNext, ExchangeOver, Lifecycle!Next
<1>3. QED  BY <1>1, <1>2 DEF OnceInv

\* rpc_call, the endpoint, dispatch and the daemon's handler of messages make of every call what
\* CallLifecycle promises, for any calls, methods and handlers: it is sent, served and answered
\* once, and a late answer or a new connection changes nothing of how it ended.
THEOREM ExchangeImplementsCalls == ExchangeSpec => ImplementsCalls
<1>1. ExchangeInit => OncePlaced /\ KnownWaits /\ ExchangeTypeOK
    BY ExchangeAssumption
       DEF ExchangeInit, OncePlaced, KnownWaits, ExchangeTypeOK, Unique, IdsOn, ServedNow
<1>2. ExchangeInit => OnceInv
    BY <1>1, ExchangeStarts DEF OnceInv
<1>3. ExchangeInit => Lifecycle!Init
    <2> SUFFICES ASSUME ExchangeInit PROVE Lifecycle!Init
        OBVIOUS
    <2>1. \A c \in CallIds : caller[c] = Nothing /\ Nothing # Waiting
        BY ExchangeAssumption DEF ExchangeInit
    <2>2. QED  BY <2>1 DEF Lifecycle!Init, Stage
<1>4. QED  BY <1>2, <1>3, ExchangeMapped, PTL DEF ExchangeSpec, ImplementsCalls, Lifecycle!Spec

-----------------------------------------------------------------------------
(* Streams.  What was sent of a stream is numbered from 0: its start, its    *)
(* pieces, its end.  A receiver that was in time has handled the first n of  *)
(* these, and the others are on the connection, in order, mixed with those   *)
(* of other streams - or the connection was lost with them, for good.        *)

\* The constructors of stream messages make messages of the form that to_json and from_json keep.
LEMMA StreamConstructorsMake ==
    ASSUME NEW s, NEW x, NEW y
    PROVE  /\ make_stream_start(s, x) = [f \in Fields |-> make_stream_start(s, x)[f]]
           /\ make_stream_chunk(s, x, y) = [f \in Fields |-> make_stream_chunk(s, x, y)[f]]
           /\ make_stream_end(s) = [f \in Fields |-> make_stream_end(s)[f]]
BY DEF make_stream_start, make_stream_chunk, make_stream_end, Message, Fields, Optional

StartOf(s)    == ToJson(make_stream_start(s, ContentOf[s]))
ChunkOf(s, k) == ToJson(make_stream_chunk(s, <<s, k>>, k))
EndOf(s)      == ToJson(make_stream_end(s))

\* What handle_message sees of each message, and that its id is on the wire.
LEMMA StreamArrives ==
    ASSUME NEW s, NEW k
    PROVE  /\ StartOf(s).id = s /\ FromJson(StartOf(s)).id = s
           /\ FromJson(StartOf(s)).type = "stream.start"
           /\ FromJson(StartOf(s)).metadata = ContentOf[s]
           /\ ChunkOf(s, k).id = s /\ FromJson(ChunkOf(s, k)).id = s
           /\ FromJson(ChunkOf(s, k)).type = "stream.chunk"
           /\ FromJson(ChunkOf(s, k)).result = <<s, k>>
           /\ FromJson(ChunkOf(s, k)).metadata = k
           /\ EndOf(s).id = s /\ FromJson(EndOf(s)).id = s
           /\ FromJson(EndOf(s)).type = "stream.end"
<1>1. /\ FromJson(StartOf(s)) = make_stream_start(s, ContentOf[s])
      /\ FromJson(ChunkOf(s, k)) = make_stream_chunk(s, <<s, k>>, k)
      /\ FromJson(EndOf(s)) = make_stream_end(s)
    BY StreamConstructorsMake, MessageSurvives DEF StartOf, ChunkOf, EndOf
<1>2. StartOf(s).id = s /\ ChunkOf(s, k).id = s /\ EndOf(s).id = s
    BY DEF StartOf, ChunkOf, EndOf, make_stream_start, make_stream_chunk, make_stream_end,
           Message, ToJson, Optional
<1>3. ASSUME NEW x, NEW y
      PROVE  /\ make_stream_start(s, x).id = s /\ make_stream_start(s, x).type = "stream.start"
             /\ make_stream_start(s, x).metadata = x
             /\ make_stream_chunk(s, x, y).id = s /\ make_stream_chunk(s, x, y).type = "stream.chunk"
             /\ make_stream_chunk(s, x, y).result = x /\ make_stream_chunk(s, x, y).metadata = y
             /\ make_stream_end(s).id = s /\ make_stream_end(s).type = "stream.end"
    BY DEF make_stream_start, make_stream_chunk, make_stream_end, Message
<1>4. QED  BY <1>1, <1>2, <1>3

\* The message number q of stream s, of which n pieces are sent.
Nth(s, q, n) == IF q = 0 THEN StartOf(s) ELSE IF q <= n THEN ChunkOf(s, q - 1) ELSE EndOf(s)

\* How many messages of a stream were sent.
Top(s) == CASE stage[s] = "none" -> 0 [] stage[s] = "open" -> sent[s] + 1
            [] stage[s] = "ended" -> sent[s] + 2

\* The messages of one stream differ: start, each chunk by its number, end.
LEMMA NthDiffer ==
    ASSUME NEW s, NEW n \in Nat, NEW q \in 0..(n + 1), NEW r \in 0..(n + 1),
           Nth(s, q, n) = Nth(s, r, n)
    PROVE  q = r
<1>1. ASSUME NEW p \in 0..(n + 1)
      PROVE  FromJson(Nth(s, p, n)).type =
                IF p = 0 THEN "stream.start" ELSE IF p <= n THEN "stream.chunk" ELSE "stream.end"
    <2>1. CASE p = 0
        BY <2>1, StreamArrives DEF Nth
    <2>2. CASE p # 0 /\ p <= n
        <3>1. Nth(s, p, n) = ChunkOf(s, p - 1)
            BY <2>2 DEF Nth
        <3>2. QED  BY <2>2, <3>1, StreamArrives
    <2>3. CASE p # 0 /\ ~(p <= n)
        BY <2>3, StreamArrives DEF Nth
    <2>4. QED  BY <2>1, <2>2, <2>3
<1>2. CASE q > n /\ r > n
    BY <1>2
<1>3. CASE q # 0 /\ r # 0 /\ q <= n /\ r <= n
    <2>1. ChunkOf(s, q - 1) = ChunkOf(s, r - 1)
        BY <1>3 DEF Nth
    <2>2. q - 1 = r - 1
        BY <2>1, StreamArrives
    <2>3. QED  BY <2>2
<1>4. (q = 0 <=> r = 0) /\ (q <= n <=> r <= n)
    BY <1>1
<1>5. QED  BY <1>2, <1>3, <1>4

Messages ==
    {StartOf(s) : s \in Streams} \cup {ChunkOf(s, k) : s \in Streams, k \in Nat}
    \cup {EndOf(s) : s \in Streams}

\* The connection was lost, for good.
Cut == wire = <<>> /\ \A s \in Streams : stage[s] = "ended"

\* The messages of s from number n on are on the connection, in order.
Feed(s, n) ==
    /\ \A q \in n..(Top(s) - 1) : \E i \in 1..Len(wire) : wire[i] = Nth(s, q, sent[s])
    /\ \A i \in 1..Len(wire) :
          wire[i].id = s => \E q \in n..(Top(s) - 1) : wire[i] = Nth(s, q, sent[s])
    /\ \A i, j \in 1..Len(wire), q, r \in n..(Top(s) - 1) :
          i < j /\ wire[i] = Nth(s, q, sent[s]) /\ wire[j] = Nth(s, r, sent[s]) => q < r

Pieces(s, k) == [i \in 1..k |-> <<s, i - 1>>]

ReceiverOf(chunks, content, complete) ==
    [chunks |-> chunks, content |-> content, complete |-> complete]

\* A receiver that has handled the first n messages, but not the last.
Received(s, n) ==
    IF n = 0 THEN Fresh
    ELSE ReceiverOf(Pieces(s, n - 1), ContentOf[s], FALSE)

Whole(s) == ReceiverOf(Pieces(s, sent[s]), ContentOf[s], TRUE)

Fed(s) == \E n \in 0..(sent[s] + 1) : /\ n <= Top(s) /\ receiver[s] = Received(s, n)
                                      /\ Cut \/ Feed(s, n)

\* s has its receiver.
Served(s) == s \in listed \/ receiver[s] # Nothing

Timely(s) ==
    \/ s \notin listed /\ stage[s] = "ended" /\ receiver[s] = Whole(s)
    \/ s \in listed /\ Fed(s)

Delivered(s) == stage[s] = "ended" /\ outcome[s] = Assemble(Whole(s))

StreamInv ==
    /\ stage \in [Streams -> {"none", "open", "ended"}]
    /\ sent \in [Streams -> Nat]
    /\ wire \in Seq(Messages)
    /\ receiver = [s \in Streams |-> receiver[s]]
    /\ outcome = [s \in Streams |-> outcome[s]]
    /\ \A s \in Streams :
         /\ stage[s] = "none" => sent[s] = 0 /\ \A i \in 1..Len(wire) : wire[i].id # s
         /\ s \notin late /\ Served(s) => Timely(s)
         /\ s \notin late /\ outcome[s] \notin {Nothing, TimedOut} => Delivered(s)

LEMMA StreamStarts == StreamInit => StreamInv
BY DEF StreamInit, StreamInv, Served

\* A message that is added to those of its stream.
LEMMA FeedGrows ==
    ASSUME StreamInv, NEW s \in Streams, NEW n \in Nat, NEW d \in Messages, Feed(s, n),
           wire' = Append(wire, d), n <= Top(s), Top(s)' = Top(s) + 1,
           \A q \in n..(Top(s) - 1) : Nth(s, q, sent'[s]) = Nth(s, q, sent[s]),
           d = Nth(s, Top(s), sent'[s]), d.id = s, sent'[s] \in Nat, Top(s)' <= sent'[s] + 2,
           Top(s) \in Nat
    PROVE  Feed(s, n)'
<1>1. /\ wire \in Seq(Messages) /\ Len(wire) \in Nat /\ Len(wire') = Len(wire) + 1
      /\ wire'[Len(wire) + 1] = d /\ \A i \in 1..Len(wire) : wire'[i] = wire[i]
    BY DEF StreamInv
<1> DEFINE L == Len(wire)
           T == Top(s)
           m == sent'[s]
<1>2. L \in Nat /\ T \in Nat /\ m \in Nat /\ T <= m + 1
    BY <1>1
<1>3. /\ \A q \in n..(T - 1) : \E i \in 1..L : wire[i] = Nth(s, q, m)
      /\ \A i \in 1..L : wire[i].id = s => \E q \in n..(T - 1) : wire[i] = Nth(s, q, m)
      /\ \A i, j \in 1..L, q, r \in n..(T - 1) :
            i < j /\ wire[i] = Nth(s, q, m) /\ wire[j] = Nth(s, r, m) => q < r
    <2>1. \A q \in n..(T - 1) : Nth(s, q, m) = Nth(s, q, sent[s])
        OBVIOUS
    <2>2. /\ \A q \in n..(T - 1) : \E i \in 1..L : wire[i] = Nth(s, q, sent[s])
          /\ \A i \in 1..L : wire[i].id = s => \E q \in n..(T - 1) : wire[i] = Nth(s, q, sent[s])
          /\ \A i, j \in 1..L, q, r \in n..(T - 1) :
                i < j /\ wire[i] = Nth(s, q, sent[s]) /\ wire[j] = Nth(s, r, sent[s]) => q < r
        BY DEF Feed
    <2> HIDE DEF L, T, m
    <2>3. \A q \in n..(T - 1) : \E i \in 1..L : wire[i] = Nth(s, q, m)
        BY <2>1, <2>2
    <2>4. \A i \in 1..L : wire[i].id = s => \E q \in n..(T - 1) : wire[i] = Nth(s, q, m)
        BY <2>1, <2>2
    <2>5. ASSUME NEW i \in 1..L, NEW j \in 1..L, NEW q \in n..(T - 1), NEW r \in n..(T - 1),
                 i < j, wire[i] = Nth(s, q, m), wire[j] = Nth(s, r, m)
          PROVE  q < r
        BY <2>1, <2>2, <2>5
    <2>6. QED  BY <2>3, <2>4, <2>5
<1>4. Len(wire') = L + 1 /\ wire'[L + 1] = d /\ \A i \in 1..L : wire'[i] = wire[i]
    BY <1>1
<1>5. d = Nth(s, T, m) /\ d.id = s /\ Top(s)' = T + 1
    OBVIOUS
<1> HIDE DEF L, T, m
<1>6. \A q \in n..T : \E i \in 1..(L + 1) : wire'[i] = Nth(s, q, m)
    <2> TAKE q \in n..T
    <2>1. CASE q = T
        BY <1>2, <1>4, <1>5, <2>1
    <2>2. CASE q # T
        <3>1. PICK i \in 1..L : wire[i] = Nth(s, q, m)
            BY <1>2, <1>3, <2>2
        <3>2. QED  BY <1>2, <1>4, <3>1
    <2>3. QED  BY <2>1, <2>2
<1>7. \A i \in 1..(L + 1) : wire'[i].id = s => \E q \in n..T : wire'[i] = Nth(s, q, m)
    <2> SUFFICES ASSUME NEW i \in 1..(L + 1), wire'[i].id = s
                 PROVE  \E q \in n..T : wire'[i] = Nth(s, q, m)
        OBVIOUS
    <2>1. T \in n..T
        BY <1>2 DEF T
    <2>2. CASE i = L + 1
        BY <1>4, <1>5, <2>1, <2>2
    <2>3. CASE i # L + 1
        <3>1. i \in 1..L /\ wire'[i] = wire[i]
            BY <1>2, <1>4, <2>3
        <3>2. PICK q \in n..(T - 1) : wire[i] = Nth(s, q, m)
            <4>1. wire[i].id = s
                BY <3>1
            <4>2. QED  BY <1>3, <3>1, <4>1
        <3>3. q \in n..T
            BY <1>2, <3>2
        <3>4. wire'[i] = Nth(s, q, m)
            BY <3>1, <3>2
        <3>5. QED  BY <3>3, <3>4
    <2>4. QED  BY <2>2, <2>3
<1>8. ASSUME NEW i \in 1..(L + 1), NEW j \in 1..(L + 1), NEW q \in n..T, NEW r \in n..T,
             i < j, wire'[i] = Nth(s, q, m), wire'[j] = Nth(s, r, m)
      PROVE  q < r
    <2>1. i \in 1..L /\ wire[i] = Nth(s, q, m)
        BY <1>2, <1>4, <1>8
    <2>2. ASSUME q = T PROVE FALSE
        <3>1. wire[i].id = s
            BY <2>1, <2>2, <1>5
        <3>2. PICK p \in n..(T - 1) : wire[i] = Nth(s, p, m)
            BY <1>3, <2>1, <3>1
        <3>3. p = T
            BY <1>2, <2>1, <2>2, <3>2, NthDiffer
        <3>4. QED  BY <1>2, <3>3
    <2>3. CASE r = T
        BY <1>2, <2>2, <2>3
    <2>4. CASE r # T
        <3>1. j # L + 1
            <4>1. ASSUME j = L + 1 PROVE FALSE
                <5>1. Nth(s, r, m) = Nth(s, T, m)
                    BY <1>4, <1>5, <1>8, <4>1
                <5>2. r = T
                    BY <1>2, <5>1, NthDiffer
                <5>3. QED  BY <2>4, <5>2
            <4>2. QED  BY <4>1
        <3>2. j \in 1..L /\ wire[j] = Nth(s, r, m)
            BY <1>2, <1>4, <1>8, <3>1
        <3>3. q \in n..(T - 1) /\ r \in n..(T - 1)
            BY <1>2, <2>2, <2>4
        <3>4. QED  BY <1>3, <1>8, <2>1, <3>2, <3>3
    <2>5. QED  BY <2>3, <2>4
<1>9. (n..(Top(s) - 1))' = n..T
    BY <1>2, <1>5
<1>10. Len(wire') = L + 1 /\ sent'[s] = m
    BY <1>4 DEF m
<1>11. \A q \in (n..(Top(s) - 1))' : \E i \in 1..Len(wire') : wire'[i] = Nth(s, q, sent'[s])
    BY <1>6, <1>9, <1>10
<1>13. \A i \in 1..Len(wire') :
            wire'[i].id = s => \E q \in (n..(Top(s) - 1))' : wire'[i] = Nth(s, q, sent'[s])
    BY <1>7, <1>9, <1>10
<1>12. \A i, j \in 1..Len(wire'), q, r \in (n..(Top(s) - 1))' :
          i < j /\ wire'[i] = Nth(s, q, sent'[s]) /\ wire'[j] = Nth(s, r, sent'[s]) => q < r
    BY <1>8, <1>9, <1>10
<1>14. QED  BY <1>11, <1>12, <1>13 DEF Feed

\* A message of another stream is added.
LEMMA FeedStays ==
    ASSUME StreamInv, NEW s \in Streams, NEW n \in Nat, NEW d \in Messages, Feed(s, n), d.id # s,
           wire' = Append(wire, d), Top(s)' = Top(s), sent'[s] = sent[s]
    PROVE  Feed(s, n)'
<1>1. /\ Len(wire) \in Nat /\ Len(wire') = Len(wire) + 1
      /\ wire'[Len(wire) + 1] = d /\ \A i \in 1..Len(wire) : wire'[i] = wire[i]
    BY DEF StreamInv
<1> DEFINE L == Len(wire)
           N(q) == Nth(s, q, sent[s])
           Q == n..(Top(s) - 1)
<1>2. /\ \A q \in Q : \E i \in 1..L : wire[i] = N(q)
      /\ \A i \in 1..L : wire[i].id = s => \E q \in Q : wire[i] = N(q)
      /\ \A i, j \in 1..L, q, r \in Q : i < j /\ wire[i] = N(q) /\ wire[j] = N(r) => q < r
    BY DEF Feed
<1>3. \A q \in Q : N(q).id = s
    <2>1. StartOf(s).id = s /\ EndOf(s).id = s /\ \A k : ChunkOf(s, k).id = s
        BY StreamArrives
    <2>2. QED  BY <2>1 DEF Nth
<1>4. /\ L \in Nat /\ Len(wire') = L + 1
      /\ wire'[L + 1] = d /\ \A i \in 1..L : wire'[i] = wire[i]
    BY <1>1
<1> HIDE DEF L, N, Q
<1>5. \A i \in 1..(L + 1), q \in Q : wire'[i] = N(q) => i \in 1..L /\ wire[i] = N(q)
    BY <1>3, <1>4
<1>6. /\ \A q \in Q : \E i \in 1..(L + 1) : wire'[i] = N(q)
      /\ \A i \in 1..(L + 1) : wire'[i].id = s => \E q \in Q : wire'[i] = N(q)
    BY <1>2, <1>4
<1>7. \A i, j \in 1..(L + 1), q, r \in Q : i < j /\ wire'[i] = N(q) /\ wire'[j] = N(r) => q < r
    BY <1>2, <1>5
<1>8. QED  BY <1>4, <1>6, <1>7 DEF Feed, N, Q

\* The next message of s is handled.
LEMMA FeedTaken ==
    ASSUME StreamInv, NEW s \in Streams, NEW n \in Nat, Feed(s, n), wire # <<>>,
           Head(wire).id = s, wire' = Tail(wire), UNCHANGED <<stage, sent>>
    PROVE  /\ n < Top(s) /\ Head(wire) = Nth(s, n, sent[s])
           /\ Feed(s, n + 1)'
<1>1. /\ Len(wire) \in Nat \ {0} /\ Len(wire') = Len(wire) - 1 /\ Head(wire) = wire[1]
      /\ \A i \in 1..(Len(wire) - 1) : wire'[i] = wire[i + 1]
    BY DEF StreamInv
<1> DEFINE L == Len(wire)
           T == Top(s)
           m == sent[s]
<1>2. T \in Nat /\ m \in Nat /\ T <= m + 2
    BY DEF StreamInv, Top
<1>3. /\ \A q \in n..(T - 1) : \E i \in 1..L : wire[i] = Nth(s, q, m)
      /\ \A i \in 1..L : wire[i].id = s => \E q \in n..(T - 1) : wire[i] = Nth(s, q, m)
      /\ \A i, j \in 1..L, q, r \in n..(T - 1) :
            i < j /\ wire[i] = Nth(s, q, m) /\ wire[j] = Nth(s, r, m) => q < r
    BY DEF Feed
<1>4. /\ L \in Nat \ {0} /\ Len(wire') = L - 1
      /\ \A i \in 1..(L - 1) : wire'[i] = wire[i + 1]
    BY <1>1
<1>5. wire[1].id = s
    BY <1>1
<1> HIDE DEF L, T, m
<1>6. PICK q \in n..(T - 1) : wire[1] = Nth(s, q, m)
    BY <1>3, <1>4, <1>5
<1>7. n \in n..(T - 1)
    BY <1>2, <1>6
<1>8. PICK k \in 1..L : wire[k] = Nth(s, n, m)
    BY <1>3, <1>7
<1>9. k = 1
    BY <1>3, <1>4, <1>6, <1>7, <1>8
<1>10. wire[1] = Nth(s, n, m) /\ n < T
    BY <1>2, <1>7, <1>8, <1>9
<1>11. \A r \in (n + 1)..(T - 1) : \E i \in 1..(L - 1) : wire'[i] = Nth(s, r, m)
    <2> TAKE r \in (n + 1)..(T - 1)
    <2>1. PICK i \in 1..L : wire[i] = Nth(s, r, m)
        BY <1>2, <1>3
    <2>2. i # 1
        <3>1. ASSUME i = 1 PROVE FALSE
            <4>1. r = n
                BY <1>2, <1>7, <1>10, <2>1, <3>1, NthDiffer
            <4>2. QED  BY <4>1
        <3>2. QED  BY <3>1
    <2>3. i - 1 \in 1..(L - 1) /\ wire'[i - 1] = wire[i]
        BY <1>4, <2>2
    <2>4. QED  BY <2>1, <2>3
<1>12. \A i \in 1..(L - 1) : wire'[i].id = s => \E r \in (n + 1)..(T - 1) : wire'[i] = Nth(s, r, m)
    <2> SUFFICES ASSUME NEW i \in 1..(L - 1), wire'[i].id = s
                 PROVE  \E r \in (n + 1)..(T - 1) : wire'[i] = Nth(s, r, m)
        OBVIOUS
    <2>1. i + 1 \in 1..L /\ 1 \in 1..L /\ wire'[i] = wire[i + 1] /\ 1 < i + 1
        BY <1>4
    <2>2. PICK r \in n..(T - 1) : wire[i + 1] = Nth(s, r, m)
        BY <1>3, <2>1
    <2>3. n < r
        BY <1>3, <1>7, <1>10, <2>1, <2>2
    <2>4. wire'[i] = Nth(s, r, m)
        BY <2>1, <2>2
    <2>5. r \in (n + 1)..(T - 1)
        BY <1>2, <2>3
    <2>6. QED  BY <2>4, <2>5
<1>13. \A i, j \in 1..(L - 1), p, r \in (n + 1)..(T - 1) :
          i < j /\ wire'[i] = Nth(s, p, m) /\ wire'[j] = Nth(s, r, m) => p < r
    <2> SUFFICES ASSUME NEW i \in 1..(L - 1), NEW j \in 1..(L - 1),
                        NEW p \in (n + 1)..(T - 1), NEW r \in (n + 1)..(T - 1),
                        i < j, wire'[i] = Nth(s, p, m), wire'[j] = Nth(s, r, m)
                 PROVE  p < r
        OBVIOUS
    <2>1. i + 1 \in 1..L /\ j + 1 \in 1..L /\ i + 1 < j + 1
          /\ wire'[i] = wire[i + 1] /\ wire'[j] = wire[j + 1]
        BY <1>4
    <2>2. p \in n..(T - 1) /\ r \in n..(T - 1)
        BY <1>2
    <2>3. wire[i + 1] = Nth(s, p, m) /\ wire[j + 1] = Nth(s, r, m)
        BY <2>1
    <2>4. QED  BY <1>3, <2>1, <2>2, <2>3
<1>14. Top(s)' = T /\ sent'[s] = m
    BY DEF Top, T, m
<1>15. ((n + 1)..(Top(s) - 1))' = (n + 1)..(T - 1)
    BY <1>14
<1>16. Feed(s, n + 1)'
    <2>1. \A r \in ((n + 1)..(Top(s) - 1))' : \E i \in 1..Len(wire') : wire'[i] = Nth(s, r, sent'[s])
        BY <1>4, <1>11, <1>14, <1>15
    <2>2. \A i \in 1..Len(wire') :
             wire'[i].id = s => \E r \in ((n + 1)..(Top(s) - 1))' : wire'[i] = Nth(s, r, sent'[s])
        BY <1>4, <1>12, <1>14, <1>15
    <2>3. \A i, j \in 1..Len(wire'), p, r \in ((n + 1)..(Top(s) - 1))' :
             i < j /\ wire'[i] = Nth(s, p, sent'[s]) /\ wire'[j] = Nth(s, r, sent'[s]) => p < r
        BY <1>4, <1>13, <1>14, <1>15
    <2>4. QED  BY <2>1, <2>2, <2>3 DEF Feed
<1>17. QED  BY <1>1, <1>10, <1>16 DEF T, m

\* A message of another stream is handled.
LEMMA FeedSkips ==
    ASSUME StreamInv, NEW s \in Streams, NEW n \in Nat, Feed(s, n), wire # <<>>,
           Head(wire).id # s, wire' = Tail(wire), UNCHANGED <<stage, sent>>
    PROVE  Feed(s, n)'
<1>1. /\ Len(wire) \in Nat \ {0} /\ Len(wire') = Len(wire) - 1 /\ wire[1].id # s
      /\ \A i \in 1..(Len(wire) - 1) : wire'[i] = wire[i + 1]
    BY DEF StreamInv
<1> DEFINE L == Len(wire)
           N(q) == Nth(s, q, sent[s])
           Q == n..(Top(s) - 1)
<1>2. /\ \A q \in Q : \E i \in 1..L : wire[i] = N(q)
      /\ \A i \in 1..L : wire[i].id = s => \E q \in Q : wire[i] = N(q)
      /\ \A i, j \in 1..L, q, r \in Q : i < j /\ wire[i] = N(q) /\ wire[j] = N(r) => q < r
    BY DEF Feed
<1>3. \A q \in Q : N(q).id = s
    <2>1. StartOf(s).id = s /\ EndOf(s).id = s /\ \A k : ChunkOf(s, k).id = s
        BY StreamArrives
    <2>2. QED  BY <2>1 DEF Nth
<1>4. /\ L \in Nat \ {0} /\ Len(wire') = L - 1 /\ wire[1].id # s
      /\ \A i \in 1..(L - 1) : wire'[i] = wire[i + 1]
    BY <1>1
<1>5. Top(s)' = Top(s)
    BY DEF Top
<1> HIDE DEF L, N, Q
<1>6. \A q \in Q : \E i \in 1..(L - 1) : wire'[i] = N(q)
    <2> TAKE q \in Q
    <2>1. PICK i \in 1..L : wire[i] = N(q)
        BY <1>2
    <2>2. i - 1 \in 1..(L - 1) /\ wire'[i - 1] = wire[i]
        BY <1>3, <1>4, <2>1
    <2>3. QED  BY <2>1, <2>2
<1>7. \A i \in 1..(L - 1) : wire'[i].id = s => \E q \in Q : wire'[i] = N(q)
    BY <1>2, <1>4
<1>8. \A i, j \in 1..(L - 1), q, r \in Q : i < j /\ wire'[i] = N(q) /\ wire'[j] = N(r) => q < r
    <2> SUFFICES ASSUME NEW i \in 1..(L - 1), NEW j \in 1..(L - 1), NEW q \in Q, NEW r \in Q,
                        i < j, wire'[i] = N(q), wire'[j] = N(r)
                 PROVE  q < r
        OBVIOUS
    <2>1. i + 1 \in 1..L /\ j + 1 \in 1..L /\ i + 1 < j + 1
          /\ wire'[i] = wire[i + 1] /\ wire'[j] = wire[j + 1]
        BY <1>4
    <2>2. wire[i + 1] = N(q) /\ wire[j + 1] = N(r)
        BY <2>1
    <2>3. \A x, y \in 1..L : x < y /\ wire[x] = N(q) /\ wire[y] = N(r) => q < r
        BY <1>2
    <2>4. QED  BY <2>1, <2>2, <2>3
<1>9. QED  BY <1>4, <1>5, <1>6, <1>7, <1>8 DEF Feed, N, Q

\* What keeps a stream's part of the invariant when nothing happens to the stream itself.
Kept(s) ==
    /\ stage[s] = "none" => sent[s] = 0 /\ \A i \in 1..Len(wire) : wire[i].id # s
    /\ s \notin late /\ Served(s) => Timely(s)
    /\ s \notin late /\ outcome[s] \notin {Nothing, TimedOut} => Delivered(s)

\* The cloud sends a message d of stream t: what becomes of another stream.
LEMMA OthersKept ==
    ASSUME StreamInv, NEW t \in Streams, NEW d \in Messages, d.id = t, wire' = Append(wire, d),
           stage' = [stage EXCEPT ![t] = stage'[t]], sent' = [sent EXCEPT ![t] = sent'[t]],
           UNCHANGED <<receiver, listed, late, outcome>>, ~Cut,
           NEW s \in Streams, s # t
    PROVE  Kept(s)'
<1>1. stage'[s] = stage[s] /\ sent'[s] = sent[s] /\ Top(s)' = Top(s)
    BY DEF StreamInv, Top
<1>2. stage'[s] = "none" => sent'[s] = 0 /\ \A i \in 1..Len(wire') : wire'[i].id # s
    <2>1. /\ Len(wire) \in Nat /\ Len(wire') = Len(wire) + 1
          /\ wire'[Len(wire) + 1] = d /\ \A i \in 1..Len(wire) : wire'[i] = wire[i]
        BY DEF StreamInv
    <2>2. QED  BY <1>1, <2>1 DEF StreamInv
<1>3. ASSUME s \notin late, Served(s) PROVE Timely(s)'
    <2>1. CASE s \notin listed /\ stage[s] = "ended" /\ receiver[s] = Whole(s)
        BY <1>1, <2>1 DEF Timely, Whole
    <2>2. CASE s \in listed /\ Fed(s)
        <3>1. PICK n \in 0..(sent[s] + 1) : n <= Top(s) /\ receiver[s] = Received(s, n) /\ Feed(s, n)
            BY <2>2 DEF Fed
        <3>2. n \in Nat
            BY DEF StreamInv
        <3>5. Feed(s, n)'
            BY <1>1, <3>1, <3>2, FeedStays
        <3>3. Fed(s)'
            BY <1>1, <3>1, <3>5 DEF Fed, Received
        <3>4. QED  BY <2>2, <3>3 DEF Timely
    <2>3. QED  BY <1>3, <2>1, <2>2 DEF StreamInv, Served, Timely
<1>4. s \notin late /\ outcome[s] \notin {Nothing, TimedOut} => Delivered(s)'
    BY <1>1 DEF StreamInv, Delivered, Whole
<1>5. QED  BY <1>2, <1>3, <1>4 DEF Kept, Served

\* And of the stream itself.
LEMMA OwnKept ==
    ASSUME StreamInv, NEW t \in Streams, NEW d \in Messages, d.id = t, wire' = Append(wire, d),
           stage' = [stage EXCEPT ![t] = stage'[t]], sent' = [sent EXCEPT ![t] = sent'[t]],
           UNCHANGED <<receiver, listed, late, outcome>>, stage[t] # "ended",
           stage'[t] \in {"open", "ended"}, sent'[t] \in Nat, sent[t] <= sent'[t],
           Top(t)' = Top(t) + 1, d = Nth(t, Top(t), sent'[t]),
           \A q \in 0..(Top(t) - 1) : Nth(t, q, sent'[t]) = Nth(t, q, sent[t])
    PROVE  Kept(t)'
<1>1. Top(t) \in Nat /\ sent[t] \in Nat /\ Top(t)' <= sent'[t] + 2 /\ ~Cut
    BY DEF StreamInv, Top, Cut
<1>2. ASSUME t \notin late, Served(t) PROVE Timely(t)'
    <2>1. t \in listed /\ Fed(t)
        BY <1>2 DEF StreamInv, Served, Timely
    <2>2. PICK n \in 0..(sent[t] + 1) : n <= Top(t) /\ receiver[t] = Received(t, n) /\ Feed(t, n)
        BY <1>1, <2>1 DEF Fed
    <2>3. n \in Nat /\ \A q \in n..(Top(t) - 1) : q \in 0..(Top(t) - 1)
        BY <1>1
    <2>4. Feed(t, n)'
        BY <1>1, <2>2, <2>3, FeedGrows
    <2>5. n \in 0..(sent'[t] + 1) /\ n <= Top(t)'
        BY <1>1, <2>2
    <2>6. Fed(t)'
        BY <2>2, <2>4, <2>5 DEF Fed, Received
    <2>7. QED  BY <2>1, <2>6 DEF Timely
<1>3. ~(t \notin late /\ outcome[t] \notin {Nothing, TimedOut})
    BY DEF StreamInv, Delivered
<1>4. QED  BY <1>2, <1>3 DEF Kept, Served

\* Together: whatever the cloud sends next.
LEMMA SendKeeps ==
    ASSUME StreamInv, NEW t \in Streams, NEW d \in Messages, d.id = t, wire' = Append(wire, d),
           stage' = [stage EXCEPT ![t] = stage'[t]], sent' = [sent EXCEPT ![t] = sent'[t]],
           UNCHANGED <<receiver, listed, late, outcome>>, stage[t] # "ended",
           stage'[t] \in {"open", "ended"}, sent'[t] \in Nat, sent[t] <= sent'[t],
           Top(t)' = Top(t) + 1, d = Nth(t, Top(t), sent'[t]),
           \A q \in 0..(Top(t) - 1) : Nth(t, q, sent'[t]) = Nth(t, q, sent[t])
    PROVE  StreamInv'
<1>1. ~Cut
    BY DEF Cut
<1>2. \A s \in Streams : Kept(s)'
    BY <1>1, OthersKept, OwnKept
<1>3. stage' \in [Streams -> {"none", "open", "ended"}]
    <2>1. stage'[t] \in {"none", "open", "ended"}
        OBVIOUS
    <2>2. stage \in [Streams -> {"none", "open", "ended"}]
        BY DEF StreamInv
    <2>3. QED  BY <2>1, <2>2
<1>4. sent' \in [Streams -> Nat]
    BY DEF StreamInv
<1>5. wire' \in Seq(Messages)
    BY DEF StreamInv
<1>6. QED  BY <1>2, <1>3, <1>4, <1>5 DEF StreamInv, Kept, Served

LEMMA StartedKeeps == ASSUME StreamInv, NEW t \in Streams, Started(t) PROVE StreamInv'
<1>1. /\ StartOf(t) \in Messages /\ StartOf(t).id = t
      /\ wire' = Append(wire, StartOf(t))
    <2>1. StartOf(t) \in Messages
        BY DEF Messages
    <2>2. StartOf(t).id = t
        BY StreamArrives
    <2>3. wire' = Append(wire, StartOf(t))
        BY DEF Started, StartOf
    <2>4. QED  BY <2>1, <2>2, <2>3
<1>2. stage' = [stage EXCEPT ![t] = "open"] /\ stage'[t] = "open" /\ stage[t] = "none"
      /\ UNCHANGED sent /\ sent[t] = 0
    BY DEF Started, StreamInv
<1>3. sent' = [sent EXCEPT ![t] = sent'[t]] /\ sent'[t] \in Nat
    BY <1>2 DEF StreamInv
<1>4. Top(t) = 0 /\ Top(t)' = 1
    BY <1>2 DEF Top
<1>5. StartOf(t) = Nth(t, Top(t), sent'[t])
    BY <1>4 DEF Nth
<1>6. UNCHANGED <<receiver, listed, late, outcome>>
    BY DEF Started
<1>7. /\ sent[t] <= sent'[t] /\ Top(t)' = Top(t) + 1
      /\ \A q \in 0..(Top(t) - 1) : Nth(t, q, sent'[t]) = Nth(t, q, sent[t])
    BY <1>2, <1>3, <1>4
<1>8. QED  BY <1>1, <1>2, <1>3, <1>4, <1>5, <1>6, <1>7, SendKeeps

LEMMA SentKeeps == ASSUME StreamInv, NEW t \in Streams, Sent(t) PROVE StreamInv'
<1>1. sent[t] \in Nat
    BY DEF StreamInv
<1>2. /\ ChunkOf(t, sent[t]) \in Messages /\ ChunkOf(t, sent[t]).id = t
      /\ wire' = Append(wire, ChunkOf(t, sent[t]))
    <2>1. ChunkOf(t, sent[t]) \in Messages
        BY <1>1 DEF Messages
    <2>2. ChunkOf(t, sent[t]).id = t
        BY StreamArrives
    <2>3. wire' = Append(wire, ChunkOf(t, sent[t]))
        BY DEF Sent, ChunkOf
    <2>4. QED  BY <2>1, <2>2, <2>3
<1>3. sent' = [sent EXCEPT ![t] = sent[t] + 1] /\ sent'[t] = sent[t] + 1 /\ stage[t] = "open"
      /\ UNCHANGED stage
    BY DEF Sent, StreamInv
<1>4. stage' = [stage EXCEPT ![t] = stage'[t]] /\ stage'[t] = "open"
    BY <1>3 DEF StreamInv
<1>5. Top(t) = sent[t] + 1 /\ Top(t)' = Top(t) + 1
    BY <1>1, <1>3, <1>4 DEF Top
<1>6. ChunkOf(t, sent[t]) = Nth(t, Top(t), sent'[t])
    BY <1>1, <1>3, <1>5 DEF Nth
<1>7. \A q \in 0..(Top(t) - 1) : Nth(t, q, sent'[t]) = Nth(t, q, sent[t])
    BY <1>1, <1>3, <1>5 DEF Nth
<1>8. UNCHANGED <<receiver, listed, late, outcome>>
    BY DEF Sent
<1>9. sent'[t] \in Nat /\ sent[t] <= sent'[t]
    BY <1>1, <1>3
<1>11. sent' = [sent EXCEPT ![t] = sent'[t]]
    BY <1>3
<1>10. QED  BY <1>2, <1>3, <1>4, <1>5, <1>6, <1>7, <1>8, <1>9, <1>11, SendKeeps

LEMMA EndedKeeps == ASSUME StreamInv, NEW t \in Streams, Ended(t) PROVE StreamInv'
<1>1. /\ EndOf(t) \in Messages /\ EndOf(t).id = t
      /\ wire' = Append(wire, EndOf(t))
    <2>1. EndOf(t) \in Messages
        BY DEF Messages
    <2>2. EndOf(t).id = t
        BY StreamArrives
    <2>3. wire' = Append(wire, EndOf(t))
        BY DEF Ended, EndOf
    <2>4. QED  BY <2>1, <2>2, <2>3
<1>2. stage' = [stage EXCEPT ![t] = "ended"] /\ stage'[t] = "ended" /\ stage[t] = "open"
      /\ UNCHANGED sent /\ sent[t] \in Nat
    BY DEF Ended, StreamInv
<1>3. sent' = [sent EXCEPT ![t] = sent'[t]] /\ sent'[t] \in Nat /\ sent[t] <= sent'[t]
    BY <1>2 DEF StreamInv
<1>4. Top(t) = sent[t] + 1 /\ Top(t)' = Top(t) + 1
    BY <1>2 DEF Top
<1>5. EndOf(t) = Nth(t, Top(t), sent'[t])
    BY <1>2, <1>4 DEF Nth
<1>6. UNCHANGED <<receiver, listed, late, outcome>>
    BY DEF Ended
<1>7. QED  BY <1>1, <1>2, <1>3, <1>4, <1>5, <1>6, SendKeeps

\* After the connection is lost nothing more comes.
LEMMA ConnectionLostKeeps == ASSUME StreamInv, ConnectionLost PROVE StreamInv'
<1>1. wire' = <<>> /\ stage' = [s \in Streams |-> "ended"] /\ UNCHANGED <<sent, receiver, listed, late, outcome>>
    BY DEF ConnectionLost
<1>2. Cut' /\ wire' \in Seq(Messages)
    BY <1>1 DEF Cut
<1>3. ASSUME NEW s \in Streams PROVE Kept(s)'
    <2>1. stage'[s] = "ended" /\ Top(s)' = sent[s] + 2 /\ sent[s] \in Nat
        BY <1>1 DEF Top, StreamInv
    <2>2. ASSUME s \notin late, Served(s) PROVE Timely(s)'
        <3>1. CASE s \in listed /\ Fed(s)
            <4>1. PICK n \in 0..(sent[s] + 1) : receiver[s] = Received(s, n)
                BY <3>1 DEF Fed
            <4>2. n <= Top(s)'
                BY <2>1
            <4>3. Fed(s)'
                BY <1>1, <1>2, <4>1, <4>2 DEF Fed, Received
            <4>4. QED  BY <1>1, <3>1, <4>3 DEF Timely
        <3>2. CASE s \notin listed /\ receiver[s] = Whole(s)
            BY <1>1, <2>1, <3>2 DEF Timely, Whole
        <3>3. QED  BY <2>2, <3>1, <3>2 DEF StreamInv, Served, Timely
    <2>3. QED  BY <1>1, <2>1, <2>2 DEF Kept, Served, StreamInv, Delivered, Whole
<1>4. stage' \in [Streams -> {"none", "open", "ended"}]
    BY <1>1
<1>5. QED  BY <1>1, <1>2, <1>3, <1>4 DEF StreamInv, Kept, Served

LEMMA CreateKeeps == ASSUME StreamInv, NEW t \in Streams, CreateStream(t) PROVE StreamInv'
<1>1. /\ receiver' = [receiver EXCEPT ![t] = Fresh] /\ listed' = listed \cup {t}
      /\ late' = IF stage[t] = "none" THEN late ELSE late \cup {t}
      /\ UNCHANGED <<stage, sent, wire, outcome>>
    BY DEF CreateStream
<1>2. ASSUME NEW s \in Streams, s # t PROVE Kept(s)'
    <2>1. receiver'[s] = receiver[s] /\ (s \in late' <=> s \in late) /\ (s \in listed' <=> s \in listed)
        BY <1>1, <1>2 DEF StreamInv
    <2>2. Timely(s) => Timely(s)'
        <3>4. Top(s)' = Top(s)
            BY <1>1 DEF Top
        <3>1. ASSUME NEW n, Feed(s, n) PROVE Feed(s, n)'
            BY <1>1, <3>1, <3>4 DEF Feed
        <3>2. Fed(s) => Fed(s)'
            BY <1>1, <2>1, <3>1 DEF Fed, Cut, Top, Received
        <3>3. QED  BY <1>1, <2>1, <3>2 DEF Timely, Whole
    <2>3. QED  BY <1>1, <2>1, <2>2 DEF StreamInv, Kept, Served, Delivered, Whole
<1>3. Kept(t)'
    <2>1. ASSUME t \notin late' PROVE Timely(t)'
        <3>1. stage[t] = "none" /\ sent[t] = 0 /\ \A i \in 1..Len(wire) : wire[i].id # t
            BY <1>1, <2>1 DEF StreamInv
        <3>2. Top(t)' = 0
            BY <1>1, <3>1 DEF Top
        <3>3. (0..(Top(t) - 1))' = {}
            BY <3>2
        <3>4. Feed(t, 0)'
            BY <1>1, <3>1, <3>3 DEF Feed
        <3>5. receiver'[t] = Fresh /\ t \in listed'
            BY <1>1 DEF StreamInv
        <3>6. Fed(t)'
            BY <1>1, <3>1, <3>2, <3>4, <3>5 DEF Fed, Received
        <3>7. QED  BY <3>5, <3>6 DEF Timely
    <2>2. t \notin late' => t \notin late
        BY <1>1
    <2>3. QED  BY <1>1, <2>1, <2>2 DEF StreamInv, Kept, Served, Delivered, Whole
<1>4. receiver' = [s \in Streams |-> receiver'[s]]
    BY <1>1 DEF StreamInv
<1>5. QED  BY <1>1, <1>2, <1>3, <1>4 DEF StreamInv, Kept, Served

LEMMA WaitKeeps == ASSUME StreamInv, NEW t \in Streams, Wait(t) PROVE StreamInv'
<1>1. UNCHANGED <<stage, sent, wire, receiver, listed, late>>
    BY DEF Wait
<1>2. \A s \in Streams : Timely(s)' = Timely(s)
    BY <1>1 DEF Timely, Fed, Cut, Feed, Top, Whole, Received
<1>3. outcome' = [outcome EXCEPT ![t] = outcome'[t]]
      /\ outcome'[t] = IF receiver[t].complete THEN Assemble(receiver[t]) ELSE TimedOut
    BY DEF Wait, StreamInv
<1>4. ASSUME t \notin late, outcome'[t] # TimedOut PROVE Delivered(t)'
    <2>1. receiver[t].complete /\ receiver[t] # Nothing
        BY <1>3, <1>4 DEF Wait
    <2>2. stage[t] = "ended" /\ receiver[t] = Whole(t)
        <3>1. \A n : ~Received(t, n).complete
            BY DEF Received, ReceiverOf, Fresh
        <3>2. QED  BY <1>4, <2>1, <3>1 DEF StreamInv, Served, Timely, Fed
    <2>3. QED  BY <1>1, <1>3, <2>1, <2>2 DEF Delivered, Whole
<1>5. \A s \in Streams \ {t} : outcome'[s] = outcome[s]
    BY <1>3 DEF StreamInv
<1>6. \A s \in Streams : s \notin late /\ outcome'[s] \notin {Nothing, TimedOut} => Delivered(s)'
    BY <1>1, <1>4, <1>5 DEF StreamInv, Delivered, Whole
<1>7. outcome' = [s \in Streams |-> outcome'[s]]
    BY <1>3 DEF StreamInv
<1>8. QED  BY <1>1, <1>2, <1>6, <1>7 DEF StreamInv, Served

ReceiverFields == {"chunks", "content", "complete"}

\* A receiver as a function of its fields, so that EXCEPT can be expanded.
LEMMA ReceiverForm ==
    ASSUME NEW a, NEW b, NEW c
    PROVE  ReceiverOf(a, b, c) =
              [f \in ReceiverFields |-> IF f = "chunks" THEN a ELSE IF f = "content" THEN b ELSE c]
BY DEF ReceiverFields, ReceiverOf

\* One field of a receiver is set.
LEMMA ReceiverSet ==
    ASSUME NEW a, NEW b, NEW c, NEW x
    PROVE  /\ [ReceiverOf(a, b, c) EXCEPT !.chunks = x] = ReceiverOf(x, b, c)
           /\ [ReceiverOf(a, b, c) EXCEPT !.content = x] = ReceiverOf(a, x, c)
           /\ [ReceiverOf(a, b, c) EXCEPT !.complete = x] = ReceiverOf(a, b, x)
<1>1. [ReceiverOf(a, b, c) EXCEPT !.chunks = x] = ReceiverOf(x, b, c)
    BY ReceiverForm DEF ReceiverFields
<1>2. [ReceiverOf(a, b, c) EXCEPT !.content = x] = ReceiverOf(a, x, c)
    BY ReceiverForm DEF ReceiverFields
<1>3. [ReceiverOf(a, b, c) EXCEPT !.complete = x] = ReceiverOf(a, b, x)
    BY ReceiverForm DEF ReceiverFields
<1>4. QED  BY <1>1, <1>2, <1>3

\* What a receiver makes of its next message: of the start,
LEMMA StartReceived ==
    ASSUME NEW s
    PROVE  [Received(s, 0) EXCEPT !.content = ContentOf[s]] = Received(s, 1)
<1> DEFINE empty == <<>>
           json == "json"
           no == FALSE
<1>1. Received(s, 0) = ReceiverOf(empty, json, no)
    BY DEF Received, Fresh, ReceiverOf
<1>2. Received(s, 1) = ReceiverOf(Pieces(s, 0), ContentOf[s], no)
    BY DEF Received
<1>3. Pieces(s, 0) = empty
    BY DEF Pieces
<1> HIDE DEF empty, json, no
<1>4. QED  BY <1>1, <1>2, <1>3, ReceiverSet

\* Behind the start, a receiver has all the pieces up to the number of chunks read.
LEMMA ReceivedNext ==
    ASSUME NEW s, NEW n \in Nat
    PROVE  Received(s, n + 1) = ReceiverOf(Pieces(s, n), ContentOf[s], FALSE)
<1> DEFINE no == FALSE
<1>1. n + 1 # 0 /\ n + 1 - 1 = n
    OBVIOUS
<1>2. Pieces(s, n + 1 - 1) = Pieces(s, n)
    BY <1>1
<1>3. Received(s, n + 1) = IF n + 1 = 0 THEN Fresh ELSE ReceiverOf(Pieces(s, n + 1 - 1), ContentOf[s], no)
    BY DEF Received
<1> HIDE DEF no
<1>4. Received(s, n + 1) = ReceiverOf(Pieces(s, n), ContentOf[s], no)
    BY <1>1, <1>2, <1>3
<1>5. QED  BY <1>4 DEF no

\* of a piece,
LEMMA ChunkReceived ==
    ASSUME NEW s, NEW n \in Nat \ {0}
    PROVE  OnChunk(Received(s, n), <<s, n - 1>>, n - 1) = Received(s, n + 1)
<1> DEFINE r == Received(s, n)
           p == Pieces(s, n - 1)
           no == FALSE
<1>1. r = ReceiverOf(p, ContentOf[s], no) /\ r.chunks = p
    BY DEF Received, ReceiverOf
<1>2. Len(p) = n - 1 /\ DOMAIN p = 1..(n - 1) /\ \A i \in 1..(n - 1) : p[i] = <<s, i - 1>>
    <2>1. n - 1 \in Nat
        OBVIOUS
    <2>2. QED  BY <2>1 DEF Pieces
<1>3. Received(s, n + 1) = ReceiverOf(Pieces(s, n), ContentOf[s], no)
    BY ReceivedNext
<1> HIDE DEF r, p, no
<1>4. [i \in 1..(IF n - 1 < Len(p) THEN Len(p) ELSE n) |->
         IF i = n THEN <<s, n - 1>> ELSE IF i <= Len(p) THEN p[i] ELSE Nothing] = Pieces(s, n)
    BY <1>2 DEF Pieces
<1>5. OnChunk(r, <<s, n - 1>>, n - 1) =
        [r EXCEPT !.chunks =
            [i \in 1..(IF n - 1 < Len(r.chunks) THEN Len(r.chunks) ELSE n - 1 + 1) |->
                IF i = n - 1 + 1 THEN <<s, n - 1>> ELSE IF i <= Len(r.chunks) THEN r.chunks[i] ELSE Nothing]]
    BY DEF OnChunk
<1>6. r.chunks = p /\ n - 1 + 1 = n
    BY <1>1
<1>7. OnChunk(r, <<s, n - 1>>, n - 1) = [r EXCEPT !.chunks = Pieces(s, n)]
    <2>1. [i \in 1..(IF n - 1 < Len(r.chunks) THEN Len(r.chunks) ELSE n - 1 + 1) |->
             IF i = n - 1 + 1 THEN <<s, n - 1>> ELSE IF i <= Len(r.chunks) THEN r.chunks[i] ELSE Nothing]
          = Pieces(s, n)
        BY <1>4, <1>6
    <2>2. QED  BY <1>5, <2>1
<1>8. OnChunk(r, <<s, n - 1>>, n - 1) = Received(s, n + 1)
    BY <1>1, <1>3, <1>7, ReceiverSet
<1>9. QED  BY <1>8 DEF r

\* and of the end.
LEMMA EndReceived ==
    ASSUME NEW s \in Streams, sent[s] \in Nat
    PROVE  [Received(s, sent[s] + 1) EXCEPT !.complete = TRUE] = Whole(s)
<1> DEFINE no == FALSE
           yes == TRUE
<1>2. Received(s, sent[s] + 1) = ReceiverOf(Pieces(s, sent[s]), ContentOf[s], no)
    BY ReceivedNext
<1>3. Whole(s) = ReceiverOf(Pieces(s, sent[s]), ContentOf[s], yes)
    BY DEF Whole
<1> HIDE DEF no, yes
<1>4. [Received(s, sent[s] + 1) EXCEPT !.complete = yes] = Whole(s)
    BY <1>2, <1>3, ReceiverSet
<1>5. QED  BY <1>4 DEF yes

\* handle_message of the next message, which is for stream t.
LEMMA HandleEffect ==
    ASSUME StreamInv, HandleMessage, NEW t, t = Head(wire).id
    PROVE  /\ t \in Streams /\ wire # <<>> /\ wire' = Tail(wire)
           /\ UNCHANGED <<stage, sent, late, outcome>>
           /\ receiver' = [s \in Streams |-> receiver'[s]]
           /\ \A s \in Streams \ {t} : receiver'[s] = receiver[s] /\ (s \in listed' <=> s \in listed)
           /\ t \notin listed => UNCHANGED <<receiver, listed>>
           /\ t \in listed /\ Head(wire) = StartOf(t) =>
                receiver'[t] = [receiver[t] EXCEPT !.content = ContentOf[t]] /\ UNCHANGED listed
           /\ \A k \in Nat : t \in listed /\ Head(wire) = ChunkOf(t, k) =>
                receiver'[t] = OnChunk(receiver[t], <<t, k>>, k) /\ UNCHANGED listed
           /\ t \in listed /\ Head(wire) = EndOf(t) =>
                receiver'[t] = [receiver[t] EXCEPT !.complete = TRUE] /\ listed' = listed \ {t}
<1>1. wire # <<>> /\ wire' = Tail(wire) /\ UNCHANGED <<stage, sent, late, outcome>>
    BY DEF HandleMessage
<1>2. Head(wire) \in Messages
    BY <1>1 DEF StreamInv
<1> DEFINE d == Head(wire)
<1>3. \/ \E s \in Streams : d = StartOf(s)
      \/ \E s \in Streams, k \in Nat : d = ChunkOf(s, k)
      \/ \E s \in Streams : d = EndOf(s)
    BY <1>2 DEF Messages
<1> HIDE DEF d
<1>4. /\ t \in Streams
      /\ d = StartOf(t) \/ (\E k \in Nat : d = ChunkOf(t, k)) \/ d = EndOf(t)
    <2>1. \A s \in Streams, k \in Nat : StartOf(s).id = s /\ ChunkOf(s, k).id = s /\ EndOf(s).id = s
        BY StreamArrives
    <2>2. t = d.id
        BY DEF d
    <2>3. QED  BY <1>3, <2>1, <2>2
<1>5. receiver = [s \in Streams |-> receiver[s]]
    BY DEF StreamInv
<1> DEFINE m == FromJson(d)
<1>6. m.id = t
    BY <1>4, StreamArrives
<1>7. IF t \notin listed THEN UNCHANGED <<receiver, listed>>
      ELSE CASE m.type = "stream.start" ->
                     receiver' = [receiver EXCEPT ![t].content = m.metadata] /\ UNCHANGED listed
             [] m.type = "stream.chunk" ->
                     /\ receiver' = [receiver EXCEPT ![t] = OnChunk(@, m.result, m.metadata)]
                     /\ UNCHANGED listed
             [] m.type = "stream.end" ->
                     receiver' = [receiver EXCEPT ![t].complete = TRUE] /\ listed' = listed \ {t}
    BY <1>6 DEF HandleMessage, d
<1>8. d = StartOf(t) => m.type = "stream.start" /\ m.metadata = ContentOf[t]
    <2>1. FromJson(StartOf(t)).type = "stream.start" /\ FromJson(StartOf(t)).metadata = ContentOf[t]
        BY StreamArrives
    <2>2. QED  BY <2>1
<1>9. ASSUME NEW k \in Nat, d = ChunkOf(t, k)
      PROVE  m.type = "stream.chunk" /\ m.metadata = k /\ m.result = <<t, k>>
    BY <1>9, StreamArrives
<1>10. d = EndOf(t) => m.type = "stream.end"
    <2>1. FromJson(EndOf(t)).type = "stream.end"
        BY StreamArrives
    <2>2. QED  BY <2>1
<1> HIDE DEF m
<1>11. CASE t \notin listed
    BY <1>1, <1>4, <1>5, <1>7, <1>11
<1>12. CASE t \in listed /\ d = StartOf(t)
    <2>1. receiver' = [receiver EXCEPT ![t] = [receiver[t] EXCEPT !.content = ContentOf[t]]]
          /\ UNCHANGED listed
        BY <1>7, <1>8, <1>12
    <2>2. \A k \in Nat : d # ChunkOf(t, k)
        BY <1>8, <1>9, <1>12
    <2>3. d # EndOf(t)
        BY <1>8, <1>10, <1>12
    <2>4. QED  BY <1>1, <1>4, <1>5, <1>12, <2>1, <2>2, <2>3 DEF d
<1>13. CASE t \in listed /\ \E k \in Nat : d = ChunkOf(t, k)
    <2>1. PICK k \in Nat : d = ChunkOf(t, k)
        BY <1>13
    <2>2. m.type = "stream.chunk" /\ m.metadata = k /\ m.result = <<t, k>>
        BY <1>9, <2>1
    <2>3. receiver' = [receiver EXCEPT ![t] = OnChunk(receiver[t], <<t, k>>, k)] /\ UNCHANGED listed
        BY <1>7, <1>13, <2>2
    <2>4. \A j \in Nat : d = ChunkOf(t, j) => j = k
        BY <1>9, <2>2
    <2>5. d # EndOf(t) /\ d # StartOf(t)
        BY <1>8, <1>10, <2>2
    <2>6. QED  BY <1>1, <1>4, <1>5, <1>13, <2>3, <2>4, <2>5 DEF d
<1>14. CASE t \in listed /\ d = EndOf(t)
    <2>1. receiver' = [receiver EXCEPT ![t] = [receiver[t] EXCEPT !.complete = TRUE]]
          /\ listed' = listed \ {t}
        BY <1>7, <1>10, <1>14
    <2>2. \A k \in Nat : d # ChunkOf(t, k)
        BY <1>9, <1>10, <1>14
    <2>3. d # StartOf(t)
        BY <1>8, <1>10, <1>14
    <2>4. QED  BY <1>1, <1>4, <1>5, <1>14, <2>1, <2>2, <2>3 DEF d
<1>15. QED  BY <1>4, <1>11, <1>12, <1>13, <1>14

LEMMA HandleKeeps == ASSUME StreamInv, HandleMessage PROVE StreamInv'
<1>0. PICK t : t = Head(wire).id
    OBVIOUS
<1>1. /\ t \in Streams /\ wire # <<>> /\ wire' = Tail(wire)
      /\ UNCHANGED <<stage, sent, late, outcome>>
      /\ receiver' = [s \in Streams |-> receiver'[s]]
      /\ \A s \in Streams \ {t} : receiver'[s] = receiver[s] /\ (s \in listed' <=> s \in listed)
      /\ t \notin listed => UNCHANGED <<receiver, listed>>
    BY <1>0, HandleEffect
<1>2. wire' \in Seq(Messages)
    BY <1>1 DEF StreamInv
<1>3. ASSUME NEW s \in Streams, stage[s] = "none" PROVE \A i \in 1..Len(wire') : wire'[i].id # s
    <2>1. Len(wire) \in Nat /\ Len(wire') = Len(wire) - 1
          /\ \A i \in 1..(Len(wire) - 1) : wire'[i] = wire[i + 1]
        BY <1>1 DEF StreamInv
    <2>2. \A i \in 1..Len(wire) : wire[i].id # s
        BY <1>3 DEF StreamInv
    <2>3. QED  BY <2>1, <2>2
<1>4. ~Cut
    BY <1>1 DEF Cut
<1>5. \A s \in Streams : Top(s)' = Top(s)
    BY <1>1 DEF Top
<1>6. ASSUME NEW s \in Streams, s # t, s \notin late, Served(s)' PROVE Timely(s)'
    <2>1. receiver'[s] = receiver[s] /\ (s \in listed' <=> s \in listed)
        BY <1>1, <1>6
    <2>2. Timely(s)
        BY <1>6, <2>1 DEF StreamInv, Served
    <2>3. CASE s \notin listed /\ stage[s] = "ended" /\ receiver[s] = Whole(s)
        BY <1>1, <2>1, <2>3 DEF Timely, Whole
    <2>4. CASE s \in listed /\ Fed(s)
        <3>1. PICK n \in 0..(sent[s] + 1) : n <= Top(s) /\ receiver[s] = Received(s, n) /\ Feed(s, n)
            BY <1>4, <2>4 DEF Fed
        <3>2. n \in Nat
            BY DEF StreamInv
        <3>3. Feed(s, n)'
            BY <1>0, <1>1, <1>6, <3>1, <3>2, FeedSkips
        <3>4. Fed(s)'
            BY <1>1, <1>5, <2>1, <3>1, <3>3 DEF Fed, Received
        <3>5. QED  BY <2>1, <2>4, <3>4 DEF Timely
    <2>5. QED  BY <2>2, <2>3, <2>4 DEF Timely
<1>7. ASSUME t \notin late, Served(t)' PROVE Timely(t)'
    <2>1. CASE t \notin listed
        <3>1. Served(t)
            BY <1>1, <1>7, <2>1 DEF Served
        <3>2. stage[t] = "ended" /\ receiver[t] = Whole(t)
            BY <1>1, <1>7, <2>1, <3>1 DEF StreamInv, Timely
        <3>3. QED  BY <1>1, <2>1, <3>2 DEF Timely, Whole
    <2>2. CASE t \in listed
        <3>1. Fed(t)
            BY <1>1, <1>7, <2>2 DEF StreamInv, Timely, Served
        <3>2. PICK n \in 0..(sent[t] + 1) : n <= Top(t) /\ receiver[t] = Received(t, n) /\ Feed(t, n)
            BY <1>4, <3>1 DEF Fed
        <3>3. sent[t] \in Nat /\ n \in Nat
            BY <1>1 DEF StreamInv
        <3>4. n < Top(t) /\ Head(wire) = Nth(t, n, sent[t]) /\ Feed(t, n + 1)'
            BY <1>0, <1>1, <3>2, <3>3, FeedTaken
        <3>5. ASSUME n <= sent[t], receiver'[t] = Received(t, n + 1), UNCHANGED listed PROVE Timely(t)'
            <4>1. n + 1 \in 0..(sent[t] + 1) /\ n + 1 <= Top(t)
                <5>1. Top(t) \in Nat
                    BY <1>1 DEF Top, StreamInv
                <5>2. QED  BY <3>3, <3>4, <3>5, <5>1
            <4>2. n + 1 \in (0..(sent[t] + 1))' /\ n + 1 <= Top(t)'
                BY <1>1, <1>5, <4>1
            <4>3. Fed(t)'
                BY <3>4, <3>5, <4>2 DEF Fed, Received
            <4>4. QED  BY <2>2, <3>5, <4>3 DEF Timely
        <3>6. CASE n = 0
            <4>1. Head(wire) = StartOf(t)
                BY <3>4, <3>6 DEF Nth
            <4>2. receiver'[t] = [receiver[t] EXCEPT !.content = ContentOf[t]] /\ UNCHANGED listed
                BY <1>0, <2>2, <4>1, HandleEffect
            <4>3. receiver'[t] = Received(t, 1)
                BY <3>2, <3>6, <4>2, StartReceived
            <4>4. QED  BY <3>3, <3>5, <3>6, <4>2, <4>3
        <3>7. CASE n # 0 /\ n <= sent[t]
            <4>1. Head(wire) = ChunkOf(t, n - 1) /\ n - 1 \in Nat
                BY <3>3, <3>4, <3>7 DEF Nth
            <4>2. receiver'[t] = OnChunk(receiver[t], <<t, n - 1>>, n - 1) /\ UNCHANGED listed
                BY <1>0, <2>2, <4>1, HandleEffect
            <4>3. receiver'[t] = Received(t, n + 1)
                BY <3>2, <3>3, <3>7, <4>2, ChunkReceived
            <4>4. QED  BY <3>5, <3>7, <4>2, <4>3
        <3>8. CASE n = sent[t] + 1
            <4>1. Head(wire) = EndOf(t)
                BY <3>3, <3>4, <3>8 DEF Nth
            <4>2. receiver'[t] = [receiver[t] EXCEPT !.complete = TRUE] /\ t \notin listed'
                BY <1>0, <2>2, <4>1, HandleEffect
            <4>3. receiver'[t] = Whole(t)
                BY <1>1, <3>2, <3>3, <3>8, <4>2, EndReceived
            <4>4. stage[t] = "ended"
                BY <1>1, <3>3, <3>4, <3>8 DEF Top, StreamInv
            <4>5. QED  BY <1>1, <4>2, <4>3, <4>4 DEF Timely, Whole
        <3>9. QED  BY <3>3, <3>6, <3>7, <3>8
    <2>3. QED  BY <2>1, <2>2
<1>8. \A s \in Streams : s \notin late' /\ outcome'[s] \notin {Nothing, TimedOut} => Delivered(s)'
    BY <1>1 DEF StreamInv, Delivered, Whole
<1>9. \A s \in Streams : s \notin late' /\ Served(s)' => Timely(s)'
    BY <1>1, <1>6, <1>7
<1>10. QED  BY <1>1, <1>2, <1>3, <1>8, <1>9 DEF StreamInv

LEMMA StreamSteps == StreamInv /\ [StreamNext]_streamVars => StreamInv'
<1> SUFFICES ASSUME StreamInv, [StreamNext]_streamVars PROVE StreamInv'
    OBVIOUS
<1>1. CASE UNCHANGED streamVars
    <2>1. UNCHANGED <<stage, sent, wire, receiver, listed, late, outcome>>
        BY <1>1 DEF streamVars
    <2>2. \A s \in Streams : Timely(s)' = Timely(s)
        BY <2>1 DEF Timely, Fed, Cut, Feed, Top, Whole, Received
    <2>3. QED  BY <2>1, <2>2 DEF StreamInv, Served, Delivered, Whole
<1>2. QED
    BY <1>1, StartedKeeps, SentKeeps, EndedKeeps, CreateKeeps, WaitKeeps, HandleKeeps,
       ConnectionLostKeeps
       DEF StreamNext, StreamStep, StreamOver

\* What a caller gets whose receiver was there when the stream began is the whole result,
\* in order: handle_message and on_chunk lose, repeat and mix up nothing, for any number of
\* streams and of pieces, and a lost connection leaves the caller to its timeout.
THEOREM StreamsArriveWhole == StreamSpec => []StreamWhole
<1>1. StreamInv => StreamWhole
    BY DEF StreamInv, StreamWhole, Delivered, Whole, ReceiverOf, Pieces
<1>2. QED  BY <1>1, StreamStarts, StreamSteps, PTL DEF StreamSpec

-----------------------------------------------------------------------------
(* The receivers' types: those of the late ones too, which may have holes.   *)

\* on_chunk keeps a receiver a receiver, holes included, and does not end it.
LEMMA ChunkTyped ==
    ASSUME NEW r \in Receivers, NEW d \in Streams \X Nat, NEW k \in Nat
    PROVE  OnChunk(r, d, k) \in Receivers /\ OnChunk(r, d, k).complete = r.complete
<1> DEFINE T == (Streams \X Nat) \cup {Nothing}
           c == r.chunks
           n == IF k < Len(c) THEN Len(c) ELSE k + 1
           e == [i \in 1..n |-> IF i = k + 1 THEN d ELSE IF i <= Len(c) THEN c[i] ELSE Nothing]
<1>1. c \in Seq(T) /\ r.content \in {"json", "text"} /\ r.complete \in BOOLEAN
    BY DEF Receivers
<1>2. d \in T
    OBVIOUS
<1>3. Nothing \in T
    OBVIOUS
<1>4. OnChunk(r, d, k) = [r EXCEPT !.chunks = e]
    BY DEF OnChunk
<1> HIDE DEF T, c
<1>5. n \in Nat /\ Len(c) \in Nat /\ \A i \in 1..Len(c) : c[i] \in T
    BY <1>1
<1> HIDE DEF n
<1>6. \A i \in 1..n : (IF i = k + 1 THEN d ELSE IF i <= Len(c) THEN c[i] ELSE Nothing) \in T
    BY <1>2, <1>3, <1>5
<1>7. e \in Seq(T)
    BY <1>5, <1>6
<1> HIDE DEF e
<1>8. QED  BY <1>1, <1>4, <1>7 DEF Receivers, T

\* Setting the content type or the end keeps a receiver a receiver.
LEMMA FieldTyped ==
    ASSUME NEW r \in Receivers, NEW x \in {"json", "text"}
    PROVE  /\ [r EXCEPT !.content = x] \in Receivers /\ [r EXCEPT !.content = x].complete = r.complete
           /\ [r EXCEPT !.complete = TRUE] \in Receivers
BY DEF Receivers

LEMMA FreshTyped == Fresh \in Receivers /\ ~Fresh.complete
<1>1. <<>> \in Seq((Streams \X Nat) \cup {Nothing})
    OBVIOUS
<1>2. QED  BY <1>1 DEF Fresh, Receivers

ReceiversOK ==
    /\ sent \in [Streams -> 0..MaxChunks]
    /\ receiver \in [Streams -> Receivers \cup {Nothing}]
    /\ listed \subseteq {s \in Streams : receiver[s] # Nothing /\ ~receiver[s].complete}
    /\ late \subseteq Streams

LEMMA HandleTyped == ASSUME StreamInv, ReceiversOK, HandleMessage PROVE ReceiversOK'
<1>1. PICK t : t = Head(wire).id
    OBVIOUS
<1>2. /\ t \in Streams /\ wire # <<>> /\ UNCHANGED <<sent, late>>
      /\ receiver' = [s \in Streams |-> receiver'[s]]
      /\ \A s \in Streams \ {t} : receiver'[s] = receiver[s] /\ (s \in listed' <=> s \in listed)
      /\ t \notin listed => UNCHANGED <<receiver, listed>>
    BY <1>1, HandleEffect
<1>3. CASE t \notin listed
    BY <1>2, <1>3 DEF ReceiversOK
<1>4. CASE t \in listed
    <2>1. receiver[t] \in Receivers /\ ~receiver[t].complete
        BY <1>4 DEF ReceiversOK
    <2>2. Head(wire) \in Messages
        BY <1>2 DEF StreamInv
    <2>3. Head(wire) = StartOf(t) \/ (\E k \in Nat : Head(wire) = ChunkOf(t, k)) \/ Head(wire) = EndOf(t)
        <3>1. \A s \in Streams, k \in Nat : StartOf(s).id = s /\ ChunkOf(s, k).id = s /\ EndOf(s).id = s
            BY StreamArrives
        <3>2. QED  BY <1>1, <2>2, <3>1 DEF Messages
    <2>4. CASE Head(wire) = StartOf(t)
        <3>1. receiver'[t] = [receiver[t] EXCEPT !.content = ContentOf[t]] /\ UNCHANGED listed
            BY <1>1, <1>4, <2>4, HandleEffect
        <3>4. ContentOf[t] \in {"json", "text"}
            BY <1>2, StreamAssumption
        <3>2. receiver'[t] \in Receivers /\ ~receiver'[t].complete
            BY <2>1, <3>1, <3>4, FieldTyped
        <3>3. QED  BY <1>2, <3>1, <3>2, StreamAssumption DEF ReceiversOK
    <2>5. ASSUME NEW k \in Nat, Head(wire) = ChunkOf(t, k) PROVE ReceiversOK'
        <3>1. receiver'[t] = OnChunk(receiver[t], <<t, k>>, k) /\ UNCHANGED listed
            BY <1>1, <1>4, <2>5, HandleEffect
        <3>2. receiver'[t] \in Receivers /\ ~receiver'[t].complete
            BY <1>2, <2>1, <3>1, ChunkTyped
        <3>3. QED  BY <1>2, <3>1, <3>2, StreamAssumption DEF ReceiversOK
    <2>6. CASE Head(wire) = EndOf(t)
        <3>1. receiver'[t] = [receiver[t] EXCEPT !.complete = TRUE] /\ listed' = listed \ {t}
            BY <1>1, <1>4, <2>6, HandleEffect
        <3>2. receiver'[t] \in Receivers
            BY <2>1, <3>1, FieldTyped
        <3>3. QED  BY <1>2, <3>1, <3>2 DEF ReceiversOK
    <2>7. QED  BY <2>3, <2>4, <2>5, <2>6
<1>5. QED  BY <1>3, <1>4

LEMMA ReceiversStayTyped ==
    ASSUME StreamInv, ReceiversOK, [StreamNext]_streamVars
    PROVE  ReceiversOK'
<1>1. ASSUME NEW s \in Streams, CreateStream(s) PROVE ReceiversOK'
    <2>1. /\ receiver' = [receiver EXCEPT ![s] = Fresh] /\ listed' = listed \cup {s} /\ UNCHANGED sent
          /\ late' \subseteq late \cup {s}
        BY <1>1 DEF CreateStream
    <2>2. QED  BY <2>1, FreshTyped, StreamAssumption DEF ReceiversOK
<1>2. ASSUME NEW s \in Streams, Sent(s) PROVE ReceiversOK'
    BY <1>2, StreamAssumption DEF Sent, ReceiversOK
<1>3. ASSUME NEW s \in Streams, Started(s) \/ Ended(s) \/ Wait(s) PROVE ReceiversOK'
    BY <1>3 DEF Started, Ended, Wait, ReceiversOK
<1>4. CASE ConnectionLost \/ UNCHANGED streamVars
    BY <1>4 DEF ConnectionLost, streamVars, ReceiversOK
<1>5. QED  BY <1>1, <1>2, <1>3, <1>4, HandleTyped DEF StreamNext, StreamStep, StreamOver

\* The receivers and the table of streams have their types, with holes and late receivers:
\* a receiver is listed exactly as long as it may get more.
THEOREM StreamTypeCorrect == StreamSpec => []StreamTypeOK
<1>1. StreamInit => ReceiversOK
    BY StreamAssumption DEF StreamInit, ReceiversOK
<1>2. StreamInv /\ ReceiversOK => StreamTypeOK
    <2> SUFFICES ASSUME StreamInv, NEW i \in DOMAIN wire PROVE wire[i].id \in Streams
        BY DEF StreamInv, ReceiversOK, StreamTypeOK
    <2>2. wire[i] \in Messages
        <3>1. wire \in Seq(Messages)
            BY DEF StreamInv
        <3>2. QED  BY <3>1
    <2>3. \A s \in Streams, k \in Nat : StartOf(s).id = s /\ ChunkOf(s, k).id = s /\ EndOf(s).id = s
        BY StreamArrives
    <2>4. QED  BY <2>2, <2>3 DEF Messages
<1>3. QED  BY <1>1, <1>2, StreamStarts, StreamSteps, ReceiversStayTyped, PTL DEF StreamSpec

-----------------------------------------------------------------------------
(* The services side by side                                               *)

\* A behaviour of the parts side by side is one of each part, by the definition of
\* ServicesNext.
LEMMA ServicesAreTheirParts ==
    ServicesSpec => Spec /\ StreamSpec /\ ExchangeSpec /\ ValueSpec /\ ServerSessionsSpec
<1>1. ServicesInit => Init /\ StreamInit /\ ExchangeInit /\ ValueInit /\ ServerSessionsInit
    BY DEF ServicesInit
<1>2. [ServicesNext]_servicesVars =>
          /\ [Next]_vars /\ [StreamNext]_streamVars /\ [ExchangeNext]_exchangeVars
          /\ [ValueNext]_valueVars /\ [ServerSessionsNext]_serverSessionVars
    <2> SUFFICES ASSUME [ServicesNext]_servicesVars
                 PROVE  /\ [Next]_vars /\ [StreamNext]_streamVars /\ [ExchangeNext]_exchangeVars
                        /\ [ValueNext]_valueVars /\ [ServerSessionsNext]_serverSessionVars
        OBVIOUS
    <2>1. CASE ApiMoves
        BY <2>1 DEF ApiMoves
    <2>2. CASE StreamMoves
        BY <2>2 DEF StreamMoves
    <2>3. CASE ExchangeMoves
        BY <2>3 DEF ExchangeMoves
    <2>4. CASE ValueMoves
        BY <2>4 DEF ValueMoves
    <2>5. CASE SessionsMove
        BY <2>5 DEF SessionsMove
    <2>6. CASE UNCHANGED servicesVars
        BY <2>6 DEF servicesVars
    <2> QED BY <2>1, <2>2, <2>3, <2>4, <2>5, <2>6 DEF ServicesNext
<1> QED BY <1>1, <1>2, PTL
        DEF ServicesSpec, Spec, StreamSpec, ExchangeSpec, ValueSpec, ServerSessionsSpec

\* ServicesTypeOK: the types of the requests, streams, calls and sessions.
THEOREM ServicesTypeCorrect == ServicesSpec => []ServicesTypeOK
<1>1. SessionsInv => ServerSessionsTypeOK
    BY DEF SessionsInv
<1>2. TypeOK /\ StreamTypeOK /\ ExchangeTypeOK /\ ServerSessionsTypeOK => ServicesTypeOK
    BY DEF ServicesTypeOK
<1> QED BY <1>1, <1>2, ServicesAreTheirParts, ApiTypeCorrect, StreamTypeCorrect, ExchangeTypeCorrect,
           SessionsInvariant, PTL
=============================================================================
